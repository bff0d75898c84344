---------------------------------- MODULE Http ----------------------------------
(***************************************************************************)
(* One connection between a client (RequestAndResponseV of the SDK, which   *)
(* client.c repeats) and the server (OnReceivingSocket, OnSendingSocket),   *)
(* both built on src/src/util/fasterhttp.c.  Either end sends what the       *)
(* socket takes and parses what has arrived, so a message may be cut        *)
(* anywhere.  Which thread of the server runs is the matter of Session.     *)
(***************************************************************************)
EXTENDS HttpParser

CONSTANTS
  Conversations,   \* the requests a client may make of one connection, in order
  Answers,         \* what the application answers, in turn: [code, body]
  MaxSegment,      \* bound: tokens of one segment
  Torn             \* may the cr and lf that end the headers come apart?

ASSUME HttpAssumption ==
  /\ MaxSegment \in Nat \ {0} /\ Len(Answers) \in Nat \ {0}
  /\ \A i \in 1 .. Len(Answers) : Answers[i].body \in Seq(STRING)
  /\ \A c \in Conversations :
       /\ Len(c) \in Nat
       /\ \A i \in 1 .. Len(c) : /\ c[i].form \in {"none", "length", "gzip", "chunked"}
                                 /\ c[i].body \in Seq(STRING)

(* What may be sent: the words of a message are not what separates words,   *)
(* a body is announced by one digit, HEAD has none.                        *)
Separators == {"sp", "cr", "lf", ":", "nul"}
Zipped == <<"b1", "b2", "b3", "b4">>

ASSUME MessageAssumption ==
  /\ \A c \in Conversations : \A i \in 1 .. Len(c) :
       /\ {c[i].method, c[i].uri, c[i].keep} \cap Separators = {} /\ c[i].version \in Versions
       /\ c[i].form = "none" => c[i].body = <<>>
       /\ c[i].form = "length" => Len(c[i].body) <= 4
       /\ c[i].form = "gzip" => c[i].body = Zipped
       /\ c[i].method = "HEAD" => c[i].body = <<>> /\ c[i].form # "chunked"
  /\ \A i \in 1 .. Len(Answers) :
       /\ Answers[i] \in [code : STRING, body : Seq(STRING)]
       /\ Answers[i].code \notin Separators /\ Len(Answers[i].body) <= 4

VARIABLES
  conv,            \* the requests the client will make
  cli, srv,        \* the HttpEnv of either end
  toSrv, toCli,    \* what is on its way, or arrived and not yet read
  cpc, spc,        \* what either end does
  got,             \* history: requests as the server's application saw them
  made,            \* history: answers the application gave
  ans              \* history: answers as the client saw them

vars == <<conv, cli, srv, toSrv, toCli, cpc, spc, got, made, ans>>

-----------------------------------------------------------------------------
(* Messages.  A request is [method, uri, version, keep, form, body]; form   *)
(* says how the body is sent.  inflate is external: "zip" is the compressed *)
(* form of Zipped.  Lines may end with lf alone: those of "chunked" do, but *)
(* for the first chunk's.                                                  *)

Inflate(v) == IF v = <<"zip">> THEN Zipped ELSE v

CrLf == <<"cr", "lf">>
Lf == <<"lf">>
Field(name, value, eol) == <<name, ":", "sp">> \o value \o eol
Digit(n) == <<CHOOSE d \in {"d0", "d1", "d2", "d3", "d4"} : Digits[d] = n>>
Length(body) == Field("Content-Length", Digit(Len(body)), CrLf)

(* The body and the headers that announce it.                              *)
Content(m) ==
  CASE m.form = "none"    -> [head |-> <<>>, body |-> <<>>]
    [] m.form = "length"  -> [head |-> Length(m.body), body |-> m.body]
    [] m.form = "gzip"    -> [head |-> Field("Content-Encoding", <<"gzip">>, CrLf) \o Length(<<"zip">>),
                              body |-> <<"zip">>]
    [] m.form = "chunked" -> [head |-> Field("Transfer-Encoding", <<"chunked">>, Lf),
                              body |-> FlattenSeq([i \in 1 .. Len(m.body) |->
                                         <<"d1", "lf", m.body[i]>> \o IF i = 1 THEN CrLf ELSE Lf])
                                       \o <<"d0", "lf", "lf">>]

Wire(m) ==
  LET eol == IF m.form = "chunked" THEN Lf ELSE CrLf
  IN  <<m.method, "sp", m.uri, "sp", "sp", m.version>> \o eol
      \o (IF m.keep = "" THEN <<>> ELSE Field("Connection", <<m.keep>>, eol))
      \o Content(m).head \o eol \o Content(m).body

Meaning(m) ==
  [method |-> m.method, uri |-> m.uri, body |-> m.body,
   keep |-> IF m.version = "HTTP/1.0" THEN m.keep = "keep-alive" ELSE m.keep # "close"]

Valid(m) == m.method \in Methods

-----------------------------------------------------------------------------
(* Sending and receiving.                                                  *)

(* The end of the segment after i tokens leaves a cr of its lf.            *)
Tears(data, i) == i > 1 /\ data[i - 1] = "lf" /\ data[i] = "cr"

SendHttpBuffer(b, k) == [b EXCEPT !.process = @ + k]
Sent(b, k) == SubSeq(b.data, b.process + 1, b.process + k)
Sendable(b) ==
  {k \in 1 .. MaxSegment : k <= Unprocessed(b) /\ (Torn \/ ~Tears(b.data, b.process + k))}

(* What was left of an earlier receipt is parsed before more is read.      *)
ReceiveHttpBuffer(e, b, stream) ==
  IF b.process = 0 /\ b.data # <<>> THEN [e |-> e, b |-> b, rest |-> stream]
  ELSE LET size == ReallocHttpBuffer(b, Len(b.data) + 1)
           room == size - 1 - Len(b.data)
           n == Min({room, Len(stream)})
       IN  [e |-> [e EXCEPT !.moved = @ \/ (size # b.size /\ e.chunk_end > 0)],
            b |-> [b EXCEPT !.data = @ \o SubSeq(stream, 1, n), !.size = size],
            rest |-> SubSeq(stream, n + 1, Len(stream))]

(* The byte behind a request becomes a 0, be it the first of the next.     *)
Terminate(b) ==
  IF Unprocessed(b) > 0 THEN [b EXCEPT !.data[b.process + 1] = "nul"] ELSE b

(* The inflated body replaces the other.                                   *)
UncompressHttpBody(e, b) ==
  IF e.encoding # <<"gzip">> THEN [e |-> e, b |-> b]
  ELSE LET out == Inflate(GetHttpBodyPtr(e, b))
           need == e.body + Len(out) + 1
       IN  [e |-> [e EXCEPT !.content_length = Len(out)],
            b |-> [b EXCEPT !.data = SubSeq(@, 1, e.body) \o out,
                            !.size = IF need > @ THEN need ELSE @]]

-----------------------------------------------------------------------------
(* The client *)

Asked == Len(ans) + 1

RequestUnreset ==                       \* defect: forgets ResetHttpEnv
  /\ cpc = "idle" /\ Asked <= Len(conv)
  /\ cli' = [cli EXCEPT !.req = StrcatfHttpBuffer(@, Wire(conv[Asked]))]
  /\ cpc' = "send"
  /\ UNCHANGED <<conv, srv, toSrv, toCli, spc, got, made, ans>>

Request ==
  /\ cpc = "idle" /\ Asked <= Len(conv)
  /\ LET e == ResetHttpEnv(cli)
     IN  cli' = [e EXCEPT !.req = StrcatfHttpBuffer(@, Wire(conv[Asked]))]
  /\ cpc' = "send"
  /\ UNCHANGED <<conv, srv, toSrv, toCli, spc, got, made, ans>>

SendHttpRequest ==
  /\ cpc = "send" /\ spc # "closed"
  /\ \E k \in Sendable(cli.req) :
       /\ toSrv' = toSrv \o Sent(cli.req, k)
       /\ cli' = [cli EXCEPT !.req = SendHttpBuffer(@, k)]
       /\ cpc' = IF k = Unprocessed(cli.req) THEN "receive" ELSE "send"
  /\ UNCHANGED <<conv, srv, toCli, spc, got, made, ans>>

(* One turn of ReceiveHttpResponse's loop.                                 *)
ReceiveHttpResponse ==
  /\ cpc = "receive" /\ toCli # <<>>
  /\ \E r \in {ReceiveHttpBuffer(cli, cli.rsp, toCli)} :
     \E s \in {ParseHttpBuffer(r.e, r.b)} :
     LET u == UncompressHttpBody(s.e, s.b)
     IN  /\ toCli' = r.rest
         /\ \/ /\ s.ret = "more"
               /\ cli' = [s.e EXCEPT !.rsp = s.b]
               /\ UNCHANGED <<cpc, ans>>
            \/ /\ s.ret = "done"
               /\ cli' = [u.e EXCEPT !.rsp = u.b]
               /\ ans' = Append(ans, [code |-> u.e.statuscode, body |-> GetHttpBodyPtr(u.e, u.b)])
               /\ cpc' = "idle"
            \/ /\ s.ret \in {"invalid", "lost"}
               /\ cpc' = "refused"
               /\ UNCHANGED <<cli, ans>>
  /\ UNCHANGED <<conv, srv, toSrv, spc, got, made>>

(* The server has closed, or there is nothing more to ask.                 *)
Disconnect ==
  /\ \/ cpc = "idle" /\ Asked > Len(conv)
     \/ cpc \in {"idle", "send", "receive"} /\ spc = "closed" /\ toCli = <<>>
  /\ cpc' = "closed"
  /\ UNCHANGED <<conv, cli, srv, toSrv, toCli, spc, got, made, ans>>

(* Sending or receiving takes the client too long.                         *)
TimeOut ==
  /\ cpc \in {"send", "receive"}
  /\ cpc' = "closed"
  /\ UNCHANGED <<conv, cli, srv, toSrv, toCli, spc, got, made, ans>>

-----------------------------------------------------------------------------
(* The server *)

(* One turn of ReceiveHttpRequestNonblock's loop, which goes on until the   *)
(* socket is empty, a request is whole, or wrong.                          *)
ReceiveHttpRequestNonblock ==
  /\ spc = "receive" /\ toSrv # <<>>
  /\ \E r \in {ReceiveHttpBuffer(srv, srv.req, toSrv)} :
     \E s \in {ParseHttpBuffer(r.e, r.b)} :
     LET u == UncompressHttpBody(s.e, Terminate(s.b))
     IN  /\ toSrv' = r.rest
         /\ \/ /\ s.ret = "more"
               /\ srv' = [s.e EXCEPT !.req = s.b]
               /\ UNCHANGED <<spc, got>>
            \/ /\ s.ret = "done"
               /\ srv' = [u.e EXCEPT !.req = u.b]
               /\ got' = Append(got, [method |-> u.e.method, uri |-> u.e.uri,
                                      body |-> GetHttpBodyPtr(u.e, u.b),
                                      keep |-> CheckHttpKeepAlive(u.e)])
               /\ spc' = "process"
            \/ /\ s.ret \in {"invalid", "lost"}
               /\ spc' = "refused"
               /\ UNCHANGED <<srv, got>>
  /\ UNCHANGED <<conv, cli, toCli, cpc, made, ans>>

(* FormatHttpResponseStartLine: what an answer looks like.                 *)
StartLine(e, code) ==
  <<e.version, "sp", code, "sp", "reason">> \o CrLf
  \o (IF CheckHttpKeepAlive(e) THEN Field("Connection", <<"keep-alive">>, CrLf)
      ELSE IF e.version = "HTTP/1.1" THEN Field("Connection", <<"close">>, CrLf) ELSE <<>>)

(* It overwrites the 200 that OnReceivingSocket put there.                 *)
FormatHttpResponse(e, a) ==
  StrcatfHttpBuffer(StrcpyfHttpBuffer(e.rsp, StartLine(e, a.code)),
                    Field("Content-Type", <<"json">>, CrLf) \o Length(a.body) \o CrLf \o a.body)

(* The request is processed, here or by the pool (an external plugin), and *)
(* the answer put together.  Without a version there is none.              *)
Process ==
  /\ spc = "process"
  /\ IF srv.version = ""
     THEN spc' = "refused" /\ UNCHANGED <<srv, made>>
     ELSE \E a \in {Answers[((Len(got) - 1) % Len(Answers)) + 1]} :
            /\ srv' = [srv EXCEPT !.rsp = FormatHttpResponse(srv, a), !.statuscode = a.code]
            /\ made' = Append(made, a)
            /\ spc' = "send"
  /\ UNCHANGED <<conv, cli, toSrv, toCli, cpc, got, ans>>

(* SendHttpResponseNonblock; a whole answer resets the HttpEnv.            *)
SendHttpResponseNonblock ==
  /\ spc = "send" /\ cpc # "closed"
  /\ \E k \in Sendable(srv.rsp) :
       LET e == [srv EXCEPT !.rsp = SendHttpBuffer(@, k)]
           whole == k = Unprocessed(srv.rsp)
       IN  /\ toCli' = toCli \o Sent(srv.rsp, k)
           /\ srv' = IF whole THEN ResetHttpEnv(e) ELSE e
           /\ spc' = IF whole THEN "receive" ELSE "send"
  /\ UNCHANGED <<conv, cli, toSrv, cpc, got, made, ans>>

(* OnClosingSocket: the client has gone, or its request was refused.       *)
Close ==
  /\ \/ cpc \in {"closed", "refused"} /\ (spc = "send" \/ (spc = "receive" /\ toSrv = <<>>))
     \/ spc = "refused"
  /\ spc' = "closed"
  /\ UNCHANGED <<conv, cli, srv, toSrv, toCli, cpc, got, made, ans>>

-----------------------------------------------------------------------------
Init ==
  /\ conv \in Conversations
  /\ cli = CreateHttpEnv("client") /\ srv = CreateHttpEnv("server")
  /\ toSrv = <<>> /\ toCli = <<>>
  /\ cpc = "idle" /\ spc = "receive"
  /\ got = <<>> /\ made = <<>> /\ ans = <<>>

Client == Request \/ SendHttpRequest \/ ReceiveHttpResponse \/ Disconnect
Server == ReceiveHttpRequestNonblock \/ Process \/ SendHttpResponseNonblock \/ Close
Next == Client \/ TimeOut \/ Server

Spec == Init /\ [][Next]_vars

(* Both ends go on; nobody has to run into a time-out.                     *)
FairSpec == Spec /\ WF_vars(Client) /\ WF_vars(Server)

-----------------------------------------------------------------------------
(* Properties *)

(* The variables stay in their ranges, and the place at which a buffer is   *)
(* sent or parsed on is in it.                                             *)
TypeOK ==
  /\ conv \in Conversations
  /\ cpc \in {"idle", "send", "receive", "refused", "closed"}
  /\ spc \in {"receive", "process", "send", "refused", "closed"}
  /\ \A b \in {cli.req, cli.rsp, srv.req, srv.rsp} : b.process \in Nat /\ b.size \in Nat \ {0}
  /\ cpc = "send" => cli.req.process <= Len(cli.req.data)
  /\ cpc = "receive" => cli.rsp.process <= Len(cli.rsp.data)
  /\ spc = "send" => srv.rsp.process <= Len(srv.rsp.data)
  /\ spc = "receive" => srv.req.process <= Len(srv.req.data)

(* A buffer always has room for what is in it and the 0 behind it, however *)
(* it was filled, grown, shrunk or inflated.                               *)
InBuffer ==
  \A b \in {cli.req, cli.rsp, srv.req, srv.rsp} : Len(b.data) < b.size

(* However a request is cut on its way, the application sees what the       *)
(* client meant: method, uri, body and whether to keep the connection,     *)
(* nothing of an earlier request, each request once and in order.          *)
Understood ==
  /\ Len(got) <= Len(conv)
  /\ \A i \in 1 .. Len(got) : got[i] = Meaning(conv[i])

(* The client takes each answer for the one to its request, whole.         *)
AnswersMatch == IsPrefix(ans, made) /\ Len(made) <= Len(got)

(* Only an invalid request is refused (FASTERHTTP_ERROR_HTTP_HEADER_INVALID,*)
(* fasterhttp.h: the header is invalid), or the line that ends a chunked    *)
(* one, which nobody skips; no answer ever is.                             *)
Remains == got # <<>> /\ conv[Len(got)].form = "chunked"
RefusesInvalid ==
  /\ spc = "refused" => Remains \/ (Len(got) < Len(conv) /\ ~Valid(conv[Len(got) + 1]))
  /\ cpc # "refused"

(* A request is answered, or the connection ends: neither end waits for     *)
(* bytes that are already there.                                           *)
EachAnswered == cpc \in {"send", "receive"} ~> cpc \in {"idle", "closed"}

=============================================================================
