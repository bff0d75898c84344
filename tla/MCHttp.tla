-------------------------------- MODULE MCHttp --------------------------------
(* Small instances of Http.                                                *)
EXTENDS Http, TLC

Get(version, keep) ==
  [method |-> "GET", uri |-> "u1", version |-> version, keep |-> keep, form |-> "none",
   body |-> <<>>]
Post(form, body) ==
  [method |-> "POST", uri |-> "u2", version |-> "HTTP/1.1", keep |-> "", form |-> form,
   body |-> body]
Wrong == [Get("HTTP/1.0", "") EXCEPT !.method = "PING"]

MCAnswers == <<[code |-> "200", body |-> <<"r1", "r2">>], [code |-> "500", body |-> <<>>],
               [code |-> "200", body |-> <<"r3">>]>>

MCConversations ==
  { <<[Post("length", Zipped) EXCEPT !.keep = "keep-alive"], Get("HTTP/1.0", "keep-alive")>>,
    <<Get("HTTP/1.1", "close"), Post("gzip", Zipped), Get("HTTP/1.0", "")>>,
    <<Get("HTTP/1.1", ""), Post("chunked", <<"b1", "b2">>)>>,
    <<Get("HTTP/1.0", ""), Wrong>> }

===============================================================================
