-------------------------- MODULE MCHttpConnection --------------------------
EXTENDS HttpConnection

MCRules ==
  <<[url |-> <<"/">>,                methods |-> {"GET"},         kind |-> "page"],
    [url |-> <<"/", "a">>,           methods |-> {"GET", "POST"}, kind |-> "page"],
    [url |-> <<"/", "a", "b">>,      methods |-> {"GET", "POST"}, kind |-> "large"],
    [url |-> <<"/", "b">>,           methods |-> {"GET"},         kind |-> "throws"],
    [url |-> <<"/", "b", "a">>,      methods |-> {"GET"},         kind |-> "file"],
    [url |-> <<"/", "b", "b">>,      methods |-> {"GET"},         kind |-> "no file"],
    [url |-> <<"/", "a", "a", "/">>, methods |-> {"GET"},         kind |-> "page"]>>

Request(method, url, query, version, fields, body) ==
  [method |-> method, url |-> url, query |-> query, version |-> version, fields |-> fields,
   body |-> body]

Get(url)   == Request("GET", url, <<>>, "HTTP/1.1", <<"host">>, "none")
Head1(url) == Request("HEAD", url, <<>>, "HTTP/1.1", <<"host">>, "none")
Post(body) == Request("POST", <<"/", "a">>, <<>>, "HTTP/1.1", <<"host">>, body)
With(r, fields) == [r EXCEPT !.fields = fields]

A == <<"/", "a">>

\* One or two requests, each kind of page, header and body, and a query.
Good ==
  {<<Get(A), Post("two")>>, <<Post("chunked"), Get(A)>>,
   <<Get(<<"/", "a", "b">>), Get(A)>>, <<Get(<<"/", "b">>), Get(A)>>,
   <<Get(<<"/", "b", "a">>), Get(<<"/", "b", "b">>)>>, <<Get(<<"/", "a", "a">>), Get(<<"/", "*">>)>>,
   <<Head1(A), Get(A)>>, <<Head1(<<"/", "b">>), Get(A)>>, <<Head1(<<"/", "b", "a">>), Get(A)>>,
   <<With(Head1(A), <<>>), Get(A)>>, <<Head1(<<"/", "*">>)>>,
   <<With(Get(A), <<"host", "close">>), Get(A)>>, <<With(Get(A), <<>>), Get(A)>>,
   <<[With(Get(A), <<"keep">>) EXCEPT !.version = "HTTP/1.0"], [Get(A) EXCEPT !.version = "HTTP/1.0"]>>,
   <<[Get(A) EXCEPT !.query = <<"b", "?", "a">>], [Get(A) EXCEPT !.query = <<"b">>]>>,
   <<With(Post("two"), <<"host", "expect">>)>>, <<[Post("two") EXCEPT !.fields = <<"expect", "host">>, !.url = <<"/", "1">>]>>,
   <<With(Get(A), <<"h2c", "host">>), With(Get(A), <<"host", "ws">>), Get(A)>>,
   <<With(Get(A), <<"host", "folded", "empty">>), With(Get(A), <<"folded", "host">>)>>,
   <<Request("OPTIONS", A, <<>>, "HTTP/1.1", <<"host">>, "none"), Get(A)>>,
   <<[Post("none") EXCEPT !.url = <<"/", "1", "b">>], Get(A)>>,
   <<[Post("two") EXCEPT !.url = <<"/", "a", "b">>], Get(A)>>,
   <<[Post("two") EXCEPT !.url = <<"/", "b", "a">>], Get(A)>>,
   <<[Get(A) EXCEPT !.url = <<"/", "a", "/", "1">>]>>}

Begun == <<"GET", " ", "/", "a", " ", "HTTP/1.1", "CR", "LF">>
End   == <<"CR", "LF">>

\* Text that is no request.
Bad ==
  {<<"x">>, <<"GET", "/">>, <<"GET", " ", "1", " ">>, <<"GET", " ", "a", ":", "/", " ">>,
   <<"GET", " ", "a", ":", "/", "/", "a", "@", "@">>,
   <<"POST", " ", "/", "LF">>, <<"GET", " ", "/", "a", " ", "x">>,
   <<"GET", " ", "/", "a", " ", "HTTP/1.1", " ">>, <<"GET", " ", "/", "a", " ", "HTTP/1.1", "CR", "CR">>,
   Begun \o <<"host", " ">>, Begun \o <<":">>,
   Begun \o <<"host", ":", "v", "CR", "CR">>, Begun \o <<"host", ":", "CR", "CR">>,
   Begun \o <<"CR", "CR">>,
   Begun \o Line(<<"content-", "length">>, <<"x">>),
   Begun \o Line(<<"content-", "length">>, <<"1", "1", "1">>),
   Begun \o Line(<<"content-", "length">>, <<"1", " ", "1">>),
   Begun \o <<"content-", "length", ":", "1", "LF", " ", "1">>,
   Begun \o Line(<<"content-", "length">>, <<"1">>) \o Line(<<"content-", "length">>, <<"1">>),
   Begun \o Line(<<"content-", "length">>, <<"1">>) \o Line(<<"transfer-", "encoding">>, <<"chunked">>) \o End,
   Begun \o Line(<<"transfer-", "encoding">>, <<"chunked", ",", "x">>) \o End,
   Begun \o Line(<<"transfer-", "encoding">>, <<"x", ",", " ", "chunked">>) \o End \o <<"x">>,
   Begun \o Line(<<"transfer-", "encoding">>, <<"chunked">>) \o End \o <<"2", ";", "x", "CR", "CR">>,
   Begun \o Line(<<"transfer-", "encoding">>, <<"chunked">>) \o End \o <<"2", "2", "2">>,
   Begun \o Line(<<"transfer-", "encoding">>, <<"chunked">>) \o End \o <<"1", "CR", "LF", "d", "d">>,
   Begun \o Line(<<"transfer-", "encoding">>, <<"chunked">>) \o End \o <<"1", "CR", "LF", "d", "CR", "d">>,
   Begun \o [i \in 1..40 |-> "x"]}

MCStreams ==
  {[requests |-> g, rest |-> <<>>] : g \in Good} \cup {[requests |-> <<Get(A)>>, rest |-> b] : b \in Bad}
=============================================================================
