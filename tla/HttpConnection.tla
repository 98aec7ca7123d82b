--------------------------- MODULE HttpConnection ---------------------------
(***************************************************************************)
(* One connection from start() to its end (http_connection.h): what the    *)
(* peer sends arrives in reads cut anywhere, each read is parsed and       *)
(* answered in its callback, and the deadline closes a connection whose    *)
(* peer is silent.  The callbacks of a connection run one at a time, on    *)
(* the thread of its io_context.                                           *)
(*                                                                         *)
(* The peer sends whole requests, then perhaps text that is no request.    *)
(* Every timer of this module has an id of its own: HttpServer has the     *)
(* timers of several connections.                                          *)
(***************************************************************************)
EXTENDS HttpParser

CONSTANTS Streams,    \* what the peer may send: [requests, rest]
          Cuts        \* how many tokens one read may bring

VARIABLES conn,       \* the Connection, see NewConnection
          started,    \* its start() was called
          reading,    \* an async_read_some is pending
          sent,       \* the stream the peer chose
          wire,       \* the tokens not read yet
          peer,       \* "open", or "closed" once the peer has shut its end
          torn        \* history: a read ended inside a URL, or two URLs began in one read

vars == <<conn, started, reading, sent, wire, peer, torn>>

-----------------------------------------------------------------------------
(* Requests as the peer writes them. *)

Line(name, value) == name \o <<":", " ">> \o value \o <<"CR", "LF">>

FieldText ==
  [host       |-> Line(<<"host">>, <<"v">>),
   close      |-> Line(<<"conn", "ection">>, <<"close">>),
   keep       |-> Line(<<"conn", "ection">>, <<"keep-alive">>),
   expect     |-> Line(<<"expect">>, <<"100-continue">>),
   h2c        |-> Line(<<"upgrade">>, <<"h", "2c">>),
   ws         |-> Line(<<"upgrade">>, <<"ws">>),
   folded     |-> <<"x", ":", "v", "CR", "LF", " ", "v", "CR", "LF">>,
   empty      |-> Line(<<"x">>, <<>>)]

BodyText ==
  [none    |-> <<"CR", "LF">>,
   two     |-> Line(<<"content-", "length">>, <<"2">>) \o <<"CR", "LF", "d", "e">>,
   chunked |-> Line(<<"transfer-", "encoding">>, <<"chunked">>)
                 \o <<"CR", "LF", "2", "CR", "LF", "d", "e", "CR", "LF",
                      "0", "CR", "LF", "CR", "LF">>]

BodySent == [none |-> <<>>, two |-> <<"d", "e">>, chunked |-> <<"d", "e">>]

Text(r) ==
  <<r.method, " ">> \o r.url \o (IF r.query = <<>> THEN <<>> ELSE <<"?">> \o r.query)
    \o <<" ", r.version, "CR", "LF">>
    \o FlattenSeq([i \in DOMAIN r.fields |-> FieldText[r.fields[i]]]) \o BodyText[r.body]

StreamText(stream) == FlattenSeq([i \in DOMAIN stream.requests |-> Text(stream.requests[i])]) \o stream.rest

\* Where the URL of each request begins and ends in the stream.
UrlSpans(stream) ==
  {LET before == Len(FlattenSeq([j \in 1..(i - 1) |-> Text(stream.requests[j])])) + 2
       r      == stream.requests[i]
       length == Len(r.url) + (IF r.query = <<>> THEN 0 ELSE 1 + Len(r.query))
   IN <<before + 1, before + length>> : i \in DOMAIN stream.requests}

\* A read of n tokens from position on ends inside a URL, or two URLs begin in it.
Tears(position, n) ==
  LET begun == {span \in UrlSpans(sent) : span[1] \in (position + 1)..(position + n)}
  IN \/ \E span \in UrlSpans(sent) : position + n \in span[1]..(span[2] - 1)
     \/ Cardinality(begun) > 1

-----------------------------------------------------------------------------
(* The callbacks. *)

Init ==
  /\ conn = NewConnection
  /\ started = FALSE
  /\ reading = FALSE
  /\ sent \in Streams
  /\ wire = StreamText(sent)
  /\ peer = "open"
  /\ torn = FALSE

Start ==
  /\ ~started
  /\ started' = TRUE
  /\ conn' = ParserClear([conn EXCEPT !.deadline = TRUE])
  /\ reading' = TRUE
  /\ UNCHANGED <<sent, wire, peer, torn>>

\* The end of do_read's callback after an error.
ReadFailed(s) == [ParserDone(s) EXCEPT !.deadline = FALSE, !.is_open = FALSE]

\* Mutant: the deadline is not started again after a read that leaves the connection open.
AfterRead_noDeadline(s) ==
  CASE s.thrown -> [s EXCEPT !.is_open = @ /\ s.deadline]
    [] ~s.thrown /\ ~(Accepted(s) /\ s.is_open) -> ReadFailed(s)
    [] ~s.thrown /\ Accepted(s) /\ s.is_open /\ s.close_connection -> ReadFailed(s)
    [] OTHER -> s

\* do_read's callback on some bytes.  A connection nobody waits for is destroyed, which closes
\* its socket; an exception leaves the callback and is caught in the worker's loop.
AfterRead(s) ==
  CASE s.thrown -> [s EXCEPT !.is_open = @ /\ s.deadline]
    [] ~s.thrown /\ ~(Accepted(s) /\ s.is_open) -> ReadFailed(s)
    [] ~s.thrown /\ Accepted(s) /\ s.is_open /\ s.close_connection -> ReadFailed(s)
    [] OTHER -> IF s.need_to_call_after_handlers THEN s ELSE [s EXCEPT !.deadline = TRUE]

ReadsAgain(s) ==
  /\ ~s.thrown /\ Accepted(s) /\ s.is_open
  /\ ~s.close_connection /\ ~s.need_to_call_after_handlers

\* Bytes may have arrived before the deadline closed the socket.
Read(n) ==
  /\ reading
  /\ n \in 1..Len(wire)
  /\ \E s \in {feed([conn EXCEPT !.thrown = FALSE], SubSeq(wire, 1, n))} :
       /\ conn' = AfterRead(s)
       /\ reading' = ReadsAgain(s)
  /\ wire' = SubSeq(wire, n + 1, Len(wire))
  /\ torn' = (torn \/ Tears(Len(StreamText(sent)) - Len(wire), n))
  /\ UNCHANGED <<started, sent, peer>>

\* async_read_some ends with an error: the peer has closed, or the deadline has.
ReadError ==
  /\ reading
  /\ (peer = "closed" /\ wire = <<>>) \/ ~conn.is_open
  /\ conn' = ReadFailed(conn)
  /\ reading' = FALSE
  /\ UNCHANGED <<started, sent, wire, peer, torn>>

\* Mutant: a deadline that comes up does nothing.
Deadline_ignored ==
  /\ conn.deadline
  /\ conn' = [conn EXCEPT !.deadline = FALSE]
  /\ UNCHANGED <<started, reading, sent, wire, peer, torn>>

\* The task of start_deadline.
Deadline ==
  /\ conn.deadline
  /\ conn' = [conn EXCEPT !.deadline = FALSE, !.is_open = FALSE]
  /\ UNCHANGED <<started, reading, sent, wire, peer, torn>>

\* The peer closes.  What it does not send is lost, and writes may fail from then on.
PeerCloses ==
  /\ peer = "open"
  /\ peer' = "closed"
  /\ \E n \in {0, Len(wire)}, fails \in {"no", "writes", "all"} :
       /\ wire' = SubSeq(wire, 1, n)
       /\ conn' = [conn EXCEPT !.fails = fails]
  /\ UNCHANGED <<started, reading, sent, torn>>

\* Nothing is left to happen.
Ended_ ==
  /\ started /\ ~reading /\ ~conn.is_open /\ peer = "closed"
  /\ UNCHANGED vars

Next == Start \/ (\E n \in Cuts \cup {Len(wire)} : Read(n)) \/ ReadError \/ Deadline \/ PeerCloses
          \/ Ended_

\* A pending read that has failed is reported, and the timer of the io_context ticks on.  Nothing
\* is assumed of the peer.
Fairness == WF_vars(Start) /\ WF_vars(ReadError) /\ WF_vars(Deadline)

Spec == Init /\ [][Next]_vars /\ Fairness

-----------------------------------------------------------------------------
(* What a request should get, from the rules alone. *)

RulesFor(url) == {i \in DOMAIN Rules : Rules[i].url = url}
Serves(i, m)  == m \in Rules[i].methods \/ (m = "HEAD" /\ "GET" \in Rules[i].methods)
Serving(r)    == {i \in RulesFor(r.url) : Serves(i, r.method)}
Slashed(r)    == {i \in RulesFor(Append(r.url, "/")) : Serves(i, r.method)}

PageOf(r) == LET i == CHOOSE i \in Serving(r) : \A j \in Serving(r) : i <= j IN Rules[i].kind

CodeOf == [page |-> 200, large |-> 200, file |-> 200, throws |-> 500] @@ ("no file" :> 404)
BodyOf == [page |-> "page", large |-> "large", file |-> "file", throws |-> "status text"]
            @@ ("no file" :> "status text")

Has(r, field) == \E i \in DOMAIN r.fields : r.fields[i] = field

Hostless(r) == r.version = "HTTP/1.1" /\ ~Has(r, "host")
Ruleless(r) == Serving(r) \cup Slashed(r) = {}

CodeFor(r) ==
  CASE r.method = "OPTIONS" -> IF RulesFor(r.url) \cup RulesFor(Append(r.url, "/")) # {} THEN 204 ELSE 404
    [] r.method # "OPTIONS" /\ r.method = "HEAD" /\ Ruleless(r) -> 404
    [] r.method # "OPTIONS" /\ ~(r.method = "HEAD" /\ Ruleless(r)) /\ Hostless(r) -> 400
    [] OTHER -> IF Serving(r) # {} THEN CodeOf[PageOf(r)]
                ELSE IF Slashed(r) # {} THEN 301
                ELSE IF RulesFor(r.url) \cup RulesFor(Append(r.url, "/")) # {} THEN 405 ELSE 404

BodyFor(r) ==
  CASE CodeFor(r) >= 400        -> "status text"
    [] CodeFor(r) \in {204, 301} -> ""
    [] OTHER                    -> BodyOf[PageOf(r)]

Fits(answer, r) ==
  /\ answer.code = CodeFor(r)
  /\ r.method # "HEAD" => answer.body = BodyFor(r) /\ answer.length = BodyFor(r)
  /\ r.method = "HEAD" /\ ~Ruleless(r) /\ CodeFor(r) = 200 /\ PageOf(r) # "file" =>
       answer.body = "" /\ answer.length = BodyFor(r)

Answers == SelectSeq(conn.out, LAMBDA a : a.code # 100)

-----------------------------------------------------------------------------
(* Properties. *)

\* An open connection has a read pending and a deadline armed, and while its peer is there its
\* parser has met no error: it is never forgotten, and never kept once it was refused
\* (start, the last branches of do_read, and the destructor's closing the socket).
Watched ==
  started /\ conn.is_open =>
    /\ reading /\ conn.deadline
    /\ peer = "open" => conn.errno = "OK"

\* The header lines of a request that has a value in every field.
HeadersSent(r) ==
  UNION {CASE f = "host"   -> {<<<<"host">>, <<"v">>>>}
           [] f = "close"  -> {<<<<"conn", "ection">>, <<"close">>>>}
           [] f = "keep"   -> {<<<<"conn", "ection">>, <<"keep-alive">>>>}
           [] f = "expect" -> {<<<<"expect">>, <<"100-continue">>>>}
           [] f = "h2c"    -> {<<<<"upgrade">>, <<"h", "2c">>>>}
           [] f = "ws"     -> {<<<<"upgrade">>, <<"ws">>>>}
           [] f = "folded" -> {<<<<"x">>, <<"v", " ", "v">>>>}
           [] f = "empty"  -> {} : f \in {r.fields[i] : i \in DOMAIN r.fields}}
  \cup (CASE r.body = "none"    -> {}
          [] r.body = "two"     -> {<<<<"content-", "length">>, <<"2">>>>}
          [] r.body = "chunked" -> {<<<<"transfer-", "encoding">>, <<"chunked">>>>})

\* The requests that reach handle() are the requests that were sent, in order, with the headers
\* and the body they were sent with, however the reads cut them (the marks of
\* http_parser_execute and the callbacks of parser.h put the pieces together).  Only the query may
\* be taken for a part of the URL, when a read cut it.
HandlersSeeWhatWasSent ==
  /\ Len(conn.seen) <= Len(sent.requests)
  /\ \A i \in DOMAIN conn.seen :
       LET got == conn.seen[i]
           r   == sent.requests[i]
       IN /\ got.method = r.method
          /\ got.url = r.url \/ (torn /\ got.url = r.url \o <<"?">> \o r.query)
          /\ got.body = BodySent[r.body]
          /\ {h \in Range(got.headers) : h[2] # <<>>} = HeadersSent(r)

\* Where the code is known to answer otherwise, and how: a URL that a read has cut is another one;
\* an Expect clears the code of an unknown URL, which is answered with an empty 200; a HEAD request
\* without a host takes the body of the answer behind it, which states its length all the same.
Clouded(i) ==
  LET r == sent.requests[i]
      a == Answers[i]
  IN \/ torn
     \/ Has(r, "expect") /\ Ruleless(r) /\ a.code = 200 /\ a.body = ""
     \/ /\ \E j \in 1..(i - 1) : sent.requests[j].method = "HEAD" /\ Hostless(sent.requests[j])
        /\ a.code = CodeFor(r) /\ a.body = "" /\ a.length = BodyFor(r)

\* The i-th answer written is the answer to the i-th request: its code and body are what the rules
\* say and its Content-Length is that of its body, whatever the requests before it left in the one
\* response object of the connection (clear, skip_body, manual_length_header), but for the leaks
\* that Clouded names: those are not caught here, only kept to what they are.
AnswersFit ==
  /\ Len(Answers) <= Len(sent.requests)
  /\ \A i \in DOMAIN Answers : Clouded(i) \/ Fits(Answers[i], sent.requests[i])

\* Text that is no request is answered by closing the connection, and what follows it is not read
\* as another request (the errno of the parser is never reset).
MalformedIsRefused ==
  peer = "open" /\ wire = <<>> /\ sent.rest # <<>> => ~conn.is_open

\* A connection ends although its peer neither sends nor closes.
Released == started ~> (~reading /\ ~conn.is_open)
=============================================================================
