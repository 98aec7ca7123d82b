---------------------------- MODULE HttpMessage -----------------------------
(***************************************************************************)
(* What one connection (http_connection.h) does with the messages its      *)
(* parser hands over (the callbacks of parser.h), from the URL to the      *)
(* response that is written, all inside the callback of one read.  A       *)
(* connection is a record s: the parser's fields, the request it fills,    *)
(* the response, and the connection's own flags.                           *)
(*                                                                         *)
(* The input is a sequence of tokens, each a part of the text that the     *)
(* parser tells apart: a character of the URL, a method, a header name or  *)
(* half of one, a header value, a byte of a body.  The application is      *)
(* built without middlewares, blueprints, a catch-all rule, compression or *)
(* web socket rules, and its handlers end the response before they return. *)
(***************************************************************************)
EXTENDS Routing

CONSTANT Rules      \* the declared rules, in order: [url, methods, kind]

\* A handler returns a page, a body over the stream threshold, a static file that is there or
\* not, or throws.
Kind == {"page", "large", "file", "no file", "throws"}

ASSUME RulesAssumption ==
  \A i \in DOMAIN Rules : /\ Rules[i].kind \in Kind
                          /\ Rules[i].methods \subseteq Method
                          /\ Head(Rules[i].url) = "/"

Router == Validated(FoldLeft(internal_add_rule_object, EmptyRouter, Rules))

Unknown  == -1     \* content_length without a header; qs_point taken from a null pointer
NoMethod == "none"

NewRequest == [method |-> NoMethod, raw_url |-> <<>>, url |-> <<>>, headers |-> <<>>, body |-> <<>>,
               version |-> "none", keep_alive |-> FALSE, close_connection |-> FALSE,
               upgrade |-> FALSE]

\* http_parser_init and the constructors of HTTPParser and Connection.  out and seen record what
\* was written and what handlers were given; fails says whether writes to the peer fail, or, once one
\* has, whatever asks for the peer.
NewConnection ==
  [state |-> "s_start_req", header_state |-> "h_general", flags |-> {}, content_length |-> Unknown,
   uses_transfer_encoding |-> FALSE, method |-> NoMethod, version |-> "none", qs_point |-> 0,
   errno |-> "OK", upgrade |-> FALSE, nread |-> 0,
   mark |-> "none", marked |-> <<>>, url_start |-> FALSE, exited |-> FALSE, unread |-> FALSE,
   req |-> NewRequest, header_building_state |-> 0, header_field |-> <<>>, header_value |-> <<>>,
   message_complete |-> FALSE,
   res |-> NewResponse, routing_handle_result |-> NotFound,
   close_connection |-> FALSE, add_keep_alive |-> FALSE, need_to_call_after_handlers |-> FALSE,
   continue_requested |-> FALSE, is_open |-> TRUE, deadline |-> FALSE,
   fails |-> "no", thrown |-> FALSE, out |-> <<>>, seen |-> <<>>]

-----------------------------------------------------------------------------
(* HTTPParser. *)

\* HTTPParser::clear.  The errno of the parser below is not reset.
ParserClear(s) ==
  [s EXCEPT !.req = NewRequest, !.header_field = <<>>, !.header_value = <<>>,
            !.header_building_state = 0, !.qs_point = 0, !.message_complete = FALSE,
            !.state = "s_start_req"]

\* HTTPParser::done: http_parser_execute on no bytes, which in mid-message is an error.
ParserDone(s) ==
  IF s.message_complete \/ s.errno # "OK" \/ s.state \in {"s_dead", "s_start_req"}
  THEN s ELSE [s EXCEPT !.errno = "INVALID_EOF_STATE"]

Values(req, name) == {i \in DOMAIN req.headers : req.headers[i][1] = name}
HasHeader(req, name) == Values(req, name) # {}
HeaderValue(req, name) ==
  IF HasHeader(req, name) THEN req.headers[CHOOSE i \in Values(req, name) : TRUE][2] ELSE <<>>

-----------------------------------------------------------------------------
(* Writing. *)

\* What a response looks like to the peer.
Written(s, body) ==
  [code |-> s.res.code, body |-> body, length |-> StatedLength(s.res), keep_alive |-> s.add_keep_alive]

\* asio::write without an error code throws when the peer is gone or the socket closed.
Throws(s) == s.fails # "no" \/ ~s.is_open

Sends(s, answer) == IF Throws(s) THEN s.out ELSE Append(s.out, answer)

\* do_write_sync once the bytes are out: the response, and unless a 100 was sent the parser, are
\* ready for the next message.
do_write_sync(s) ==
  LET t == [s EXCEPT !.res = clear(@), !.fails = IF @ = "no" THEN "no" ELSE "all"]
  IN IF s.continue_requested THEN [t EXCEPT !.continue_requested = FALSE] ELSE ParserClear(t)

Thrown(s) == [s EXCEPT !.thrown = TRUE, !.fails = "all"]

\* The end of do_write_static and of the large case of do_write_general.
Streamed(s) ==
  LET closed == [s EXCEPT !.is_open = @ /\ ~s.close_connection]
  IN ParserClear([closed EXCEPT !.res = clear(Ended(@))])

do_write_static(s) ==
  IF Throws(s) THEN Thrown(s)
  ELSE Streamed(do_write_sync([s EXCEPT !.out = Sends(s, Written(s, s.res.file))]))

do_write_general(s) ==
  IF s.res.body # "large" THEN do_write_sync([s EXCEPT !.out = Sends(s, Written(s, s.res.body))])
  ELSE IF Throws(s) THEN Thrown(s)
  ELSE Streamed(do_write_sync([s EXCEPT !.out = Sends(s, Written(s, s.res.body)), !.deadline = FALSE]))

prepare_buffers(s) ==
  LET t == [s EXCEPT !.res.handler = FALSE]
  IN IF s.is_open THEN [t EXCEPT !.res = HeaderWritten(@)] ELSE t

Writes(s) == IF is_static_type(s.res) THEN do_write_static(s) ELSE do_write_general(s)

complete_request(s) == Writes(prepare_buffers([s EXCEPT !.need_to_call_after_handlers = FALSE]))

\* response::end, which sets two flags back unless the handler has thrown.
SetBack(s) == IF s.thrown THEN s ELSE [s EXCEPT !.res = AfterHandler(@)]

EndResponse(s) ==
  LET ended == [s EXCEPT !.res = Ended(@)]
  IN CASE s.res.completed -> s
       [] ~s.res.completed /\ ~s.res.handler -> ended
       [] OTHER -> SetBack(complete_request(ended))

-----------------------------------------------------------------------------
(* Handling a message. *)

\* default_exception_handler, then end(): the answer to an exception under the router.
AnswerException(s) == EndResponse([s EXCEPT !.thrown = FALSE, !.res = Assign(@, 500, "")])

\* The handler of a rule, as routing.h wraps it, and app.h's handler for static files.
RuleHandle(s, kind) ==
  IF kind = "throws" THEN [s EXCEPT !.thrown = TRUE]
  ELSE EndResponse([s EXCEPT !.res = IF kind \in {"file", "no file"}
                                     THEN set_static_file_info(@, "file", kind = "file")
                                     ELSE Assign(@, 200, kind)])

Caught(s) == IF s.thrown THEN AnswerException(s) ELSE s

Redirection(s) == add_header(Assign(s.res, 301, ""), "location", Append(s.req.url, "/"))

\* Router::handle.
RouterHandle(s) ==
  LET found == s.routing_handle_result
  IN IF found.catch_all \/ found.rule_index = RULE_SPECIAL_REDIRECT_SLASH
     THEN EndResponse([s EXCEPT !.res = IF found.catch_all THEN @ ELSE Redirection(s)])
     ELSE Caught(RuleHandle(s, Router[found.method].rules[found.rule_index - 1].kind))

\* Router::handle_upgrade: no rule takes the connection over, and the answer it ends is not
\* written because no complete_request_handler_ is set.
UpgradeCode(own, methods) ==
  CASE own.rule_index = RULE_SPECIAL_REDIRECT_SLASH -> 301
    [] own.rule_index = 0 /\ methods # {}           -> 405
    [] OTHER                                         -> 404

UpgradeRefused(s, found) ==
  [s EXCEPT !.res = Ended(Assign(@, UpgradeCode(found[s.req.method], Somewhere(found)), ""))]

RouterHandleUpgrade(s) == UpgradeRefused(s, Lookup(Router, s.req.url))

IsHttp2(req) == LET v == HeaderValue(req, <<"upgrade">>) IN v # <<>> /\ IsPrefix(<<"h", "2c">>, v)

\* The header that is set once the handler has answered.
KeepsAlive(s) ==
  IF s.add_keep_alive THEN [s EXCEPT !.res = set_header(@, "connection", "Keep-Alive")] ELSE s

\* Connection::handle: a whole message is there.  Asking a socket without a peer for its address
\* throws.
handle(s) ==
  LET req     == s.req
      begun   == [s EXCEPT !.deadline = FALSE, !.add_keep_alive = req.keep_alive,
                           !.close_connection = req.close_connection,
                           !.seen = IF s.res.completed THEN @ ELSE Append(@, req)]
      direct  == [begun EXCEPT !.need_to_call_after_handlers = FALSE]
      invalid == req.version = "1.1" /\ ~HasHeader(req, <<"host">>)
      upgrade == req.version = "1.1" /\ ~invalid /\ req.upgrade /\ ~IsHttp2(req)
  IN IF s.fails = "all" \/ ~s.is_open
     THEN [s EXCEPT !.deadline = FALSE, !.add_keep_alive = FALSE, !.thrown = TRUE]
     ELSE IF upgrade THEN RouterHandleUpgrade([begun EXCEPT !.close_connection = TRUE])
     ELSE IF invalid \/ s.res.completed
     THEN complete_request([direct EXCEPT !.res = IF invalid THEN Assign(@, 400, "")
                                                  ELSE [@ EXCEPT !.handler = FALSE]])
     ELSE KeepsAlive(RouterHandle([begun EXCEPT !.need_to_call_after_handlers = TRUE,
                                                !.res.handler = TRUE]))

\* Connection::handle_url: without a rule the answer is written at once.
Begins(s, first) ==
  LET t == [s EXCEPT !.routing_handle_result = first.found, !.res = first.res]
  IN IF first.found.rule_index # 0 \/ first.found.catch_all THEN t
     ELSE complete_request([ParserDone(t) EXCEPT !.need_to_call_after_handlers = TRUE])

handle_url(s) == Begins(s, handle_initial(Router, s.req.method, s.req.url, s.res))

\* Connection::handle_header: the interim answer to Expect: 100-continue.
handle_header(s) ==
  IF s.req.version = "1.1" /\ HeaderValue(s.req, <<"expect">>) = <<"100-continue">>
  THEN do_write_sync([s EXCEPT !.continue_requested = TRUE,
                               !.out = Sends(s, [code |-> 100, body |-> "", length |-> "",
                                                 keep_alive |-> FALSE])])
  ELSE s

-----------------------------------------------------------------------------
(* The callbacks of HTTPParser. *)

on_url(s, at) ==
  LET raw == s.req.raw_url \o at
  IN handle_url([s EXCEPT !.req.raw_url = raw,
                          !.req.url = IF s.qs_point \in 1..Len(raw) THEN SubSeq(raw, 1, s.qs_point)
                                                                    ELSE raw])

Emplaced(s) ==
  [s EXCEPT !.req.headers = Append(@, <<s.header_field, s.header_value>>),
            !.header_field = <<>>, !.header_value = <<>>]

on_header_field(s, at) ==
  LET t == IF s.header_value # <<>> THEN Emplaced(s) ELSE s
  IN IF s.header_building_state = 0
     THEN [t EXCEPT !.header_field = at, !.header_building_state = 1]
     ELSE [s EXCEPT !.header_field = @ \o at]

on_header_value(s, at) ==
  [s EXCEPT !.header_value = IF s.header_building_state = 0 THEN @ \o at ELSE at,
            !.header_building_state = 0]

\* set_connection_parameters, then Connection::handle_header.
on_headers_complete(s) ==
  LET t    == IF s.header_field # <<>> THEN Emplaced(s) ELSE s
      kept == "F_CONNECTION_KEEP_ALIVE" \in s.flags
  IN handle_header(
       [t EXCEPT !.req.version = s.version,
                 !.req.keep_alive = \/ s.version = "1.1"
                                    \/ (s.version = "1.0" /\ kept),
                 !.req.close_connection = \/ (s.version = "1.1" /\ "F_CONNECTION_CLOSE" \in s.flags)
                                          \/ (s.version = "1.0" /\ ~kept),
                 !.req.upgrade = s.upgrade])

on_body(s, at) == [s EXCEPT !.req.body = @ \o at]

on_message_complete(s) == handle([s EXCEPT !.message_complete = TRUE])
=============================================================================
