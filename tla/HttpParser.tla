----------------------------- MODULE HttpParser -----------------------------
(***************************************************************************)
(* http_parser_execute (http_parser_merged.h): one read's bytes through    *)
(* the parser of a connection, with the callbacks it makes on the way.     *)
(*                                                                         *)
(* A token stands for the bytes the parser cannot be interrupted in with   *)
(* any effect: a method, "HTTP/1.1", a value that is matched letter by     *)
(* letter.  Names that the parser recognises come in two halves, the value *)
(* h2c in "h" and "2c", because a read may end between them.  mark and     *)
(* marked are the mark pointer that is set and what lies behind it;        *)
(* url_start counts the bytes since url_start_mark.  nread counts tokens.  *)
(***************************************************************************)
EXTENDS HttpMessage

CONSTANTS MaxHeader,    \* max_header_size
          MaxLength     \* CROW_ULLONG_MAX, what a content length must stay below

ASSUME ParserAssumption == MaxHeader \in Nat \ {0} /\ MaxLength \in Nat \ {0}

Alpha        == {"a", "b"}
UrlChar      == Alpha \cup Digit \cup Sign \cup {"/", "*", ".", ":", "@"}
UserinfoChar == Alpha \cup Digit \cup Sign \cup {"*", ".", ":"}
Hex          == {"0", "1", "2"}
HexValue     == [c \in Hex |-> CASE c = "0" -> 0 [] c = "1" -> 1 [] c = "2" -> 2]
NameToken    == {"host", "x", "expect", "conn", "ection", "content-", "length", "transfer-",
                 "encoding", "upgrade"}
Blank        == {" ", "TAB"}

UrlState   == {"s_req_path", "s_req_schema", "s_req_schema_slash", "s_req_schema_slash_slash",
               "s_req_server_start", "s_req_server", "s_req_server_with_at",
               "s_req_query_string_start", "s_req_query_string"}
BodyState  == {"s_chunk_data", "s_chunk_data_almost_done", "s_chunk_data_done", "s_body_identity",
               "s_body_identity_eof", "s_message_done"}

Goto(s, state)  == [s EXCEPT !.state = state]
Fails(s, errno) == [s EXCEPT !.errno = errno, !.exited = TRUE]

-----------------------------------------------------------------------------
(* Marks and callbacks. *)

Mark(s, name)  == IF s.mark = "none" THEN [s EXCEPT !.mark = name, !.marked = <<>>] ELSE s
Passes(s, ch)  == [s EXCEPT !.marked = Append(@, ch)]

\* What CROW_CALLBACK_NOTIFY and CROW_CALLBACK_DATA do with the outcome of a callback.
Called(s) == IF s.errno # "OK" THEN [s EXCEPT !.exited = TRUE] ELSE s

Unmark(s) == [s EXCEPT !.mark = "none", !.marked = <<>>]

UrlEnds(s)   == IF s.mark # "url" THEN s ELSE Called(on_url(Unmark(s), s.marked))
NameEnds(s)  == IF s.mark # "header_field" THEN s ELSE Called(on_header_field(Unmark(s), s.marked))
ValueEnds(s) == IF s.mark # "header_value" THEN s ELSE Called(on_header_value(Unmark(s), s.marked))
BodyEnds(s)  == IF s.mark # "body" THEN s ELSE Called(on_body(Unmark(s), s.marked))

MessageComplete(s) == Called(on_message_complete(s))

-----------------------------------------------------------------------------
(* The request line. *)

start_req(s, ch) ==
  LET t == [s EXCEPT !.flags = {}, !.uses_transfer_encoding = FALSE, !.content_length = Unknown]
  IN CASE ch \in {"CR", "LF"} -> s
       [] ch \in Method       -> [t EXCEPT !.method = ch, !.req.method = ch, !.state = "s_req_method"]
       [] OTHER               -> Fails(t, "INVALID_METHOD")

req_method(s, ch) ==
  IF ch = " " THEN Goto(s, "s_req_spaces_before_url") ELSE Fails(s, "INVALID_METHOD")

\* parse_url_char, without the query point.
NextUrlState(state, ch) ==
  CASE state = "s_req_spaces_before_url" /\ ch \in {"/", "*"}   -> "s_req_path"
    [] state = "s_req_spaces_before_url" /\ ch \in Alpha        -> "s_req_schema"
    [] state = "s_req_schema" /\ ch \in Alpha                   -> "s_req_schema"
    [] state = "s_req_schema" /\ ch = ":"                       -> "s_req_schema_slash"
    [] state = "s_req_schema_slash" /\ ch = "/"                 -> "s_req_schema_slash_slash"
    [] state = "s_req_schema_slash_slash" /\ ch = "/"           -> "s_req_server_start"
    [] state \in {"s_req_server_start", "s_req_server", "s_req_server_with_at"} ->
         CASE ch = "/" -> "s_req_path"
           [] ch = "?" -> "s_req_query_string_start"
           [] ch = "@" /\ state # "s_req_server_with_at" -> "s_req_server_with_at"
           [] ch \in UserinfoChar -> "s_req_server"
           [] OTHER    -> "s_dead"
    [] state = "s_req_path" /\ ch \in UrlChar                   -> "s_req_path"
    [] state = "s_req_path" /\ ch = "?"                         -> "s_req_query_string_start"
    [] state \in {"s_req_query_string_start", "s_req_query_string"} /\ ch \in UrlChar \cup {"?"} ->
         "s_req_query_string"
    [] OTHER                                                    -> "s_dead"

\* qs_point is the distance from url_start_mark, a null pointer in every read but the one the URL
\* began in, and the first URL of the read when several requests begin in it.
parse_url_char(s, ch) ==
  LET state == NextUrlState(s.state, ch)
      t     == Passes(Goto(s, state), ch)
  IN IF state = "s_dead" THEN Fails(t, "INVALID_URL")
     ELSE IF state = "s_req_query_string_start" THEN [t EXCEPT !.qs_point = s.url_start] ELSE t

spaces_before_url(s, ch) ==
  IF ch = " " THEN s
  ELSE parse_url_char([Mark(s, "url") EXCEPT !.url_start = IF @ = Unknown THEN 0 ELSE @], ch)

before_server(s, ch) ==
  IF ch \in {" ", "CR", "LF"} THEN Fails(s, "INVALID_URL") ELSE parse_url_char(s, ch)

\* A URL without a version is an HTTP/0.9 request.
server_path_query(s, ch) ==
  CASE ch \in {"CR", "LF"} /\ s.method # "GET" -> Fails(Goto(s, "s_dead"), "INVALID_VERSION")
    [] ch = " " \/ (ch \in {"CR", "LF"} /\ s.method = "GET") ->
         UrlEnds([s EXCEPT !.version = IF ch = " " THEN @ ELSE "0.9",
                           !.state = CASE ch = " "  -> "s_req_http_start"
                                       [] ch = "CR" -> "s_req_line_almost_done"
                                       [] ch = "LF" -> "s_header_field_start"])
    [] OTHER -> parse_url_char(s, ch)

\* s_req_http_start to s_req_http_minor.
http_version(s, ch) ==
  CASE ch = " "        -> s
    [] ch = "HTTP/1.1" -> [s EXCEPT !.version = "1.1", !.state = "s_req_http_end"]
    [] ch = "HTTP/1.0" -> [s EXCEPT !.version = "1.0", !.state = "s_req_http_end"]
    [] OTHER           -> Fails(s, "INVALID_CONSTANT")

http_end(s, ch) ==
  CASE ch = "CR" -> Goto(s, "s_req_line_almost_done")
    [] ch = "LF" -> Goto(s, "s_header_field_start")
    [] OTHER     -> Fails(s, "INVALID_VERSION")

line_almost_done(s, ch) ==
  IF ch = "LF" THEN Goto(s, "s_header_field_start") ELSE Fails(s, "LF_EXPECTED")

-----------------------------------------------------------------------------
(* The end of the headers. *)

\* s_headers_done: is there a body, and how long is it.
headers_done(s, last) ==
  LET t == [s EXCEPT !.nread = 0]
  IN CASE s.upgrade -> [MessageComplete(t) EXCEPT !.exited = TRUE, !.unread = ~last]
       [] ~s.upgrade /\ "F_CHUNKED" \in s.flags -> Goto(t, "s_chunk_size_start")
       [] ~s.upgrade /\ "F_CHUNKED" \notin s.flags /\ s.uses_transfer_encoding ->
            Fails(t, "INVALID_TRANSFER_ENCODING")
       [] OTHER -> IF s.content_length \in {0, Unknown} THEN MessageComplete(t)
                   ELSE Goto(t, "s_body_identity")

\* After the last header, or, with F_TRAILING, after those behind the body.
HeadersEnd(s, last) ==
  CASE s.exited -> s
    [] ~s.exited /\ s.state = "s_headers_done" -> headers_done(s, last)
    [] OTHER -> MessageComplete(s)

headers_almost_done(s, ch, last) ==
  LET done == Called(on_headers_complete([s EXCEPT !.state = "s_headers_done",
                                                   !.upgrade = "F_UPGRADE" \in s.flags]))
      trailing == "F_TRAILING" \in s.flags
  IN CASE ch # "LF" -> Fails(s, "STRICT")
       [] ch = "LF" /\ ~trailing /\ s.uses_transfer_encoding /\ "F_CONTENTLENGTH" \in s.flags ->
            Fails(s, "UNEXPECTED_CONTENT_LENGTH")
       [] OTHER -> HeadersEnd(IF trailing THEN s ELSE done, last)

-----------------------------------------------------------------------------
(* Header fields. *)

NameBegun ==
  [ch \in NameToken |->
    CASE ch = "conn"      -> "h_matching_connection"
      [] ch = "content-"  -> "h_matching_content_length"
      [] ch = "transfer-" -> "h_matching_transfer_encoding"
      [] ch = "upgrade"   -> "h_upgrade"
      [] OTHER            -> "h_general"]

header_field_start(s, ch, last) ==
  CASE ch = "CR"         -> Goto(s, "s_headers_almost_done")
    [] ch = "LF"         -> headers_almost_done(Goto(s, "s_headers_almost_done"), ch, last)
    [] ch \in NameToken  -> Passes([Mark(s, "header_field") EXCEPT !.state = "s_header_field",
                                                                   !.header_state = NameBegun[ch]], ch)
    [] OTHER             -> Fails(s, "INVALID_HEADER_TOKEN")

NameEnded(header_state, ch) ==
  CASE header_state = "h_matching_connection" /\ ch = "ection"          -> "h_connection"
    [] header_state = "h_matching_content_length" /\ ch = "length"      -> "h_content_length"
    [] header_state = "h_matching_transfer_encoding" /\ ch = "encoding" -> "h_transfer_encoding"
    [] OTHER                                                            -> "h_general"

header_field(s, ch) ==
  CASE ch = ":" -> NameEnds(Goto(s, "s_header_value_discard_ws"))
    [] ch \in NameToken ->
         LET now == NameEnded(s.header_state, ch)
         IN Passes([s EXCEPT !.header_state = now,
                             !.uses_transfer_encoding = @ \/ now = "h_transfer_encoding"], ch)
    [] OTHER -> Fails(s, "INVALID_HEADER_TOKEN")

-----------------------------------------------------------------------------
(* Header values. *)

\* The first part of a value; next is what follows it in this read, "" at the end of the read.
header_value_start(s, ch, next) ==
  LET t == Passes(Goto(Mark(s, "header_value"), "s_header_value"), ch)
      To(header_state) == [t EXCEPT !.header_state = header_state]
  IN CASE s.header_state = "h_upgrade" ->
            IF ch = "h" /\ next = "2c" THEN To("h_general")
            ELSE [To("h_general") EXCEPT !.flags = @ \cup {"F_UPGRADE"}]
       [] s.header_state = "h_transfer_encoding" ->
            To(IF ch = "chunked" THEN "h_transfer_encoding_chunked"
               ELSE "h_matching_transfer_encoding_token")
       [] s.header_state = "h_content_length" ->
            IF ch \notin Hex THEN Fails(t, "INVALID_CONTENT_LENGTH")
            ELSE IF "F_CONTENTLENGTH" \in s.flags THEN Fails(t, "UNEXPECTED_CONTENT_LENGTH")
            ELSE [To("h_content_length_num") EXCEPT !.flags = @ \cup {"F_CONTENTLENGTH"},
                                                    !.content_length = HexValue[ch]]
       [] s.header_state = "h_connection" ->
            To(CASE ch = "keep-alive" -> "h_connection_keep_alive"
                 [] ch = "close"      -> "h_connection_close"
                 [] OTHER             -> "h_general")
       [] s.header_state \in {"h_matching_transfer_encoding_token_start", "h_content_length_ws"} -> t
       [] OTHER -> To("h_general")

header_value_discard_ws(s, ch, next) ==
  CASE ch \in Blank -> s
    [] ch = "CR"    -> Goto(s, "s_header_value_discard_ws_almost_done")
    [] ch = "LF"    -> Goto(s, "s_header_value_discard_lws")
    [] OTHER        -> header_value_start(s, ch, next)

ValueContinued(header_state, ch) ==
  CASE header_state = "h_matching_transfer_encoding_token" ->
         IF ch = "," THEN "h_matching_transfer_encoding_token_start" ELSE header_state
    [] header_state = "h_matching_transfer_encoding_token_start" ->
         CASE ch = "chunked" -> "h_transfer_encoding_chunked"
           [] ch \in Blank   -> header_state
           [] ch = ","       -> "h_general"
           [] OTHER          -> "h_matching_transfer_encoding_token"
    [] header_state = "h_transfer_encoding_chunked" ->
         IF ch = " " THEN header_state ELSE "h_matching_transfer_encoding_token"
    [] header_state \in {"h_connection_keep_alive", "h_connection_close"} ->
         IF ch = " " THEN header_state ELSE "h_general"
    [] OTHER -> "h_general"

\* The digits of a length, guarded against overflow.
content_length_value(s, ch) ==
  CASE ch = " " -> Passes([s EXCEPT !.header_state = "h_content_length_ws"], ch)
    [] ch \in Hex /\ s.header_state = "h_content_length_num" ->
         IF (MaxLength - 10) \div 10 < s.content_length THEN Fails(s, "INVALID_CONTENT_LENGTH")
         ELSE Passes([s EXCEPT !.content_length = 10 * @ + HexValue[ch]], ch)
    [] OTHER -> Fails(s, "INVALID_CONTENT_LENGTH")

header_almost_done(s, ch) ==
  IF ch = "LF" THEN Goto(s, "s_header_value_lws") ELSE Fails(s, "LF_EXPECTED")

header_value(s, ch) ==
  CASE ch = "CR" -> ValueEnds(Goto(s, "s_header_almost_done"))
    [] ch = "LF" -> LET t == ValueEnds(Goto(s, "s_header_almost_done"))
                    IN IF t.exited THEN t ELSE header_almost_done(t, ch)
    [] ch \notin {"CR", "LF"} /\ s.header_state \in {"h_content_length_num", "h_content_length_ws"} ->
         content_length_value(s, ch)
    [] OTHER -> Passes([s EXCEPT !.header_state = ValueContinued(@, ch)], ch)

\* A folded line goes on with the value, anything else ends the header.
header_value_lws(s, ch, next, last) ==
  LET flag == [h_connection_keep_alive |-> {"F_CONNECTION_KEEP_ALIVE"},
               h_connection_close |-> {"F_CONNECTION_CLOSE"},
               h_transfer_encoding_chunked |-> {"F_CHUNKED"}]
      t == [s EXCEPT !.flags = @ \cup (IF s.header_state \in DOMAIN flag
                                       THEN flag[s.header_state] ELSE {}),
                     !.state = "s_header_field_start"]
  IN IF ch \notin Blank THEN header_field_start(t, ch, last)
     ELSE header_value_start([s EXCEPT !.header_state = IF @ = "h_content_length_num"
                                                        THEN "h_content_length_ws" ELSE @], ch, next)

header_value_discard_ws_almost_done(s, ch) ==
  IF ch = "LF" THEN Goto(s, "s_header_value_discard_lws") ELSE Fails(s, "STRICT")

\* An empty value.
header_value_discard_lws(s, ch, last) ==
  IF ch \in Blank THEN Goto(s, "s_header_value_discard_ws")
  ELSE header_field_start(ValueEnds(Goto(Mark(s, "header_value"), "s_header_field_start")), ch, last)

-----------------------------------------------------------------------------
(* The body. *)

body_identity(s, ch) ==
  LET t == Passes([Mark(s, "body") EXCEPT !.content_length = @ - 1], ch)
  IN IF t.content_length # 0 THEN t
     ELSE MessageComplete(BodyEnds(Goto(t, "s_message_done")))

chunk_size_start(s, ch) ==
  IF ch \notin Hex THEN Fails(s, "INVALID_CHUNK_SIZE")
  ELSE [s EXCEPT !.content_length = HexValue[ch], !.state = "s_chunk_size"]

chunk_size(s, ch) ==
  CASE ch = "CR"         -> Goto(s, "s_chunk_size_almost_done")
    [] ch \in {";", " "} -> Goto(s, "s_chunk_parameters")
    [] ch \in Hex        -> IF (MaxLength - 16) \div 16 < s.content_length
                            THEN Fails(s, "INVALID_CONTENT_LENGTH")
                            ELSE [s EXCEPT !.content_length = 16 * @ + HexValue[ch]]
    [] OTHER             -> Fails(s, "INVALID_CHUNK_SIZE")

chunk_parameters(s, ch) == IF ch = "CR" THEN Goto(s, "s_chunk_size_almost_done") ELSE s

\* The last chunk is empty, and trailing headers may follow it.
chunk_size_almost_done(s, ch) ==
  CASE ch # "LF" -> Fails(s, "STRICT")
    [] ch = "LF" /\ s.content_length = 0 ->
         [s EXCEPT !.nread = 0, !.flags = @ \cup {"F_TRAILING"}, !.state = "s_header_field_start"]
    [] OTHER -> [s EXCEPT !.nread = 0, !.state = "s_chunk_data"]

chunk_data(s, ch) ==
  LET t == Passes([Mark(s, "body") EXCEPT !.content_length = @ - 1], ch)
  IN IF t.content_length = 0 THEN Goto(t, "s_chunk_data_almost_done") ELSE t

chunk_data_almost_done(s, ch) ==
  IF ch # "CR" THEN Fails(s, "STRICT") ELSE BodyEnds(Goto(s, "s_chunk_data_done"))

chunk_data_done(s, ch) ==
  IF ch # "LF" THEN Fails(s, "STRICT") ELSE [s EXCEPT !.nread = 0, !.state = "s_chunk_size_start"]

-----------------------------------------------------------------------------
(* One read. *)

Byte(s, ch, next) ==
  LET last == next = ""
  IN CASE s.state = "s_dead"                   -> IF ch \in {"CR", "LF"} THEN s
                                                  ELSE Fails(s, "CLOSED_CONNECTION")
       [] s.state = "s_start_req"              -> start_req(s, ch)
       [] s.state = "s_req_method"             -> req_method(s, ch)
       [] s.state = "s_req_spaces_before_url"  -> spaces_before_url(s, ch)
       [] s.state \in {"s_req_schema", "s_req_schema_slash", "s_req_schema_slash_slash",
                       "s_req_server_start"}   -> before_server(s, ch)
       [] s.state \in {"s_req_server", "s_req_server_with_at", "s_req_path",
                       "s_req_query_string_start", "s_req_query_string"} -> server_path_query(s, ch)
       [] s.state = "s_req_http_start"         -> http_version(s, ch)
       [] s.state = "s_req_http_end"           -> http_end(s, ch)
       [] s.state = "s_req_line_almost_done"   -> line_almost_done(s, ch)
       [] s.state = "s_header_field_start"     -> header_field_start(s, ch, last)
       [] s.state = "s_header_field"           -> header_field(s, ch)
       [] s.state = "s_header_value_discard_ws" -> header_value_discard_ws(s, ch, next)
       [] s.state = "s_header_value"           -> header_value(s, ch)
       [] s.state = "s_header_almost_done"     -> header_almost_done(s, ch)
       [] s.state = "s_header_value_lws"       -> header_value_lws(s, ch, next, last)
       [] s.state = "s_header_value_discard_ws_almost_done" ->
            header_value_discard_ws_almost_done(s, ch)
       [] s.state = "s_header_value_discard_lws" -> header_value_discard_lws(s, ch, last)
       [] s.state = "s_headers_almost_done"    -> headers_almost_done(s, ch, last)
       [] s.state = "s_headers_done"           -> IF ch # "LF" THEN Fails(s, "STRICT")
                                                  ELSE headers_done(s, last)
       [] s.state = "s_body_identity"          -> body_identity(s, ch)
       [] s.state = "s_message_done"           -> MessageComplete(s)
       [] s.state = "s_chunk_size_start"       -> chunk_size_start(s, ch)
       [] s.state = "s_chunk_size"             -> chunk_size(s, ch)
       [] s.state = "s_chunk_parameters"       -> chunk_parameters(s, ch)
       [] s.state = "s_chunk_size_almost_done" -> chunk_size_almost_done(s, ch)
       [] s.state = "s_chunk_data"             -> chunk_data(s, ch)
       [] s.state = "s_chunk_data_almost_done" -> chunk_data_almost_done(s, ch)
       [] s.state = "s_chunk_data_done"        -> chunk_data_done(s, ch)
       [] OTHER                                -> Fails(s, "INVALID_INTERNAL_STATE")

Moves(s) == IF s.url_start = Unknown THEN s ELSE [s EXCEPT !.url_start = @ + 1]

\* CROW_COUNT_HEADER_SIZE, then the byte.
Counted(s, ch, next) ==
  LET t == IF s.state \in BodyState THEN s ELSE [s EXCEPT !.nread = @ + 1]
  IN Moves(IF t.nread > MaxHeader THEN Fails(t, "HEADER_OVERFLOW") ELSE Byte(t, ch, next))

\* Mutant: what a read brings of a value begun in an earlier read is not marked.
Marks_notValues(s) ==
  [s EXCEPT !.exited = FALSE, !.unread = FALSE, !.url_start = Unknown, !.marked = <<>>,
            !.mark = CASE s.state = "s_header_field" -> "header_field"
                       [] s.state \in UrlState       -> "url"
                       [] OTHER                      -> "none"]

\* The marks a read begins with.
Marks(s) ==
  [s EXCEPT !.exited = FALSE, !.unread = FALSE, !.url_start = Unknown, !.marked = <<>>,
            !.mark = CASE s.state = "s_header_field" -> "header_field"
                       [] s.state = "s_header_value" -> "header_value"
                       [] s.state \in UrlState       -> "url"
                       [] OTHER                      -> "none"]

\* The pieces that a read ends in.
ReadEnds(s) == IF s.exited \/ s.thrown THEN s ELSE BodyEnds(UrlEnds(ValueEnds(NameEnds(s))))

\* One token of a read, and the next one or "" at the end of it.
Step(s, data, i) ==
  IF s.exited \/ s.thrown THEN s
  ELSE Counted(s, data[i], IF i = Len(data) THEN "" ELSE data[i + 1])

http_parser_execute(s, data) ==
  LET after[i \in 0..Len(data)] == IF i = 0 THEN Marks(s) ELSE Step(after[i - 1], data, i)
  IN IF s.errno # "OK" THEN s ELSE ReadEnds(after[Len(data)])

\* Mutant: the outcome of the parser is not looked at.
Accepted_always(s) == s.message_complete \/ ~s.unread

\* HTTPParser::feed, and whether it returns true.
feed(s, data) == IF s.message_complete THEN s ELSE http_parser_execute(s, data)
Accepted(s)   == s.message_complete \/ (s.errno = "OK" /\ ~s.unread)
=============================================================================
