------------------------ MODULE HttpConnectionProofs ------------------------
(***************************************************************************)
(* One connection, for every set of rules, whatever the peer sends and     *)
(* however reads cut it: while it is open it has a read pending and a      *)
(* deadline armed, and its parser has met no error (Watched).              *)
(*                                                                         *)
(* Both hold between two callbacks, and a read's callback breaks them many *)
(* times on its way.  What each operator of the parser and the connection  *)
(* keeps is Between: nobody is left who was to call the after handlers, no *)
(* exception goes up while the deadline is armed, and a message is         *)
(* complete only on a connection that is about to close.  there says that  *)
(* the peer has not closed, so that a write fails on a closed socket only. *)
(***************************************************************************)
EXTENDS HttpConnection, NaturalsInduction, WellFoundedInduction, TLAPS

ConnField ==
  {"state", "header_state", "flags", "content_length", "uses_transfer_encoding", "method",
   "version", "qs_point", "errno", "upgrade", "nread", "mark", "marked", "url_start", "exited",
   "unread", "req", "header_building_state", "header_field", "header_value", "message_complete",
   "res", "routing_handle_result", "close_connection", "add_keep_alive",
   "need_to_call_after_handlers", "continue_requested", "is_open", "deadline", "fails", "thrown",
   "out", "seen"}

ResField == {"code", "body", "headers", "file", "skip_body", "manual_length", "completed", "handler"}

Whole(s) == DOMAIN s = ConnField /\ DOMAIN s.res = ResField

\* A write fails on a closed socket only, as long as the peer is there.
Heard(s, there) == there => s.fails = "no" \/ ~s.is_open

Calm(s, there) ==
  /\ Whole(s)
  /\ ~s.need_to_call_after_handlers
  /\ ~s.continue_requested
  /\ s.thrown => ~s.deadline
  /\ Heard(s, there)

\* A message that is complete has been answered, unless the connection closes.
Finished(s, there) == there /\ s.is_open /\ s.message_complete => s.close_connection

\* The connection between two tokens.
Between(s, there) == Calm(s, there) /\ Finished(s, there)

\* The fields that Between is about are the same.
Same(s, t) ==
  /\ DOMAIN t = DOMAIN s
  /\ t.res = s.res
  /\ t.need_to_call_after_handlers = s.need_to_call_after_handlers
  /\ t.continue_requested = s.continue_requested
  /\ t.thrown = s.thrown
  /\ t.deadline = s.deadline
  /\ t.fails = s.fails
  /\ t.is_open = s.is_open
  /\ t.message_complete = s.message_complete
  /\ t.close_connection = s.close_connection

\* Between two callbacks.
CInv ==
  /\ Whole(conn)
  /\ ~conn.need_to_call_after_handlers
  /\ ~conn.continue_requested
  /\ Heard(conn, peer = "open")
  /\ Finished(conn, peer = "open")
  /\ ~started => ~reading /\ conn.errno = "OK"
  /\ Watched

-----------------------------------------------------------------------------
(* The response: what its operators keep of its fields. *)

\* clear, end and what end resets keep a response a response.
LEMMA ResponseKept ==
  ASSUME NEW res, DOMAIN res = ResField
  PROVE  /\ DOMAIN clear(res) = ResField
         /\ DOMAIN Ended(res) = ResField
         /\ DOMAIN AfterHandler(res) = ResField
         /\ DOMAIN HeaderWritten(res) = ResField
  BY DEF ResField, clear, set_header, Ended, AfterHandler, HeaderWritten

\* A response with a header set has the same body, file and flags.
LEMMA HeaderProps ==
  ASSUME NEW res, DOMAIN res = ResField, NEW name, NEW value
  PROVE  LET t == set_header(res, name, value)
         IN /\ DOMAIN t = ResField
            /\ t.body = res.body /\ t.file = res.file
            /\ t.completed = res.completed /\ t.handler = res.handler
  BY DEF ResField, set_header

\* So has a response with a header more.
LEMMA AddedProps ==
  ASSUME NEW res, DOMAIN res = ResField, NEW name, NEW value
  PROVE  LET t == add_header(res, name, value)
         IN /\ DOMAIN t = ResField
            /\ t.body = res.body /\ t.file = res.file
            /\ t.completed = res.completed /\ t.handler = res.handler
  BY DEF ResField, add_header

\* end() leaves the body or empties it.
LEMMA EndedProps ==
  ASSUME NEW res, DOMAIN res = ResField
  PROVE  /\ Ended(res).file = res.file
         /\ Ended(res).body \in {res.body, ""}
         /\ Ended(res).handler = res.handler
<1> DEFINE r == [res EXCEPT !.completed = TRUE]
           h == set_header(r, "content-length", res.body)
<1>1. DOMAIN r = ResField /\ r.file = res.file /\ r.body = res.body /\ r.handler = res.handler
  BY DEF ResField
<1>2. DOMAIN h = ResField /\ h.file = r.file /\ h.handler = r.handler
  <2> HIDE DEF r
  <2> QED BY <1>1, HeaderProps
<1>3. Ended(res) = IF res.skip_body THEN [h EXCEPT !.body = "", !.manual_length = TRUE] ELSE r
  BY DEF Ended
<1> HIDE DEF r, h
<1> QED BY <1>1, <1>2, <1>3 DEF ResField

-----------------------------------------------------------------------------
(* Writing. *)

\* ParserClear changes nothing of what Between is about but that no message is complete.
LEMMA ClearedProps ==
  ASSUME NEW s, Whole(s)
  PROVE  LET t == ParserClear(s)
         IN /\ Whole(t) /\ ~t.message_complete
            /\ t.need_to_call_after_handlers = s.need_to_call_after_handlers
            /\ t.continue_requested = s.continue_requested
            /\ t.thrown = s.thrown /\ t.deadline = s.deadline /\ t.fails = s.fails
            /\ t.is_open = s.is_open /\ t.close_connection = s.close_connection
            /\ t.res = s.res
  BY DEF Whole, ConnField, ParserClear

\* What a write leaves of a connection that is Able: the next message can begin, and on a
\* connection that stays open with its peer there none is complete.
Able(s, there) == Whole(s) /\ ~s.continue_requested /\ Heard(s, there)

Done(s, there) ==
  /\ Able(s, there) /\ ~s.need_to_call_after_handlers
  /\ there /\ s.is_open => ~s.message_complete

\* do_write_sync: what is written does not matter.
LEMMA SyncProps ==
  ASSUME NEW s, NEW there \in BOOLEAN, Whole(s), Heard(s, there)
  PROVE  LET t == do_write_sync(s)
         IN /\ Able(t, there)
            /\ ~s.continue_requested => ~t.message_complete
            /\ s.continue_requested => t.message_complete = s.message_complete
            /\ t.need_to_call_after_handlers = s.need_to_call_after_handlers
            /\ t.thrown = s.thrown /\ t.deadline = s.deadline /\ t.is_open = s.is_open
            /\ t.close_connection = s.close_connection
<1> DEFINE t == [s EXCEPT !.res = clear(@), !.fails = IF @ = "no" THEN "no" ELSE "all"]
<1>1. /\ Whole(t) /\ Heard(t, there)
      /\ t.need_to_call_after_handlers = s.need_to_call_after_handlers
      /\ t.thrown = s.thrown /\ t.deadline = s.deadline /\ t.is_open = s.is_open
      /\ t.continue_requested = s.continue_requested
      /\ t.message_complete = s.message_complete
      /\ t.close_connection = s.close_connection
  BY ResponseKept DEF Whole, ConnField, Heard
<1>2. do_write_sync(s) = IF s.continue_requested THEN [t EXCEPT !.continue_requested = FALSE]
                         ELSE ParserClear(t)
  BY <1>1 DEF do_write_sync
<1> HIDE DEF t
<1>3. CASE s.continue_requested
  BY <1>1, <1>2, <1>3 DEF Able, Whole, ConnField, Heard
<1>4. CASE ~s.continue_requested
  BY <1>1, <1>2, <1>4, ClearedProps DEF Able, Heard
<1> QED BY <1>3, <1>4

\* Streamed: the same, and the connection may be closed.
LEMMA StreamedProps ==
  ASSUME NEW s, NEW there \in BOOLEAN, Able(s, there), ~s.need_to_call_after_handlers
  PROVE  LET t == Streamed(s)
         IN Done(t, there) /\ t.thrown = s.thrown /\ t.deadline = s.deadline
<1> DEFINE closed == [s EXCEPT !.is_open = @ /\ ~s.close_connection]
           u      == [closed EXCEPT !.res = clear(Ended(@))]
<1>1. /\ Whole(closed)
      /\ closed.is_open <=> (s.is_open /\ ~s.close_connection)
      /\ closed.fails = s.fails /\ closed.thrown = s.thrown /\ closed.deadline = s.deadline
      /\ closed.need_to_call_after_handlers = s.need_to_call_after_handlers
      /\ closed.continue_requested = s.continue_requested
  BY DEF Able, Whole, ConnField
<1>2. Streamed(s) = ParserClear(u)
  BY DEF Streamed
<1> HIDE DEF closed
<1>3. /\ Whole(u) /\ u.is_open = closed.is_open
      /\ u.fails = closed.fails /\ u.thrown = closed.thrown /\ u.deadline = closed.deadline
      /\ u.need_to_call_after_handlers = closed.need_to_call_after_handlers
      /\ u.continue_requested = closed.continue_requested
  BY <1>1, ResponseKept DEF Whole, ConnField
<1> HIDE DEF u
<1> QED BY <1>1, <1>2, <1>3, ClearedProps DEF Able, Done, Heard

\* An exception out of a write, which only a peer that is gone or a closed socket causes.
LEMMA ThrownProps ==
  ASSUME NEW s, NEW there \in BOOLEAN, Able(s, there), ~s.need_to_call_after_handlers, Throws(s)
  PROVE  Done(Thrown(s), there) /\ Thrown(s).deadline = s.deadline
  BY DEF Able, Whole, ConnField, Heard, Done, Throws, Thrown

\* What a large body or a file may throw at is a deadline that is armed; anything else is sent
\* whatever happens.
Sendable(s) == s.deadline => s.res.body # "large" /\ s.res.file = ""

\* Writes: the answer, by one of its three ways.
LEMMA WritesProps ==
  ASSUME NEW s, NEW there \in BOOLEAN, Able(s, there), ~s.need_to_call_after_handlers, Sendable(s)
  PROVE  LET t == Writes(s)
         IN /\ Done(t, there)
            /\ t.deadline => (s.deadline /\ t.thrown = s.thrown)
<1> DEFINE file == [s EXCEPT !.out = Sends(s, Written(s, s.res.file))]
           body == [s EXCEPT !.out = Sends(s, Written(s, s.res.body))]
           large == [s EXCEPT !.out = Sends(s, Written(s, s.res.body)), !.deadline = FALSE]
<1>1. /\ Able(file, there) /\ ~file.need_to_call_after_handlers
      /\ file.thrown = s.thrown /\ file.deadline = s.deadline
  BY DEF Able, Whole, ConnField, Heard
<1>2. /\ Able(body, there) /\ ~body.need_to_call_after_handlers
      /\ body.thrown = s.thrown /\ body.deadline = s.deadline
  BY DEF Able, Whole, ConnField, Heard
<1>3. /\ Able(large, there) /\ ~large.need_to_call_after_handlers /\ ~large.deadline
  BY DEF Able, Whole, ConnField, Heard
<1>4. CASE is_static_type(s.res)
  <2>1. Writes(s) = IF Throws(s) THEN Thrown(s) ELSE Streamed(do_write_sync(file))
    BY <1>4 DEF Writes, do_write_static
  <2>2. ~s.deadline
    BY <1>4 DEF is_static_type, Sendable
  <2> HIDE DEF file
  <2>3. CASE Throws(s)
    BY <2>1, <2>2, <2>3, ThrownProps
  <2>4. CASE ~Throws(s)
    BY <1>1, <2>1, <2>2, <2>4, SyncProps, StreamedProps DEF Able
  <2> QED BY <2>3, <2>4
<1>5. CASE ~is_static_type(s.res) /\ s.res.body = "large"
  <2>1. Writes(s) = IF Throws(s) THEN Thrown(s) ELSE Streamed(do_write_sync(large))
    BY <1>5 DEF Writes, do_write_general
  <2>2. ~s.deadline
    BY <1>5 DEF Sendable
  <2> HIDE DEF large
  <2>3. CASE Throws(s)
    BY <2>1, <2>2, <2>3, ThrownProps
  <2>4. CASE ~Throws(s)
    BY <1>3, <2>1, <2>4, SyncProps, StreamedProps DEF Able
  <2> QED BY <2>3, <2>4
<1>6. CASE ~is_static_type(s.res) /\ s.res.body # "large"
  <2>1. Writes(s) = do_write_sync(body)
    BY <1>6 DEF Writes, do_write_general
  <2> HIDE DEF body
  <2> QED BY <1>2, <2>1, SyncProps DEF Able, Done
<1> QED BY <1>4, <1>5, <1>6

\* complete_request, from handle_url or from the end of the response: the one that was to call the
\* after handlers has been served.
LEMMA CompletedProps ==
  ASSUME NEW s, NEW there \in BOOLEAN, Able(s, there),
         s.deadline => s.res.body = "" /\ s.res.file = ""
  PROVE  LET t == complete_request(s)
         IN /\ Done(t, there)
            /\ t.deadline => (s.deadline /\ t.thrown = s.thrown)
<1> DEFINE u == [s EXCEPT !.need_to_call_after_handlers = FALSE]
           v == [u EXCEPT !.res.handler = FALSE]
           w == prepare_buffers(u)
<1>1. /\ Able(u, there) /\ ~u.need_to_call_after_handlers /\ u.deadline = s.deadline
      /\ u.thrown = s.thrown /\ u.res = s.res
  BY DEF Able, Whole, ConnField, Heard
<1>2. complete_request(s) = Writes(w)
  BY DEF complete_request
<1>3. w = IF u.is_open THEN [v EXCEPT !.res = HeaderWritten(@)] ELSE v
  BY DEF prepare_buffers
<1> HIDE DEF u
<1>4. /\ Able(v, there) /\ ~v.need_to_call_after_handlers /\ v.deadline = s.deadline
      /\ v.thrown = s.thrown /\ v.res.body = s.res.body /\ v.res.file = s.res.file
  BY <1>1 DEF Able, Whole, ConnField, ResField, Heard
<1> HIDE DEF v, w
<1>5. /\ Able(w, there) /\ ~w.need_to_call_after_handlers /\ w.deadline = s.deadline
      /\ w.thrown = s.thrown
      /\ w.res = IF u.is_open THEN HeaderWritten(v.res) ELSE v.res
  BY <1>3, <1>4, ResponseKept DEF Able, Whole, ConnField, Heard
<1>6. /\ HeaderWritten(v.res).file = v.res.file
      /\ HeaderWritten(v.res).body \in {v.res.body, "status text"}
  BY <1>4 DEF Able, Whole, ResField, HeaderWritten
<1>7. Sendable(w)
  BY <1>4, <1>5, <1>6 DEF Sendable
<1> QED BY <1>2, <1>5, <1>7, WritesProps

-----------------------------------------------------------------------------
(* Handling a message. *)

\* end() of this response will call the connection back.
Pending(s) == ~s.res.completed /\ s.res.handler

\* Whoever has to be called back is.
Owed(s, there) == s.need_to_call_after_handlers \/ (there /\ s.is_open /\ s.message_complete)

\* end(): nobody is owed an answer afterwards, if end() could call the connection back.
LEMMA EndProps ==
  ASSUME NEW s, NEW there \in BOOLEAN, Able(s, there), ~s.deadline, Owed(s, there) => Pending(s)
  PROVE  Done(EndResponse(s), there) /\ ~EndResponse(s).deadline
<1> DEFINE ended == [s EXCEPT !.res = Ended(@)]
           done  == complete_request(ended)
           back  == [done EXCEPT !.res = AfterHandler(@)]
<1>1. Able(ended, there) /\ ~ended.deadline
  BY ResponseKept DEF Able, Whole, ConnField, Heard
<1>2. ~Pending(s) => Done(ended, there)
  BY <1>1 DEF Owed, Done, Able, Whole, ConnField
<1>3. EndResponse(s) = CASE s.res.completed -> s
                         [] ~s.res.completed /\ ~s.res.handler -> ended
                         [] OTHER -> SetBack(done)
  BY DEF EndResponse
<1>4. SetBack(done) = IF done.thrown THEN done ELSE back
  BY DEF SetBack
<1> HIDE DEF ended
<1>5. Done(done, there) /\ ~done.deadline
  BY <1>1, CompletedProps
<1> HIDE DEF done
<1>6. Done(back, there) /\ ~back.deadline
  BY <1>5, ResponseKept DEF Done, Able, Whole, ConnField, Heard
<1> HIDE DEF back
<1>7. CASE s.res.completed
  BY <1>3, <1>7 DEF Pending, Owed, Done
<1>8. CASE ~s.res.completed /\ ~s.res.handler
  BY <1>2, <1>1, <1>3, <1>8 DEF Pending
<1>9. CASE ~s.res.completed /\ s.res.handler
  BY <1>3, <1>4, <1>5, <1>6, <1>9
<1> QED BY <1>7, <1>8, <1>9

\* The answer to an exception: no exception goes up from it.
LEMMA AnsweredProps ==
  ASSUME NEW s, NEW there \in BOOLEAN, Able(s, there), ~s.deadline, Owed(s, there) => s.res.handler
  PROVE  Done(AnswerException(s), there) /\ ~AnswerException(s).deadline
<1> DEFINE t == [s EXCEPT !.thrown = FALSE, !.res = Assign(@, 500, "")]
<1>1. Able(t, there) /\ ~t.deadline /\ (Owed(t, there) => Owed(s, there))
      /\ ~t.res.completed /\ t.res.handler = s.res.handler
  BY DEF Assign, Able, Whole, ConnField, ResField, Heard, Owed
<1>2. Owed(t, there) => Pending(t)
  BY <1>1 DEF Pending
<1>3. AnswerException(s) = EndResponse(t)
  BY DEF AnswerException
<1> HIDE DEF t
<1> QED BY <1>1, <1>2, <1>3, EndProps

\* A rule's handler answers, or leaves the response pending for the answer to its exception.
LEMMA RuleProps ==
  ASSUME NEW s, NEW there \in BOOLEAN, NEW kind, Able(s, there), ~s.deadline, Pending(s)
  PROVE  LET t == RuleHandle(s, kind)
         IN /\ Able(t, there) /\ ~t.deadline
            /\ Owed(t, there) => t.res.handler
            /\ ~t.thrown => Done(t, there)
<1>1. CASE kind = "throws"
  BY <1>1 DEF RuleHandle, Able, Whole, ConnField, Heard, Pending
<1>2. CASE kind # "throws"
  <2> DEFINE r == IF kind \in {"file", "no file"}
                  THEN set_static_file_info(s.res, "file", kind = "file")
                  ELSE Assign(s.res, 200, kind)
             t == [s EXCEPT !.res = r]
  <2>1. DOMAIN r = ResField /\ ~r.completed /\ r.handler
    <3> DEFINE a == Assign(s.res, 200, kind)
               f == set_static_file_info(s.res, "file", kind = "file")
    <3>1. DOMAIN a = ResField /\ ~a.completed /\ a.handler
      BY DEF Assign, ResField, Able, Whole, Pending
    <3>2. DOMAIN f = ResField /\ ~f.completed /\ f.handler
      BY DEF set_static_file_info, add_header, ResField, Able, Whole, Pending
    <3>3. r = IF kind \in {"file", "no file"} THEN f ELSE a
      OBVIOUS
    <3> HIDE DEF a, f
    <3> QED BY <3>1, <3>2, <3>3
  <2>2. RuleHandle(s, kind) = EndResponse(t)
    BY <1>2 DEF RuleHandle
  <2> HIDE DEF r
  <2>3. Able(t, there) /\ ~t.deadline /\ Pending(t)
    BY <2>1 DEF Able, Whole, ConnField, Heard, Pending
  <2> HIDE DEF t
  <2>4. Done(RuleHandle(s, kind), there) /\ ~RuleHandle(s, kind).deadline
    BY <2>2, <2>3, EndProps
  <2> QED BY <2>4 DEF Done, Owed
<1> QED BY <1>1, <1>2

\* Router::handle answers every message.
LEMMA RouterProps ==
  ASSUME NEW s, NEW there \in BOOLEAN, Able(s, there), ~s.deadline, Pending(s)
  PROVE  Done(RouterHandle(s), there) /\ ~RouterHandle(s).deadline
<1> DEFINE found == s.routing_handle_result
           own   == [s EXCEPT !.res = IF found.catch_all THEN @ ELSE Redirection(s)]
           rule  == RuleHandle(s, Router[found.method].rules[found.rule_index - 1].kind)
<1>1. DOMAIN Redirection(s) = ResField /\ ~Redirection(s).completed /\ Redirection(s).handler
  <2> DEFINE r == Assign(s.res, 301, "")
             u == Append(s.req.url, "/")
  <2>1. DOMAIN r = ResField /\ ~r.completed /\ r.handler
    BY DEF Assign, ResField, Able, Whole, Pending
  <2>2. Redirection(s) = add_header(r, "location", u)
    BY DEF Redirection
  <2> HIDE DEF r, u
  <2> QED BY <2>1, <2>2, AddedProps
<1>2. Able(own, there) /\ ~own.deadline /\ Pending(own)
  BY <1>1 DEF Able, Whole, ConnField, Heard, Pending
<1>3. RouterHandle(s) =
        IF found.catch_all \/ found.rule_index = RULE_SPECIAL_REDIRECT_SLASH
        THEN EndResponse(own) ELSE Caught(rule)
  BY DEF RouterHandle
<1>4. /\ Able(rule, there) /\ ~rule.deadline
      /\ Owed(rule, there) => rule.res.handler
      /\ ~rule.thrown => Done(rule, there)
  BY RuleProps
<1> HIDE DEF own, rule, found
<1>5. Done(EndResponse(own), there) /\ ~EndResponse(own).deadline
  BY <1>2, EndProps
<1>6. Done(Caught(rule), there) /\ ~Caught(rule).deadline
  BY <1>4, AnsweredProps DEF Caught
<1> QED BY <1>3, <1>5, <1>6

\* handle: a whole message is there.
LEMMA HandleProps ==
  ASSUME NEW s, NEW there \in BOOLEAN, Calm(s, there)
  PROVE  Between(handle(s), there)
<1> DEFINE begun == [s EXCEPT !.deadline = FALSE, !.add_keep_alive = s.req.keep_alive,
                              !.close_connection = s.req.close_connection,
                              !.seen = IF s.res.completed THEN @ ELSE Append(@, s.req)]
           direct == [begun EXCEPT !.need_to_call_after_handlers = FALSE]
           invalid == s.req.version = "1.1" /\ ~HasHeader(s.req, <<"host">>)
           upgrade == s.req.version = "1.1" /\ ~invalid /\ s.req.upgrade /\ ~IsHttp2(s.req)
           gone   == [s EXCEPT !.deadline = FALSE, !.add_keep_alive = FALSE, !.thrown = TRUE]
           closes == [begun EXCEPT !.close_connection = TRUE]
           told   == [direct EXCEPT !.res = IF invalid THEN Assign(@, 400, "")
                                            ELSE [@ EXCEPT !.handler = FALSE]]
           asked  == [begun EXCEPT !.need_to_call_after_handlers = TRUE, !.res.handler = TRUE]
<1>1. handle(s) =
        IF s.fails = "all" \/ ~s.is_open THEN gone
        ELSE IF upgrade THEN RouterHandleUpgrade(closes)
        ELSE IF invalid \/ s.res.completed THEN complete_request(told)
        ELSE KeepsAlive(RouterHandle(asked))
  BY DEF handle
<1>2. /\ Able(begun, there) /\ ~begun.deadline /\ ~begun.need_to_call_after_handlers
      /\ begun.res = s.res /\ begun.thrown = s.thrown
  BY DEF Calm, Able, Whole, ConnField, Heard
<1> HIDE DEF begun
<1>3. Able(direct, there) /\ ~direct.deadline /\ direct.res = s.res
  BY <1>2 DEF Able, Whole, ConnField, Heard
<1> HIDE DEF direct
<1>4. CASE s.fails = "all" \/ ~s.is_open
  <2>1. Between(gone, there)
    BY <1>4 DEF Between, Finished, Calm, Whole, ConnField, Heard
  <2> QED BY <1>1, <1>4, <2>1
<1>5. CASE ~(s.fails = "all" \/ ~s.is_open) /\ upgrade
  <2>1. PICK r : DOMAIN r = ResField /\ RouterHandleUpgrade(closes) = [closes EXCEPT !.res = r]
    <3>1. DOMAIN closes.res = ResField
      BY <1>2 DEF Able, Whole, ConnField
    <3> DEFINE found == Lookup(Router, closes.req.url)
               code == UpgradeCode(found[closes.req.method], Somewhere(found))
           a == Assign(closes.res, code, "")
    <3>2. RouterHandleUpgrade(closes) = [closes EXCEPT !.res = Ended(a)]
      BY DEF RouterHandleUpgrade, UpgradeRefused
    <3> HIDE DEF closes, found, code
    <3>3. DOMAIN a = ResField
      BY <3>1 DEF Assign, ResField
    <3> HIDE DEF a
    <3> QED BY <3>2, <3>3, ResponseKept
  <2>2. Between([closes EXCEPT !.res = r], there)
    BY <1>2, <2>1 DEF Between, Finished, Calm, Able, Whole, ConnField, Heard
  <2> QED BY <1>1, <1>5, <2>1, <2>2
<1>6. CASE ~(s.fails = "all" \/ ~s.is_open) /\ ~upgrade /\ (invalid \/ s.res.completed)
  <2>1. Able(told, there) /\ ~told.deadline
    <3>1. DOMAIN [direct.res EXCEPT !.handler = FALSE] = ResField
      BY <1>3 DEF Able, Whole
    <3>2. DOMAIN Assign(direct.res, 400, "") = ResField
      BY <1>3 DEF Assign, ResField, Able, Whole
    <3> QED BY <1>3, <3>1, <3>2 DEF Able, Whole, ConnField, Heard
  <2>2. Done(complete_request(told), there) /\ ~complete_request(told).deadline
    <3> HIDE DEF told
    <3> QED BY <2>1, CompletedProps
  <2> QED BY <1>1, <1>6, <2>2 DEF Between, Finished, Calm, Done, Able
<1>7. CASE ~(s.fails = "all" \/ ~s.is_open) /\ ~upgrade /\ ~(invalid \/ s.res.completed)
  <2>1. Able(asked, there) /\ ~asked.deadline /\ Pending(asked)
    BY <1>2, <1>7 DEF Able, Whole, ConnField, ResField, Heard, Pending
  <2> DEFINE t == RouterHandle(asked)
             r == set_header(t.res, "connection", "Keep-Alive")
  <2>2. Done(t, there) /\ ~t.deadline
    <3> HIDE DEF asked
    <3> QED BY <2>1, RouterProps
  <2>3. handle(s) = IF t.add_keep_alive THEN [t EXCEPT !.res = r] ELSE t
    <3> HIDE DEF asked
    <3> QED BY <1>1, <1>7 DEF KeepsAlive
  <2> HIDE DEF t
  <2>4. DOMAIN r = ResField
    BY <2>2, HeaderProps DEF Done, Able, Whole
  <2> HIDE DEF r
  <2> QED BY <2>2, <2>3, <2>4 DEF Between, Finished, Calm, Done, Able, Whole, ConnField, Heard
<1> QED BY <1>4, <1>5, <1>6, <1>7

-----------------------------------------------------------------------------
(* The URL and the headers. *)

\* handle_initial: where no handler will run, the answer is empty yet and no file.
LEMMA InitialProps ==
  ASSUME NEW res, DOMAIN res = ResField, NEW router, NEW m, NEW url
  PROVE  LET first == handle_initial(router, m, url, res)
         IN /\ DOMAIN first.res = ResField
            /\ first.found.rule_index = 0 /\ ~first.found.catch_all =>
                 first.res.body = "" /\ first.res.file = ""
<1> DEFINE Good(first) == /\ DOMAIN first.res = ResField
                          /\ first.found.rule_index = 0 /\ ~first.found.catch_all =>
                               first.res.body = "" /\ first.res.file = ""
<1>1. ASSUME NEW code
      PROVE  LET r == EndedWith(res, code)
             IN DOMAIN r = ResField /\ r.body = "" /\ r.file = ""
  <2> DEFINE a == Assign(res, code, "")
  <2>1. DOMAIN a = ResField /\ a.body = "" /\ a.file = ""
    BY DEF Assign, ResField
  <2> HIDE DEF a
  <2>2. DOMAIN Ended(a) = ResField /\ Ended(a).file = "" /\ Ended(a).body = ""
    BY <2>1, EndedProps, ResponseKept
  <2> QED BY <2>2 DEF EndedWith, a
<1>2. ASSUME NEW methods
      PROVE  LET r == Allowed(res, methods)
             IN DOMAIN r = ResField /\ r.body = "" /\ r.file = ""
  <2> DEFINE a == Assign(res, 204, "")
             b == set_header(a, "allow", methods)
  <2>1. DOMAIN a = ResField /\ a.body = "" /\ a.file = ""
    BY DEF Assign, ResField
  <2>2. DOMAIN b = ResField /\ b.body = a.body /\ b.file = a.file
    <3> HIDE DEF a
    <3> QED BY <2>1, HeaderProps
  <2> HIDE DEF a, b
  <2>3. DOMAIN Ended(b) = ResField /\ Ended(b).file = "" /\ Ended(b).body = ""
    BY <2>1, <2>2, EndedProps, ResponseKept
  <2> QED BY <2>3 DEF Allowed, a, b
<1>3. ASSUME NEW own, NEW get PROVE Good(InitialHead(own, get, res))
  BY <1>1 DEF InitialHead, Initial, Found, NotFound, NoRule, ResField
<1>4. ASSUME NEW methods PROVE Good(InitialOptions(methods, res))
  <2>1. CASE methods # {}
    <3> DEFINE a == Allowed(res, methods \ {"HEAD"})
               first == Initial(Found(NoRule, "OPTIONS", FALSE), a)
    <3>1. DOMAIN a = ResField /\ a.body = "" /\ a.file = ""
      BY <1>2
    <3>2. InitialOptions(methods, res) = first
      BY <2>1 DEF InitialOptions
    <3> HIDE DEF a
    <3>3. first.res = a
      BY DEF Initial
    <3> HIDE DEF first
    <3> QED BY <3>1, <3>2, <3>3
  <2>2. CASE methods = {}
    <3> DEFINE a == EndedWith(res, 404)
               first == Initial(NotFound, a)
    <3>1. DOMAIN a = ResField /\ a.body = "" /\ a.file = ""
      BY <1>1
    <3>2. InitialOptions(methods, res) = first
      BY <2>2 DEF InitialOptions
    <3> HIDE DEF a
    <3>3. first.res = a
      BY DEF Initial
    <3> HIDE DEF first
    <3> QED BY <3>1, <3>2, <3>3
  <2> QED BY <2>1, <2>2
<1>5. ASSUME NEW own, NEW methods PROVE Good(InitialOther(own, m, methods, res))
  BY DEF InitialOther, Initial, Found, NotFound, NoRule, ResField
<1> HIDE DEF Good
<1>6. ASSUME NEW found PROVE Good(Initially(router, m, found, url, res))
  BY <1>3, <1>4, <1>5 DEF Initially
<1>7. Good(handle_initial(router, m, url, res))
  BY <1>6 DEF handle_initial
<1> QED BY <1>7 DEF Good

\* handle_url: an answer without a handler is written with the deadline armed, and is sent.
LEMMA UrlProps ==
  ASSUME NEW s, NEW there \in BOOLEAN, Between(s, there)
  PROVE  Between(handle_url(s), there)
<1>1. DOMAIN s.res = ResField
  BY DEF Between, Calm, Whole
<1>2. PICK first : /\ handle_url(s) = Begins(s, first)
                   /\ DOMAIN first.res = ResField
                   /\ first.found.rule_index = 0 /\ ~first.found.catch_all =>
                        first.res.body = "" /\ first.res.file = ""
  <2> DEFINE first == handle_initial(Router, s.req.method, s.req.url, s.res)
  <2>1. handle_url(s) = Begins(s, first)
    BY DEF handle_url
  <2>2. /\ DOMAIN first.res = ResField
        /\ first.found.rule_index = 0 /\ ~first.found.catch_all =>
             first.res.body = "" /\ first.res.file = ""
    BY <1>1, InitialProps
  <2> QED BY <2>1, <2>2
<1> DEFINE t == [s EXCEPT !.routing_handle_result = first.found, !.res = first.res]
           d == ParserDone(t)
           u == [d EXCEPT !.need_to_call_after_handlers = TRUE]
<1>3. Between(t, there) /\ t.res = first.res
  BY <1>2 DEF Between, Finished, Calm, Whole, ConnField, Heard
<1>4. Begins(s, first) = IF first.found.rule_index # 0 \/ first.found.catch_all THEN t
                         ELSE complete_request(u)
  BY DEF Begins
<1> HIDE DEF t
<1>5. /\ Able(d, there) /\ d.res = t.res /\ d.deadline = t.deadline /\ d.thrown = t.thrown
  BY <1>3 DEF ParserDone, Between, Calm, Able, Whole, ConnField, Heard
<1> HIDE DEF d
<1>6. Able(u, there) /\ u.res = d.res /\ u.deadline = d.deadline /\ u.thrown = d.thrown
  BY <1>5 DEF Able, Whole, ConnField, Heard
<1> HIDE DEF u
<1>7. CASE first.found.rule_index # 0 \/ first.found.catch_all
  BY <1>2, <1>3, <1>4, <1>7
<1>8. CASE first.found.rule_index = 0 /\ ~first.found.catch_all
  <2>1. /\ Done(complete_request(u), there)
        /\ complete_request(u).deadline =>
             (u.deadline /\ complete_request(u).thrown = u.thrown)
    BY <1>2, <1>3, <1>5, <1>6, <1>8, CompletedProps
  <2>2. u.thrown => ~u.deadline
    BY <1>3, <1>5, <1>6 DEF Between, Calm
  <2>3. handle_url(s) = complete_request(u)
    BY <1>2, <1>4, <1>8
  <2> QED BY <2>1, <2>2, <2>3 DEF Between, Finished, Calm, Done, Able
<1> QED BY <1>7, <1>8

\* handle_header: the interim answer leaves the message as it is.
LEMMA ContinueProps ==
  ASSUME NEW s, NEW there \in BOOLEAN, Between(s, there)
  PROVE  Between(handle_header(s), there)
<1> DEFINE t(out) == [s EXCEPT !.continue_requested = TRUE, !.out = out]
<1>1. ASSUME NEW out PROVE Between(do_write_sync(t(out)), there)
  <2> DEFINE u == t(out)
             v == do_write_sync(u)
  <2>1. /\ Whole(u) /\ Heard(u, there) /\ u.continue_requested
        /\ u.need_to_call_after_handlers = s.need_to_call_after_handlers
        /\ u.thrown = s.thrown /\ u.deadline = s.deadline /\ u.is_open = s.is_open
        /\ u.close_connection = s.close_connection /\ u.message_complete = s.message_complete
    BY DEF Between, Calm, Whole, ConnField, Heard
  <2> HIDE DEF u
  <2>2. /\ Able(v, there) /\ v.message_complete = u.message_complete
        /\ v.need_to_call_after_handlers = u.need_to_call_after_handlers
        /\ v.thrown = u.thrown /\ v.deadline = u.deadline /\ v.is_open = u.is_open
        /\ v.close_connection = u.close_connection
    BY <2>1, SyncProps
  <2> HIDE DEF v
  <2>3. Between(v, there)
    BY <2>1, <2>2 DEF Between, Finished, Calm, Able
  <2> QED BY <2>3 DEF u, v
<1> QED BY <1>1 DEF handle_header

-----------------------------------------------------------------------------
(* The parser's callbacks. *)

\* What changes none of the fields Between is about keeps it.
LEMMA SameKept ==
  ASSUME NEW s, NEW t, NEW there \in BOOLEAN, Between(s, there), Same(s, t)
  PROVE  Between(t, there)
  BY DEF Same, Between, Finished, Calm, Whole, Heard

\* on_url, on whatever was marked.
LEMMA OnUrlProps ==
  ASSUME NEW s, NEW there \in BOOLEAN, Between(s, there), NEW at
  PROVE  Between(on_url(s, at), there)
<1> DEFINE raw == s.req.raw_url \o at
           url == IF s.qs_point \in 1..Len(raw) THEN SubSeq(raw, 1, s.qs_point) ELSE raw
           t   == [s EXCEPT !.req.raw_url = raw, !.req.url = url]
<1>1. on_url(s, at) = handle_url(t)
  BY DEF on_url
<1> HIDE DEF raw, url
<1>2. Same(s, t)
  BY DEF Same, Between, Calm, Whole, ConnField
<1> HIDE DEF t
<1>3. Between(t, there)
  BY <1>2, SameKept
<1> QED BY <1>1, <1>3, UrlProps

\* A header put into the request.
LEMMA EmplacedProps ==
  ASSUME NEW s, NEW there \in BOOLEAN, Between(s, there)
  PROVE  Between(Emplaced(s), there)
<1>1. Same(s, Emplaced(s))
  BY DEF Emplaced, Same, Between, Calm, Whole, ConnField
<1> QED BY <1>1, SameKept

\* on_header_field.
LEMMA OnFieldProps ==
  ASSUME NEW s, NEW there \in BOOLEAN, Between(s, there), NEW at
  PROVE  Between(on_header_field(s, at), there)
<1> DEFINE t == IF s.header_value # <<>> THEN Emplaced(s) ELSE s
           u == [t EXCEPT !.header_field = at, !.header_building_state = 1]
           v == [s EXCEPT !.header_field = @ \o at]
<1>1. on_header_field(s, at) = IF s.header_building_state = 0 THEN u ELSE v
  BY DEF on_header_field
<1>2. Between(t, there)
  BY EmplacedProps
<1>3. Same(s, v)
  BY DEF Same, Between, Calm, Whole, ConnField
<1> HIDE DEF t, v
<1>4. Same(t, u)
  BY <1>2 DEF Same, Between, Calm, Whole, ConnField
<1> HIDE DEF u
<1> QED BY <1>1, <1>2, <1>3, <1>4, SameKept

\* on_header_value.
LEMMA OnValueProps ==
  ASSUME NEW s, NEW there \in BOOLEAN, Between(s, there), NEW at
  PROVE  Between(on_header_value(s, at), there)
<1>1. Same(s, on_header_value(s, at))
  BY DEF on_header_value, Same, Between, Calm, Whole, ConnField
<1> QED BY <1>1, SameKept

\* on_headers_complete.
LEMMA OnHeadersProps ==
  ASSUME NEW s, NEW there \in BOOLEAN, Between(s, there)
  PROVE  Between(on_headers_complete(s), there)
<1> DEFINE t      == IF s.header_field # <<>> THEN Emplaced(s) ELSE s
           kept   == "F_CONNECTION_KEEP_ALIVE" \in s.flags
           keep   == s.version = "1.1" \/ (s.version = "1.0" /\ kept)
           closes == \/ (s.version = "1.1" /\ "F_CONNECTION_CLOSE" \in s.flags)
                     \/ (s.version = "1.0" /\ ~kept)
           u      == [t EXCEPT !.req.version = s.version, !.req.keep_alive = keep,
                               !.req.close_connection = closes, !.req.upgrade = s.upgrade]
<1>1. on_headers_complete(s) = handle_header(u)
  BY DEF on_headers_complete
<1>2. Between(t, there)
  BY EmplacedProps
<1> HIDE DEF t, keep, closes
<1>3. Same(t, u)
  BY <1>2 DEF Same, Between, Calm, Whole, ConnField
<1> HIDE DEF u
<1> QED BY <1>1, <1>2, <1>3, SameKept, ContinueProps

\* on_body.
LEMMA OnBodyProps ==
  ASSUME NEW s, NEW there \in BOOLEAN, Between(s, there), NEW at
  PROVE  Between(on_body(s, at), there)
<1>1. Same(s, on_body(s, at))
  BY DEF on_body, Same, Between, Calm, Whole, ConnField
<1> QED BY <1>1, SameKept

\* on_message_complete.
LEMMA OnMessageProps ==
  ASSUME NEW s, NEW there \in BOOLEAN, Between(s, there)
  PROVE  Between(on_message_complete(s), there)
<1> DEFINE t == [s EXCEPT !.message_complete = TRUE]
<1>1. on_message_complete(s) = handle(t)
  BY DEF on_message_complete
<1>2. Calm(t, there)
  BY DEF Between, Calm, Whole, ConnField, Heard
<1> HIDE DEF t
<1> QED BY <1>1, <1>2, HandleProps

-----------------------------------------------------------------------------
(* The parser. *)

\* The steps the parser is built from.
LEMMA PlainProps ==
  ASSUME NEW s, NEW there \in BOOLEAN, Between(s, there), NEW x
  PROVE  /\ Between(Goto(s, x), there)
         /\ Between(Fails(s, x), there)
         /\ Between(Mark(s, x), there)
         /\ Between(Passes(s, x), there)
         /\ Between(Called(s), there)
         /\ Between(Unmark(s), there)
<1>1. Same(s, Goto(s, x)) /\ Same(s, Fails(s, x)) /\ Same(s, Passes(s, x)) /\ Same(s, Unmark(s))
  BY DEF Goto, Fails, Passes, Unmark, Same, Between, Calm, Whole, ConnField
<1>2. Same(s, Mark(s, x)) /\ Same(s, Called(s))
  BY DEF Mark, Called, Same, Between, Calm, Whole, ConnField
<1> QED BY <1>1, <1>2, SameKept

\* The ends of the marked pieces, and of the message.
LEMMA EndsProps ==
  ASSUME NEW s, NEW there \in BOOLEAN, Between(s, there)
  PROVE  /\ Between(UrlEnds(s), there)
         /\ Between(NameEnds(s), there)
         /\ Between(ValueEnds(s), there)
         /\ Between(BodyEnds(s), there)
         /\ Between(MessageComplete(s), there)
<1> DEFINE u == Unmark(s)
<1>1. Between(u, there)
  BY PlainProps
<1> HIDE DEF u
<1>2. Between(UrlEnds(s), there)
  BY <1>1, OnUrlProps, PlainProps DEF UrlEnds, u
<1>3. Between(NameEnds(s), there)
  BY <1>1, OnFieldProps, PlainProps DEF NameEnds, u
<1>4. Between(ValueEnds(s), there)
  BY <1>1, OnValueProps, PlainProps DEF ValueEnds, u
<1>5. Between(BodyEnds(s), there)
  BY <1>1, OnBodyProps, PlainProps DEF BodyEnds, u
<1>6. Between(MessageComplete(s), there)
  BY OnMessageProps, PlainProps DEF MessageComplete
<1> QED BY <1>2, <1>3, <1>4, <1>5, <1>6

\* s_start_req.
LEMMA StartReqProps ==
  ASSUME NEW s, NEW there \in BOOLEAN, Between(s, there), NEW ch
  PROVE  Between(start_req(s, ch), there)
<1> DEFINE t == [s EXCEPT !.flags = {}, !.uses_transfer_encoding = FALSE, !.content_length = Unknown]
           u == [t EXCEPT !.method = ch, !.req.method = ch, !.state = "s_req_method"]
<1>1. start_req(s, ch) \in {s, u, Fails(t, "INVALID_METHOD")}
  BY DEF start_req
<1>2. Same(s, t)
  BY DEF Same, Between, Calm, Whole, ConnField
<1> HIDE DEF t
<1>3. Between(t, there)
  BY <1>2, SameKept
<1>4. Same(t, u)
  BY <1>3 DEF Same, Between, Calm, Whole, ConnField
<1> HIDE DEF u
<1> QED BY <1>1, <1>3, <1>4, SameKept, PlainProps

\* s_req_method.
LEMMA MethodProps ==
  ASSUME NEW s, NEW there \in BOOLEAN, Between(s, there), NEW ch
  PROVE  Between(req_method(s, ch), there)
  BY PlainProps DEF req_method

\* parse_url_char.
LEMMA UrlCharProps ==
  ASSUME NEW s, NEW there \in BOOLEAN, Between(s, there), NEW ch
  PROVE  Between(parse_url_char(s, ch), there)
<1> DEFINE state == NextUrlState(s.state, ch)
           g == Goto(s, state)
           t == Passes(g, ch)
           u == [t EXCEPT !.qs_point = s.url_start]
<1>1. parse_url_char(s, ch) \in {t, u, Fails(t, "INVALID_URL")}
  BY DEF parse_url_char
<1> HIDE DEF state
<1>2. Between(g, there)
  BY PlainProps
<1> HIDE DEF g
<1>3. Between(t, there)
  BY <1>2, PlainProps
<1> HIDE DEF t
<1>4. Same(t, u)
  BY <1>3 DEF Same, Between, Calm, Whole, ConnField
<1> HIDE DEF u
<1> QED BY <1>1, <1>3, <1>4, SameKept, PlainProps

\* s_req_spaces_before_url.
LEMMA SpacesProps ==
  ASSUME NEW s, NEW there \in BOOLEAN, Between(s, there), NEW ch
  PROVE  Between(spaces_before_url(s, ch), there)
<1> DEFINE m == Mark(s, "url")
           start == IF m.url_start = Unknown THEN 0 ELSE m.url_start
           t == [m EXCEPT !.url_start = start]
<1>1. Between(m, there)
  BY PlainProps
<1>2. spaces_before_url(s, ch) \in {s, parse_url_char(t, ch)}
  <2>1. t = [m EXCEPT !.url_start = IF @ = Unknown THEN 0 ELSE @]
    BY <1>1 DEF Between, Calm, Whole, ConnField
  <2> QED BY <2>1 DEF spaces_before_url
<1> HIDE DEF m, start
<1>3. Same(m, t)
  BY <1>1 DEF Same, Between, Calm, Whole, ConnField
<1> HIDE DEF t
<1> QED BY <1>1, <1>2, <1>3, SameKept, UrlCharProps

\* s_req_schema to s_req_server_start.
LEMMA BeforeServerProps ==
  ASSUME NEW s, NEW there \in BOOLEAN, Between(s, there), NEW ch
  PROVE  Between(before_server(s, ch), there)
  BY PlainProps, UrlCharProps DEF before_server

\* s_req_server to s_req_query_string.
LEMMA PathProps ==
  ASSUME NEW s, NEW there \in BOOLEAN, Between(s, there), NEW ch
  PROVE  Between(server_path_query(s, ch), there)
<1> DEFINE version == IF ch = " " THEN s.version ELSE "0.9"
           state   == CASE ch = " "  -> "s_req_http_start"
                        [] ch = "CR" -> "s_req_line_almost_done"
                        [] ch = "LF" -> "s_header_field_start"
           t == [s EXCEPT !.version = version, !.state = state]
           d == Goto(s, "s_dead")
<1>1. server_path_query(s, ch) \in {Fails(d, "INVALID_VERSION"), UrlEnds(t), parse_url_char(s, ch)}
  <2>1. t = [s EXCEPT !.version = IF ch = " " THEN @ ELSE "0.9", !.state = state]
    BY DEF Between, Calm, Whole, ConnField
  <2> HIDE DEF state
  <2>2. CASE ch \in {"CR", "LF"} /\ s.method # "GET"
    BY <2>2 DEF server_path_query
  <2>3. CASE ch = " " \/ (ch \in {"CR", "LF"} /\ s.method = "GET")
    BY <2>1, <2>3 DEF server_path_query, state
  <2>4. CASE ~(ch \in {"CR", "LF"} /\ s.method # "GET")
             /\ ~(ch = " " \/ (ch \in {"CR", "LF"} /\ s.method = "GET"))
    BY <2>4 DEF server_path_query
  <2> QED BY <2>2, <2>3, <2>4
<1> HIDE DEF version, state
<1>2. Same(s, t)
  BY DEF Same, Between, Calm, Whole, ConnField
<1> HIDE DEF t
<1>3. Between(d, there)
  BY PlainProps
<1> HIDE DEF d
<1>4. Between(t, there)
  BY <1>2, SameKept
<1>5. Between(Fails(d, "INVALID_VERSION"), there)
  BY <1>3, PlainProps
<1>6. Between(UrlEnds(t), there)
  BY <1>4, EndsProps
<1>7. Between(parse_url_char(s, ch), there)
  BY UrlCharProps
<1> QED BY <1>1, <1>5, <1>6, <1>7

\* s_req_http_start to s_req_line_almost_done.
LEMMA VersionProps ==
  ASSUME NEW s, NEW there \in BOOLEAN, Between(s, there), NEW ch
  PROVE  /\ Between(http_version(s, ch), there)
         /\ Between(http_end(s, ch), there)
         /\ Between(line_almost_done(s, ch), there)
<1> DEFINE V(version) == [s EXCEPT !.version = version, !.state = "s_req_http_end"]
<1>1. ASSUME NEW version PROVE Between(V(version), there)
  <2>1. Same(s, V(version))
    BY DEF Same, Between, Calm, Whole, ConnField
  <2> QED BY <2>1, SameKept
<1>2. http_version(s, ch) \in {s, V("1.1"), V("1.0"), Fails(s, "INVALID_CONSTANT")}
  BY DEF http_version
<1> HIDE DEF V
<1>3. Between(http_version(s, ch), there)
  BY <1>1, <1>2, PlainProps
<1>4. Between(http_end(s, ch), there)
  BY PlainProps DEF http_end
<1>5. Between(line_almost_done(s, ch), there)
  BY PlainProps DEF line_almost_done
<1> QED BY <1>3, <1>4, <1>5

\* s_headers_done.
LEMMA HeadersDoneProps ==
  ASSUME NEW s, NEW there \in BOOLEAN, Between(s, there), NEW last
  PROVE  Between(headers_done(s, last), there)
<1> DEFINE t == [s EXCEPT !.nread = 0]
           m == MessageComplete(t)
           u == [m EXCEPT !.exited = TRUE, !.unread = ~last]
<1>1. headers_done(s, last) \in {u, Goto(t, "s_chunk_size_start"),
                                 Fails(t, "INVALID_TRANSFER_ENCODING"), m,
                                 Goto(t, "s_body_identity")}
  BY DEF headers_done
<1>2. Same(s, t)
  BY DEF Same, Between, Calm, Whole, ConnField
<1> HIDE DEF t
<1>3. Between(t, there)
  BY <1>2, SameKept
<1>4. Between(m, there)
  BY <1>3, EndsProps
<1> HIDE DEF m
<1>5. Same(m, u)
  BY <1>4 DEF Same, Between, Calm, Whole, ConnField
<1> HIDE DEF u
<1> QED BY <1>1, <1>3, <1>4, <1>5, SameKept, PlainProps

\* s_headers_almost_done.
LEMMA HeadersAlmostProps ==
  ASSUME NEW s, NEW there \in BOOLEAN, Between(s, there), NEW ch, NEW last
  PROVE  Between(headers_almost_done(s, ch, last), there)
<1> DEFINE upgrade == "F_UPGRADE" \in s.flags
           t == [s EXCEPT !.state = "s_headers_done", !.upgrade = upgrade]
           h == on_headers_complete(t)
           done == Called(h)
<1>1. headers_almost_done(s, ch, last) \in
        {Fails(s, "STRICT"), Fails(s, "UNEXPECTED_CONTENT_LENGTH"), HeadersEnd(s, last),
         HeadersEnd(done, last)}
  BY DEF headers_almost_done
<1> HIDE DEF upgrade
<1>2. Same(s, t)
  BY DEF Same, Between, Calm, Whole, ConnField
<1> HIDE DEF t
<1>3. Between(h, there)
  BY <1>2, SameKept, OnHeadersProps
<1> HIDE DEF h
<1>4. Between(done, there)
  BY <1>3, PlainProps
<1> HIDE DEF done
<1>5. ASSUME NEW r, Between(r, there) PROVE Between(HeadersEnd(r, last), there)
  BY <1>5, HeadersDoneProps, EndsProps DEF HeadersEnd
<1> QED BY <1>1, <1>4, <1>5, PlainProps

\* s_header_field_start.
LEMMA FieldStartProps ==
  ASSUME NEW s, NEW there \in BOOLEAN, Between(s, there), NEW ch, NEW last
  PROVE  Between(header_field_start(s, ch, last), there)
<1> DEFINE m == Mark(s, "header_field")
           g == Goto(s, "s_headers_almost_done")
           begun == NameBegun[ch]
           t == [m EXCEPT !.state = "s_header_field", !.header_state = begun]
<1>1. header_field_start(s, ch, last) \in {g, headers_almost_done(g, ch, last), Passes(t, ch),
                                           Fails(s, "INVALID_HEADER_TOKEN")}
  BY DEF header_field_start
<1> HIDE DEF begun
<1>2. Between(m, there) /\ Between(g, there)
  BY PlainProps
<1> HIDE DEF m, g
<1>3. Same(m, t)
  BY <1>2 DEF Same, Between, Calm, Whole, ConnField
<1> HIDE DEF t
<1>4. Between(t, there)
  BY <1>2, <1>3, SameKept
<1> QED BY <1>1, <1>2, <1>4, PlainProps, HeadersAlmostProps

\* s_header_field.
LEMMA FieldProps ==
  ASSUME NEW s, NEW there \in BOOLEAN, Between(s, there), NEW ch
  PROVE  Between(header_field(s, ch), there)
<1> DEFINE now == NameEnded(s.header_state, ch)
           uses == s.uses_transfer_encoding \/ now = "h_transfer_encoding"
           t == [s EXCEPT !.header_state = now, !.uses_transfer_encoding = uses]
           g == Goto(s, "s_header_value_discard_ws")
<1>1. header_field(s, ch) \in {NameEnds(g), Passes(t, ch), Fails(s, "INVALID_HEADER_TOKEN")}
  <2>1. t = [s EXCEPT !.header_state = now,
                      !.uses_transfer_encoding = @ \/ now = "h_transfer_encoding"]
    BY DEF Between, Calm, Whole, ConnField
  <2> HIDE DEF now, t
  <2> QED BY <2>1 DEF header_field, now
<1> HIDE DEF now, uses
<1>2. Same(s, t)
  BY DEF Same, Between, Calm, Whole, ConnField
<1> HIDE DEF t
<1>3. Between(g, there)
  BY PlainProps
<1> HIDE DEF g
<1> QED BY <1>1, <1>2, <1>3, SameKept, PlainProps, EndsProps

\* The first part of a header value.
LEMMA ValueStartProps ==
  ASSUME NEW s, NEW there \in BOOLEAN, Between(s, there), NEW ch, NEW next
  PROVE  Between(header_value_start(s, ch, next), there)
<1> DEFINE m == Mark(s, "header_value")
           g == Goto(m, "s_header_value")
           t == Passes(g, ch)
           To(x) == [t EXCEPT !.header_state = x]
           upgraded == [To("h_general") EXCEPT !.flags = @ \cup {"F_UPGRADE"}]
           long == [To("h_content_length_num") EXCEPT !.flags = @ \cup {"F_CONTENTLENGTH"},
                                                      !.content_length = HexValue[ch]]
<1>1. \/ \E x : header_value_start(s, ch, next) = To(x)
      \/ \E x : header_value_start(s, ch, next) = Fails(t, x)
      \/ header_value_start(s, ch, next) \in {upgraded, long, t}
  <2> HIDE DEF t
  <2>1. header_value_start(s, ch, next) =
          CASE s.header_state = "h_upgrade" ->
                 IF ch = "h" /\ next = "2c" THEN To("h_general") ELSE upgraded
            [] s.header_state = "h_transfer_encoding" ->
                 To(IF ch = "chunked" THEN "h_transfer_encoding_chunked"
                    ELSE "h_matching_transfer_encoding_token")
            [] s.header_state = "h_content_length" ->
                 IF ch \notin Hex THEN Fails(t, "INVALID_CONTENT_LENGTH")
                 ELSE IF "F_CONTENTLENGTH" \in s.flags THEN Fails(t, "UNEXPECTED_CONTENT_LENGTH")
                 ELSE long
            [] s.header_state = "h_connection" ->
                 To(CASE ch = "keep-alive" -> "h_connection_keep_alive"
                      [] ch = "close"      -> "h_connection_close"
                      [] OTHER             -> "h_general")
            [] s.header_state \in {"h_matching_transfer_encoding_token_start",
                                   "h_content_length_ws"} -> t
            [] OTHER -> To("h_general")
    BY DEF header_value_start, t
  <2> HIDE DEF To, upgraded, long
  <2> QED BY <2>1
<1>2. Between(m, there)
  BY PlainProps
<1> HIDE DEF m
<1>3. Between(g, there)
  BY <1>2, PlainProps
<1> HIDE DEF g
<1>4. Between(t, there)
  BY <1>3, PlainProps
<1> HIDE DEF t
<1>5. ASSUME NEW x PROVE Between(To(x), there) /\ Between(Fails(t, x), there)
  <2>1. Same(t, To(x))
    BY <1>4 DEF Same, Between, Calm, Whole, ConnField
  <2> HIDE DEF To
  <2> QED BY <1>4, <2>1, SameKept, PlainProps
<1>6. Same(t, upgraded) /\ Same(t, long)
  BY <1>4 DEF Same, Between, Calm, Whole, ConnField
<1> HIDE DEF To, upgraded, long
<1> QED BY <1>1, <1>4, <1>5, <1>6, SameKept

\* s_header_value_discard_ws.
LEMMA DiscardProps ==
  ASSUME NEW s, NEW there \in BOOLEAN, Between(s, there), NEW ch, NEW next
  PROVE  Between(header_value_discard_ws(s, ch, next), there)
  BY PlainProps, ValueStartProps DEF header_value_discard_ws

\* The digits of a length.
LEMMA LengthProps ==
  ASSUME NEW s, NEW there \in BOOLEAN, Between(s, there), NEW ch
  PROVE  Between(content_length_value(s, ch), there)
<1> DEFINE ws     == [s EXCEPT !.header_state = "h_content_length_ws"]
           length == 10 * s.content_length + HexValue[ch]
           long   == [s EXCEPT !.content_length = length]
<1>1. content_length_value(s, ch) \in
        {Passes(ws, ch), Passes(long, ch), Fails(s, "INVALID_CONTENT_LENGTH")}
  <2>1. long = [s EXCEPT !.content_length = 10 * @ + HexValue[ch]]
    BY DEF Between, Calm, Whole, ConnField
  <2> HIDE DEF long
  <2> QED BY <2>1 DEF content_length_value
<1> HIDE DEF length
<1>2. Same(s, ws) /\ Same(s, long)
  BY DEF Same, Between, Calm, Whole, ConnField
<1> HIDE DEF ws, long
<1>3. Between(ws, there) /\ Between(long, there)
  BY <1>2, SameKept
<1>4. Between(Passes(ws, ch), there) /\ Between(Passes(long, ch), there)
  BY <1>3, PlainProps
<1>5. Between(Fails(s, "INVALID_CONTENT_LENGTH"), there)
  BY PlainProps
<1> QED BY <1>1, <1>4, <1>5

\* s_header_almost_done and s_header_value_discard_ws_almost_done.
LEMMA AlmostProps ==
  ASSUME NEW s, NEW there \in BOOLEAN, Between(s, there), NEW ch
  PROVE  /\ Between(header_almost_done(s, ch), there)
         /\ Between(header_value_discard_ws_almost_done(s, ch), there)
  BY PlainProps DEF header_almost_done, header_value_discard_ws_almost_done

\* s_header_value.
LEMMA ValueProps ==
  ASSUME NEW s, NEW there \in BOOLEAN, Between(s, there), NEW ch
  PROVE  Between(header_value(s, ch), there)
<1> DEFINE g == Goto(s, "s_header_almost_done")
           t == ValueEnds(g)
           now == ValueContinued(s.header_state, ch)
           u == [s EXCEPT !.header_state = now]
<1>1. header_value(s, ch) \in {t, header_almost_done(t, ch), content_length_value(s, ch),
                               Passes(u, ch)}
  <2>1. u = [s EXCEPT !.header_state = ValueContinued(@, ch)]
    BY DEF Between, Calm, Whole, ConnField
  <2> HIDE DEF u, t
  <2> QED BY <2>1 DEF header_value, t
<1> HIDE DEF now
<1>2. Same(s, u)
  BY DEF Same, Between, Calm, Whole, ConnField
<1> HIDE DEF u
<1>3. Between(g, there)
  BY PlainProps
<1> HIDE DEF g
<1>4. Between(t, there)
  BY <1>3, EndsProps
<1> HIDE DEF t
<1>5. Between(Passes(u, ch), there)
  BY <1>2, SameKept, PlainProps
<1>6. Between(content_length_value(s, ch), there)
  BY LengthProps
<1>7. Between(header_almost_done(t, ch), there)
  BY <1>4, AlmostProps
<1> QED BY <1>1, <1>4, <1>5, <1>6, <1>7

\* s_header_value_lws.
LEMMA FoldProps ==
  ASSUME NEW s, NEW there \in BOOLEAN, Between(s, there), NEW ch, NEW next, NEW last
  PROVE  Between(header_value_lws(s, ch, next, last), there)
<1> DEFINE flag == [h_connection_keep_alive |-> {"F_CONNECTION_KEEP_ALIVE"},
                    h_connection_close |-> {"F_CONNECTION_CLOSE"},
                    h_transfer_encoding_chunked |-> {"F_CHUNKED"}]
           flags == s.flags \cup (IF s.header_state \in DOMAIN flag
                                  THEN flag[s.header_state] ELSE {})
           now == IF s.header_state = "h_content_length_num"
                  THEN "h_content_length_ws" ELSE s.header_state
           t == [s EXCEPT !.flags = flags, !.state = "s_header_field_start"]
           u == [s EXCEPT !.header_state = now]
<1>1. header_value_lws(s, ch, next, last) \in
        {header_field_start(t, ch, last), header_value_start(u, ch, next)}
  <2>1. t = [s EXCEPT !.flags = @ \cup (IF s.header_state \in DOMAIN flag
                                        THEN flag[s.header_state] ELSE {}),
                      !.state = "s_header_field_start"]
    <3> HIDE DEF flag
    <3> QED BY DEF Between, Calm, Whole, ConnField
  <2>2. u = [s EXCEPT !.header_state = IF @ = "h_content_length_num"
                                       THEN "h_content_length_ws" ELSE @]
    BY DEF Between, Calm, Whole, ConnField
  <2> HIDE DEF t, u
  <2> QED BY <2>1, <2>2 DEF header_value_lws
<1> HIDE DEF flags, now
<1>2. Same(s, t) /\ Same(s, u)
  BY DEF Same, Between, Calm, Whole, ConnField
<1> HIDE DEF t, u
<1>3. Between(t, there) /\ Between(u, there)
  BY <1>2, SameKept
<1> QED BY <1>1, <1>3, FieldStartProps, ValueStartProps

\* s_header_value_discard_lws.
LEMMA EmptyValueProps ==
  ASSUME NEW s, NEW there \in BOOLEAN, Between(s, there), NEW ch, NEW last
  PROVE  Between(header_value_discard_lws(s, ch, last), there)
<1> DEFINE m == Mark(s, "header_value")
           g == Goto(m, "s_header_field_start")
           t == ValueEnds(g)
<1>1. header_value_discard_lws(s, ch, last) \in
        {Goto(s, "s_header_value_discard_ws"), header_field_start(t, ch, last)}
  BY DEF header_value_discard_lws
<1>2. Between(m, there)
  BY PlainProps
<1> HIDE DEF m
<1>3. Between(g, there)
  BY <1>2, PlainProps
<1> HIDE DEF g
<1>4. Between(t, there)
  BY <1>3, EndsProps
<1> HIDE DEF t
<1> QED BY <1>1, <1>4, PlainProps, FieldStartProps

\* s_body_identity and s_chunk_data.
LEMMA BodyProps ==
  ASSUME NEW s, NEW there \in BOOLEAN, Between(s, there), NEW ch
  PROVE  Between(body_identity(s, ch), there) /\ Between(chunk_data(s, ch), there)
<1> DEFINE m == Mark(s, "body")
           less == m.content_length - 1
           u == [m EXCEPT !.content_length = less]
           t == Passes(u, ch)
           g == Goto(t, "s_message_done")
<1>1. Between(m, there)
  BY PlainProps
<1>2. u = [m EXCEPT !.content_length = @ - 1]
  <2> HIDE DEF m
  <2> QED BY <1>1 DEF Between, Calm, Whole, ConnField
<1>3. /\ body_identity(s, ch) \in {t, MessageComplete(BodyEnds(g))}
      /\ chunk_data(s, ch) \in {t, Goto(t, "s_chunk_data_almost_done")}
  <2> HIDE DEF u
  <2> QED BY <1>2 DEF body_identity, chunk_data
<1> HIDE DEF m, less
<1>4. Same(m, u)
  BY <1>1 DEF Same, Between, Calm, Whole, ConnField
<1> HIDE DEF u
<1>5. Between(t, there)
  BY <1>1, <1>4, SameKept, PlainProps
<1> HIDE DEF t
<1>6. Between(g, there)
  BY <1>5, PlainProps
<1> HIDE DEF g
<1>7. Between(MessageComplete(BodyEnds(g)), there)
  BY <1>6, EndsProps
<1> QED BY <1>3, <1>5, <1>7, PlainProps

\* The lines around the chunks.
LEMMA ChunkProps ==
  ASSUME NEW s, NEW there \in BOOLEAN, Between(s, there), NEW ch
  PROVE  /\ Between(chunk_size_start(s, ch), there)
         /\ Between(chunk_size(s, ch), there)
         /\ Between(chunk_parameters(s, ch), there)
         /\ Between(chunk_size_almost_done(s, ch), there)
         /\ Between(chunk_data_almost_done(s, ch), there)
         /\ Between(chunk_data_done(s, ch), there)
<1> DEFINE first == HexValue[ch]
           more  == 16 * s.content_length + HexValue[ch]
           begun == [s EXCEPT !.content_length = first, !.state = "s_chunk_size"]
           long  == [s EXCEPT !.content_length = more]
           trail == s.flags \cup {"F_TRAILING"}
           ended == [s EXCEPT !.nread = 0, !.flags = trail, !.state = "s_header_field_start"]
           data  == [s EXCEPT !.nread = 0, !.state = "s_chunk_data"]
           next  == [s EXCEPT !.nread = 0, !.state = "s_chunk_size_start"]
           g     == Goto(s, "s_chunk_data_done")
<1>1. chunk_size_start(s, ch) \in {Fails(s, "INVALID_CHUNK_SIZE"), begun}
  BY DEF chunk_size_start
<1>2. chunk_size(s, ch) \in {Goto(s, "s_chunk_size_almost_done"), Goto(s, "s_chunk_parameters"),
                             Fails(s, "INVALID_CONTENT_LENGTH"), long,
                             Fails(s, "INVALID_CHUNK_SIZE")}
  <2>1. long = [s EXCEPT !.content_length = 16 * @ + HexValue[ch]]
    BY DEF Between, Calm, Whole, ConnField
  <2> HIDE DEF long
  <2> QED BY <2>1 DEF chunk_size
<1>3. chunk_size_almost_done(s, ch) \in {Fails(s, "STRICT"), ended, data}
  <2>1. ended = [s EXCEPT !.nread = 0, !.flags = @ \cup {"F_TRAILING"},
                          !.state = "s_header_field_start"]
    BY DEF Between, Calm, Whole, ConnField
  <2> HIDE DEF ended
  <2> QED BY <2>1 DEF chunk_size_almost_done
<1>4. /\ chunk_data_almost_done(s, ch) \in {Fails(s, "STRICT"), BodyEnds(g)}
      /\ chunk_data_done(s, ch) \in {Fails(s, "STRICT"), next}
  BY DEF chunk_data_almost_done, chunk_data_done
<1> HIDE DEF first, more, trail
<1>5. Same(s, begun) /\ Same(s, long) /\ Same(s, ended) /\ Same(s, data) /\ Same(s, next)
  BY DEF Same, Between, Calm, Whole, ConnField
<1> HIDE DEF begun, long, ended, data, next
<1>6. Between(g, there)
  BY PlainProps
<1> HIDE DEF g
<1>7. Between(chunk_size_start(s, ch), there)
  BY <1>1, <1>5, SameKept, PlainProps
<1>8. Between(chunk_size(s, ch), there)
  BY <1>2, <1>5, SameKept, PlainProps
<1>9. Between(chunk_parameters(s, ch), there)
  BY PlainProps DEF chunk_parameters
<1>10. Between(chunk_size_almost_done(s, ch), there)
  BY <1>3, <1>5, SameKept, PlainProps
<1>11. Between(chunk_data_almost_done(s, ch), there)
  BY <1>4, <1>6, EndsProps, PlainProps
<1>12. Between(chunk_data_done(s, ch), there)
  BY <1>4, <1>5, SameKept, PlainProps
<1> QED BY <1>7, <1>8, <1>9, <1>10, <1>11, <1>12

\* One byte.
LEMMA ByteProps ==
  ASSUME NEW s, NEW there \in BOOLEAN, Between(s, there), NEW ch, NEW next
  PROVE  Between(Byte(s, ch, next), there)
<1> DEFINE last == next = ""
<1>1. Byte(s, ch, next) \in
        {s, Fails(s, "CLOSED_CONNECTION"), start_req(s, ch), req_method(s, ch),
         spaces_before_url(s, ch), before_server(s, ch), server_path_query(s, ch),
         http_version(s, ch), http_end(s, ch), line_almost_done(s, ch),
         header_field_start(s, ch, last), header_field(s, ch),
         header_value_discard_ws(s, ch, next), header_value(s, ch), header_almost_done(s, ch),
         header_value_lws(s, ch, next, last), header_value_discard_ws_almost_done(s, ch),
         header_value_discard_lws(s, ch, last), headers_almost_done(s, ch, last),
         Fails(s, "STRICT"), headers_done(s, last), body_identity(s, ch), MessageComplete(s),
         chunk_size_start(s, ch), chunk_size(s, ch), chunk_parameters(s, ch),
         chunk_size_almost_done(s, ch), chunk_data(s, ch), chunk_data_almost_done(s, ch),
         chunk_data_done(s, ch), Fails(s, "INVALID_INTERNAL_STATE")}
  BY DEF Byte
<1> HIDE DEF last
<1>2. /\ Between(start_req(s, ch), there) /\ Between(req_method(s, ch), there)
      /\ Between(spaces_before_url(s, ch), there) /\ Between(before_server(s, ch), there)
      /\ Between(server_path_query(s, ch), there) /\ Between(http_version(s, ch), there)
      /\ Between(http_end(s, ch), there) /\ Between(line_almost_done(s, ch), there)
  BY StartReqProps, MethodProps, SpacesProps, BeforeServerProps, PathProps, VersionProps
<1>3. /\ Between(header_field_start(s, ch, last), there) /\ Between(header_field(s, ch), there)
      /\ Between(header_value_discard_ws(s, ch, next), there) /\ Between(header_value(s, ch), there)
      /\ Between(header_almost_done(s, ch), there)
      /\ Between(header_value_lws(s, ch, next, last), there)
      /\ Between(header_value_discard_ws_almost_done(s, ch), there)
      /\ Between(header_value_discard_lws(s, ch, last), there)
      /\ Between(headers_almost_done(s, ch, last), there) /\ Between(headers_done(s, last), there)
  BY FieldStartProps, FieldProps, DiscardProps, ValueProps, AlmostProps, FoldProps,
     EmptyValueProps, HeadersAlmostProps, HeadersDoneProps
<1>4. /\ Between(body_identity(s, ch), there) /\ Between(chunk_data(s, ch), there)
      /\ Between(MessageComplete(s), there)
      /\ Between(chunk_size_start(s, ch), there) /\ Between(chunk_size(s, ch), there)
      /\ Between(chunk_parameters(s, ch), there) /\ Between(chunk_size_almost_done(s, ch), there)
      /\ Between(chunk_data_almost_done(s, ch), there) /\ Between(chunk_data_done(s, ch), there)
  BY BodyProps, EndsProps, ChunkProps
<1>5. /\ Between(Fails(s, "CLOSED_CONNECTION"), there) /\ Between(Fails(s, "STRICT"), there)
      /\ Between(Fails(s, "INVALID_INTERNAL_STATE"), there)
  BY PlainProps
<1> QED BY <1>1, <1>2, <1>3, <1>4, <1>5

\* The byte is counted, and the distance from url_start_mark grows.
LEMMA CountedProps ==
  ASSUME NEW s, NEW there \in BOOLEAN, Between(s, there), NEW ch, NEW next
  PROVE  Between(Counted(s, ch, next), there)
<1> DEFINE more == s.nread + 1
           n == [s EXCEPT !.nread = more]
           t == IF s.state \in BodyState THEN s ELSE n
           u == IF t.nread > MaxHeader THEN Fails(t, "HEADER_OVERFLOW") ELSE Byte(t, ch, next)
<1>1. Counted(s, ch, next) = Moves(u)
  <2>1. n = [s EXCEPT !.nread = @ + 1]
    BY DEF Between, Calm, Whole, ConnField
  <2> HIDE DEF n
  <2> QED BY <2>1 DEF Counted
<1> HIDE DEF more
<1>2. Same(s, n)
  BY DEF Same, Between, Calm, Whole, ConnField
<1> HIDE DEF n
<1>3. Between(t, there)
  BY <1>2, SameKept
<1> HIDE DEF t
<1>4. Between(u, there)
  BY <1>3, PlainProps, ByteProps
<1> HIDE DEF u
<1>5. Same(u, Moves(u))
  BY <1>4 DEF Moves, Same, Between, Calm, Whole, ConnField
<1> QED BY <1>1, <1>4, <1>5, SameKept

\* A token of a read, if the parser has not left it.
LEMMA StepProps ==
  ASSUME NEW s, NEW there \in BOOLEAN, Between(s, there), NEW data, NEW i
  PROVE  Between(Step(s, data, i), there)
<1> DEFINE next == IF i = Len(data) THEN "" ELSE data[i + 1]
           ch == data[i]
<1>1. Step(s, data, i) \in {s, Counted(s, ch, next)}
  BY DEF Step
<1> HIDE DEF next, ch
<1> QED BY <1>1, CountedProps

\* The marks a read begins with.
LEMMA MarksProps ==
  ASSUME NEW s, NEW there \in BOOLEAN, Between(s, there)
  PROVE  Between(Marks(s), there)
<1> DEFINE mark == CASE s.state = "s_header_field" -> "header_field"
                     [] s.state = "s_header_value" -> "header_value"
                     [] s.state \in UrlState       -> "url"
                     [] OTHER                      -> "none"
           t == [s EXCEPT !.exited = FALSE, !.unread = FALSE, !.url_start = Unknown,
                          !.marked = <<>>, !.mark = mark]
<1>1. Marks(s) = t
  BY DEF Marks
<1> HIDE DEF mark
<1>2. Same(s, t)
  BY DEF Same, Between, Calm, Whole, ConnField
<1> QED BY <1>1, <1>2, SameKept

\* The pieces a read ends in.
LEMMA ReadEndsProps ==
  ASSUME NEW s, NEW there \in BOOLEAN, Between(s, there)
  PROVE  Between(ReadEnds(s), there)
<1> DEFINE n == NameEnds(s)
           v == ValueEnds(n)
           u == UrlEnds(v)
<1>1. Between(n, there)
  BY EndsProps
<1> HIDE DEF n
<1>2. Between(v, there)
  BY <1>1, EndsProps
<1> HIDE DEF v
<1>3. Between(u, there)
  BY <1>2, EndsProps
<1> HIDE DEF u
<1>4. Between(BodyEnds(u), there)
  BY <1>3, EndsProps
<1> QED BY <1>4 DEF ReadEnds, u, v, n

\* The order of Nat as a relation, for the induction theorems.
LessNat == {ss \in Nat \X Nat : ss[1] < ss[2]}

\* Induction over Nat: a set that holds 0 and n + 1 with n holds all.
LEMMA NatInd == ASSUME NEW S \in SUBSET Nat, 0 \in S, \A n \in S : n + 1 \in S PROVE S = Nat
<1> SUFFICES ASSUME Nat \ S # {} PROVE FALSE
  OBVIOUS
<1>1. IsWellFoundedOn(LessNat, Nat)
  BY NatLessThanWellFounded DEF OpToRel, LessNat
<1>2. PICK x \in Nat \ S : \A y \in Nat \ S : ~(<<y, x>> \in LessNat)
  <2>1. Nat \ S \in SUBSET Nat
    OBVIOUS
  <2> QED BY <1>1, <2>1, WFMin
<1>3. x # 0 /\ x - 1 \in Nat /\ x - 1 < x
  OBVIOUS
<1>4. <<x - 1, x>> \in LessNat
  BY <1>3 DEF LessNat
<1>5. x - 1 \in S
  BY <1>2, <1>3, <1>4
<1>6. (x - 1) + 1 = x
  OBVIOUS
<1> QED BY <1>5, <1>6

\* A function, of this domain.
IsFn(f, D) == f = [i \in D |-> f[i]]

\* The connection after each token of a read.
After(s, data, n, f) ==
  /\ IsFn(f, 0..n) /\ DOMAIN f = 0..n
  /\ f[0] = Marks(s)
  /\ \A i \in 1..n : f[i] = Step(f[i - 1], data, i)

\* There is such a function, of any length.
LEMMA AfterExists ==
  ASSUME NEW s, NEW data, NEW N \in Nat
  PROVE  \E f : After(s, data, N, f)
<1> DEFINE S == {n \in Nat : \E f : After(s, data, n, f)}
<1>1. 0 \in S
  <2> DEFINE f == [i \in 0..0 |-> Marks(s)]
  <2>1. IsFn(f, 0..0)
    BY DEF IsFn
  <2>2. DOMAIN f = 0..0 /\ f[0] = Marks(s)
    OBVIOUS
  <2> HIDE DEF f
  <2>3. After(s, data, 0, f)
    BY <2>1, <2>2 DEF After
  <2> QED BY <2>3
<1>2. ASSUME NEW n \in S PROVE n + 1 \in S
  <2>1. PICK f : After(s, data, n, f)
    OBVIOUS
  <2> DEFINE g == [i \in 0..(n + 1) |-> IF i <= n THEN f[i] ELSE Step(f[n], data, n + 1)]
  <2>2. DOMAIN g = 0..(n + 1) /\ g[0] = Marks(s)
    BY <2>1 DEF After
  <2>3. ASSUME NEW i \in 1..(n + 1) PROVE g[i] = Step(g[i - 1], data, i)
    <3>1. CASE i <= n
      <4>1. i \in 1..n /\ g[i] = f[i] /\ g[i - 1] = f[i - 1]
        BY <3>1
      <4> QED BY <2>1, <4>1 DEF After
    <3>2. CASE i = n + 1
      <4>1. g[n + 1] = Step(f[n], data, n + 1) /\ g[n] = f[n] /\ i - 1 = n
        BY <3>2
      <4> QED BY <3>2, <4>1
    <3> QED BY <3>1, <3>2
  <2>4. IsFn(g, 0..(n + 1))
    BY DEF IsFn
  <2> HIDE DEF g
  <2>5. After(s, data, n + 1, g)
    BY <2>2, <2>3, <2>4 DEF After
  <2> QED BY <2>5
<1> HIDE DEF S
<1>3. S = Nat
  <2>1. S \in SUBSET Nat
    BY DEF S
  <2> QED BY <1>1, <1>2, <2>1, NatInd
<1> QED BY <1>3 DEF S

\* A whole read: http_parser_execute goes through its tokens, however many there are.
LEMMA ExecuteProps ==
  ASSUME NEW s, NEW there \in BOOLEAN, Between(s, there), NEW data, Len(data) \in Nat
  PROVE  Between(http_parser_execute(s, data), there)
<1> DEFINE N == Len(data)
           Is(f) == f = [i \in 0..Len(data) |-> IF i = 0 THEN Marks(s) ELSE Step(f[i - 1], data, i)]
           after == CHOOSE f : Is(f)
<1>1. http_parser_execute(s, data) = IF s.errno # "OK" THEN s ELSE ReadEnds(after[Len(data)])
  BY DEF http_parser_execute
<1>2. PICK f : After(s, data, N, f)
  BY AfterExists
<1>3. Is(f)
  <2>1. ASSUME NEW i \in 0..N
        PROVE  f[i] = IF i = 0 THEN Marks(s) ELSE Step(f[i - 1], data, i)
    BY <1>2 DEF After
  <2>2. [i \in 0..N |-> f[i]] = [i \in 0..N |-> IF i = 0 THEN Marks(s) ELSE Step(f[i - 1], data, i)]
    BY <2>1
  <2>3. f = [i \in 0..N |-> f[i]]
    BY <1>2 DEF After, IsFn
  <2> QED BY <2>2, <2>3, Zenon
<1>4. Is(after)
  <2> HIDE DEF Is
  <2> QED BY <1>3
<1> HIDE DEF after
<1>5. After(s, data, N, after)
  <2> DEFINE h == [i \in 0..N |-> IF i = 0 THEN Marks(s) ELSE Step(after[i - 1], data, i)]
  <2>1. after = h
    BY <1>4
  <2>2. IsFn(h, 0..N) /\ DOMAIN h = 0..N /\ h[0] = Marks(s)
    BY DEF IsFn
  <2>3. ASSUME NEW i \in 1..N PROVE h[i] = Step(after[i - 1], data, i)
    OBVIOUS
  <2> HIDE DEF h, Is
  <2> QED BY <2>1, <2>2, <2>3 DEF After
<1> HIDE DEF Is
<1> DEFINE T == {n \in Nat : n <= N => Between(after[n], there)}
<1>6. 0 \in T
  BY <1>5, MarksProps DEF After
<1>7. ASSUME NEW n \in T PROVE n + 1 \in T
  <2> SUFFICES ASSUME n + 1 <= N PROVE Between(after[n + 1], there)
    OBVIOUS
  <2> DEFINE t == after[n]
  <2>1. Between(t, there) /\ n + 1 \in 1..N /\ (n + 1) - 1 = n
    OBVIOUS
  <2>2. after[n + 1] = Step(t, data, n + 1)
    BY <1>5, <2>1 DEF After
  <2> HIDE DEF t
  <2> QED BY <2>1, <2>2, StepProps
<1> HIDE DEF T
<1>8. T = Nat
  <2>1. T \in SUBSET Nat
    BY DEF T
  <2> QED BY <1>6, <1>7, <2>1, NatInd
<1> DEFINE t == after[N]
<1>9. Between(t, there)
  BY <1>8 DEF T
<1> HIDE DEF t, N
<1> QED BY <1>1, <1>9, ReadEndsProps DEF t, N

\* feed, on some tokens.
LEMMA FeedProps ==
  ASSUME NEW s, NEW there \in BOOLEAN, Between(s, there), NEW data, Len(data) \in Nat
  PROVE  Between(feed(s, data), there)
  BY ExecuteProps DEF feed

-----------------------------------------------------------------------------
(* The connection, callback by callback. *)

\* What CInv says of a connection that is closed, or has its read and its deadline.
Resting(s, there) ==
  /\ Whole(s) /\ ~s.need_to_call_after_handlers /\ ~s.continue_requested
  /\ Heard(s, there) /\ Finished(s, there)

\* ReadFailed closes the connection and changes nothing else.
LEMMA FailedProps ==
  ASSUME NEW s, NEW there \in BOOLEAN, Whole(s), ~s.need_to_call_after_handlers,
         ~s.continue_requested
  PROVE  Resting(ReadFailed(s), there) /\ ~ReadFailed(s).is_open
<1> DEFINE d == ParserDone(s)
<1>1. Whole(d) /\ ~d.need_to_call_after_handlers /\ ~d.continue_requested
  BY DEF ParserDone, Whole, ConnField
<1> HIDE DEF d
<1>2. ReadFailed(s) = [d EXCEPT !.deadline = FALSE, !.is_open = FALSE]
  BY DEF ReadFailed, d
<1> QED BY <1>1, <1>2 DEF Resting, Whole, ConnField, Heard, Finished

\* The end of a read's callback: the connection is closed, or it reads again with its deadline
\* armed and, while the peer is there, without an error.
LEMMA AfterReadProps ==
  ASSUME NEW s, NEW there \in BOOLEAN, Between(s, there)
  PROVE  LET t == AfterRead(s)
         IN /\ Resting(t, there)
            /\ t.is_open => ReadsAgain(s) /\ t.deadline
            /\ t.is_open /\ there => t.errno = "OK"
<1> DEFINE open == s.is_open /\ s.deadline
           u == [s EXCEPT !.is_open = open]
           v == [s EXCEPT !.deadline = TRUE]
<1>1. CASE s.thrown
  <2>1. AfterRead(s) = u
    <3>1. u = [s EXCEPT !.is_open = @ /\ s.deadline]
      BY DEF Between, Calm, Whole, ConnField
    <3> QED BY <1>1, <3>1 DEF AfterRead
  <2>2. ~open
    BY <1>1 DEF Between, Calm
  <2> HIDE DEF open
  <2>3. Resting(u, there) /\ ~u.is_open
    BY <2>2 DEF Resting, Between, Calm, Finished, Whole, ConnField, Heard
  <2> QED BY <2>1, <2>3
<1>2. CASE ~s.thrown /\ (~(Accepted(s) /\ s.is_open) \/ s.close_connection)
  <2>1. AfterRead(s) = ReadFailed(s)
    BY <1>2 DEF AfterRead
  <2> QED BY <2>1, FailedProps DEF Between, Calm
<1>3. CASE ~s.thrown /\ Accepted(s) /\ s.is_open /\ ~s.close_connection
  <2>1. AfterRead(s) = v
    BY <1>3 DEF AfterRead, Between, Calm
  <2>2. Resting(v, there) /\ v.deadline /\ v.errno = s.errno
    BY DEF Resting, Between, Calm, Finished, Whole, ConnField, Heard
  <2>3. ReadsAgain(s)
    BY <1>3 DEF ReadsAgain, Between, Calm
  <2>4. there => s.errno = "OK"
    BY <1>3 DEF Accepted, Between, Finished
  <2> QED BY <2>1, <2>2, <2>3, <2>4
<1> QED BY <1>1, <1>2, <1>3

\* The invariant, in the terms of the lemmas above.
LEMMA InvIs ==
  CInv <=> /\ Resting(conn, peer = "open")
           /\ ~started => ~reading /\ conn.errno = "OK"
           /\ Watched
  BY DEF CInv, Resting

\* Initially.
LEMMA InitInv == Init => CInv
<1> SUFFICES ASSUME Init PROVE CInv
  OBVIOUS
<1>1. DOMAIN NewResponse = ResField /\ DOMAIN NewConnection = ConnField
  BY DEF NewResponse, NewConnection, ResField, ConnField
<1>2. /\ conn.res = NewResponse /\ conn.errno = "OK" /\ conn.fails = "no"
      /\ ~conn.need_to_call_after_handlers /\ ~conn.continue_requested
      /\ ~conn.message_complete
  BY DEF Init, NewConnection
<1> QED BY <1>1, <1>2 DEF Init, CInv, Whole, Heard, Finished, Watched

\* start().
LEMMA StartInv == CInv /\ Start => CInv'
<1> SUFFICES ASSUME CInv, Start PROVE CInv'
  OBVIOUS
<1>1. PICK t : t = [conn EXCEPT !.deadline = TRUE]
  OBVIOUS
<1>2. /\ Whole(t) /\ t.deadline /\ t.errno = conn.errno /\ t.fails = conn.fails
      /\ t.is_open = conn.is_open /\ ~t.need_to_call_after_handlers /\ ~t.continue_requested
  BY <1>1 DEF CInv, Whole, ConnField
<1>3. PICK u : u = ParserClear(t)
  OBVIOUS
<1>4. u.errno = t.errno
  BY <1>2, <1>3 DEF ParserClear, Whole, ConnField
<1>5. /\ Whole(u) /\ ~u.message_complete /\ u.deadline /\ u.fails = t.fails
      /\ u.is_open = t.is_open /\ ~u.need_to_call_after_handlers /\ ~u.continue_requested
  BY <1>2, <1>3, ClearedProps
<1>6. conn' = u /\ started' /\ reading' /\ peer' = peer /\ conn.errno = "OK"
  BY <1>1, <1>3 DEF Start, CInv
<1>7. Heard(u, peer = "open")
  BY <1>2, <1>5 DEF CInv, Heard
<1> QED BY <1>2, <1>4, <1>5, <1>6, <1>7 DEF CInv, Watched, Heard, Finished

\* do_read's callback on some bytes.
LEMMA ReadInv == ASSUME CInv, NEW n, Read(n) PROVE CInv'
<1>1. started /\ n \in Nat
  <2>1. n \in 1..Len(wire) /\ reading
    BY DEF Read
  <2> QED BY <2>1 DEF CInv
<1>2. PICK c : c = [conn EXCEPT !.thrown = FALSE]
  OBVIOUS
<1>3. PICK there \in BOOLEAN : there = (peer = "open")
  OBVIOUS
<1>4. Between(c, there)
  BY <1>2, <1>3 DEF CInv, Between, Calm, Finished, Whole, ConnField, Heard
<1>5. PICK data : data = SubSeq(wire, 1, n)
  OBVIOUS
<1>6. Len(data) \in Nat
  BY <1>1, <1>5
<1>7. PICK s : s = feed(c, data)
  OBVIOUS
<1>8. Between(s, there)
  BY <1>4, <1>6, <1>7, FeedProps
<1>9. conn' = AfterRead(s) /\ reading' = ReadsAgain(s) /\ started' = started /\ peer' = peer
  BY <1>2, <1>5, <1>7 DEF Read
<1>10. PICK t : t = AfterRead(s)
  OBVIOUS
<1>11. /\ Resting(t, there)
       /\ t.is_open => ReadsAgain(s) /\ t.deadline
       /\ t.is_open /\ there => t.errno = "OK"
  BY <1>8, <1>10, AfterReadProps
<1> QED BY <1>1, <1>3, <1>9, <1>10, <1>11 DEF CInv, Resting, Watched

\* The callbacks that close the connection: a failed read's, and the deadline's.
LEMMA ClosedInv ==
  ASSUME CInv, NEW t, Resting(t, peer = "open"), ~t.is_open,
         conn' = t, started' = started, peer' = peer,
         ~started => ~reading' /\ t.errno = "OK"
  PROVE  CInv'
  BY DEF CInv, Resting, Watched

\* A step of the peer.
LEMMA PeerInv == CInv /\ PeerCloses => CInv'
<1> SUFFICES ASSUME CInv, PeerCloses PROVE CInv'
  OBVIOUS
<1>1. PICK f : conn' = [conn EXCEPT !.fails = f]
  BY DEF PeerCloses
<1>2. peer' # "open" /\ started' = started /\ reading' = reading
  BY DEF PeerCloses
<1>3. PICK t : t = [conn EXCEPT !.fails = f]
  OBVIOUS
<1>4. /\ Whole(t) /\ ~t.need_to_call_after_handlers /\ ~t.continue_requested
      /\ t.errno = conn.errno /\ t.is_open = conn.is_open /\ t.deadline = conn.deadline
  BY <1>3 DEF CInv, Whole, ConnField
<1> QED BY <1>1, <1>2, <1>3, <1>4 DEF CInv, Heard, Finished, Watched

\* Every step keeps the invariant.
LEMMA StepInv == CInv /\ [Next]_vars => CInv'
<1> SUFFICES ASSUME CInv, [Next]_vars PROVE CInv'
  OBVIOUS
<1>1. CASE Start
  BY <1>1, StartInv
<1>2. CASE \E n \in Cuts \cup {Len(wire)} : Read(n)
  BY <1>2, ReadInv
<1>3. CASE ReadError
  <2>1. PICK t : t = ReadFailed(conn)
    OBVIOUS
  <2>2. Resting(t, peer = "open") /\ ~t.is_open
    BY <2>1, FailedProps DEF CInv
  <2>3. conn' = t /\ started' = started /\ peer' = peer /\ started
    BY <1>3, <2>1 DEF ReadError, CInv
  <2> QED BY <2>2, <2>3, ClosedInv
<1>4. CASE Deadline
  <2>1. PICK t : t = [conn EXCEPT !.deadline = FALSE, !.is_open = FALSE]
    OBVIOUS
  <2>2. Resting(t, peer = "open") /\ ~t.is_open /\ t.errno = conn.errno
    BY <2>1 DEF CInv, Resting, Whole, ConnField, Heard, Finished
  <2>3. conn' = t /\ started' = started /\ peer' = peer /\ reading' = reading
    BY <1>4, <2>1 DEF Deadline
  <2>4. ~started => ~reading' /\ t.errno = "OK"
    BY <2>2, <2>3 DEF CInv
  <2> QED BY <2>2, <2>3, <2>4, ClosedInv
<1>5. CASE PeerCloses
  BY <1>5, PeerInv
<1>6. CASE UNCHANGED vars
  BY <1>6 DEF vars, CInv, Whole, Heard, Finished, Watched
<1>7. CASE Ended_
  BY <1>6, <1>7 DEF Ended_
<1> QED BY <1>1, <1>2, <1>3, <1>4, <1>5, <1>6, <1>7 DEF Next

\* Between two callbacks of a connection nobody is left to be called, no exception is on its way
\* with a deadline armed, and a message is complete only where the connection closes.
THEOREM ConnectionInvariant == Spec => []CInv
  BY InitInv, StepInv, PTL DEF Spec

\* An open connection has a read pending and a deadline armed, and while its peer is there its
\* parser has met no error, whatever the peer sends and however the reads cut it.
THEOREM WatchedAlways == Spec => []Watched
<1>1. CInv => Watched
  BY DEF CInv
<1> QED BY <1>1, ConnectionInvariant, PTL
=============================================================================
