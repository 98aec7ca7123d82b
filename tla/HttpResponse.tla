---------------------------- MODULE HttpResponse ----------------------------
(***************************************************************************)
(* crow::response (http_response.h): the one response object a connection  *)
(* keeps and every request it serves writes into.  What survives from one  *)
(* request to the next is what assignment and clear() leave alone.         *)
(*                                                                         *)
(* A body is a name; the empty body is "".  The value of a Content-Length  *)
(* header is the body it was computed from, so that a response is well     *)
(* framed when it carries the body its length was taken from.              *)
(***************************************************************************)
EXTENDS Integers, Sequences

Codes == {100, 101, 200, 201, 202, 203, 204, 205, 206, 300, 301, 302, 303, 304, 307, 308,
          400, 401, 403, 404, 405, 406, 407, 409, 410, 413, 414, 415, 416, 417, 428, 429, 451,
          500, 501, 502, 503, 504, 506}

\* A fresh response; handler says whether complete_request_handler_ is set.
NewResponse == [code |-> 200, body |-> "", headers |-> {}, file |-> "",
                skip_body |-> FALSE, manual_length |-> FALSE,
                completed |-> FALSE, handler |-> FALSE]

\* *this = response(code, body): the move assignment.
Assign(res, code, body) ==
  [res EXCEPT !.code = code, !.body = body, !.headers = {}, !.file = "", !.completed = FALSE]

clear(res) ==
  [res EXCEPT !.code = 200, !.body = "", !.headers = {}, !.file = "", !.completed = FALSE]

Names(res) == {h[1] : h \in res.headers}

add_header(res, name, value) == [res EXCEPT !.headers = @ \cup {<<name, value>>}]

set_header(res, name, value) ==
  [res EXCEPT !.headers = {h \in @ : h[1] # name} \cup {<<name, value>>}]

\* end() up to the call of complete_request_handler_, on a response that is not completed.
Ended(res) ==
  IF res.skip_body
  THEN [set_header([res EXCEPT !.completed = TRUE], "content-length", res.body)
          EXCEPT !.body = "", !.manual_length = TRUE]
  ELSE [res EXCEPT !.completed = TRUE]

\* Mutant: the response after one to a HEAD request has no body either.
AfterHandler_keepsSkip(res) == [res EXCEPT !.manual_length = FALSE]

\* What end() resets once the handler has been called.
AfterHandler(res) == [res EXCEPT !.manual_length = FALSE, !.skip_body = FALSE]

\* A regular file becomes the response; any other path is a 404.
set_static_file_info(res, file, exists) ==
  IF exists
  THEN add_header([res EXCEPT !.code = 200, !.file = file], "content-length", file)
  ELSE [res EXCEPT !.code = 404, !.file = ""]

is_static_type(res) == res.file # ""

\* write_header_into_buffer: the status line and headers as sent, and the body as it will follow.
HeaderWritten(res) ==
  LET code == IF res.code \in Codes THEN res.code ELSE 500
  IN [res EXCEPT !.code = code,
                 !.body = IF code >= 400 /\ @ = "" THEN "status text" ELSE @]

\* The length the peer will believe, none when no header states one.
StatedLength(res) ==
  IF "content-length" \in Names(res)
  THEN (CHOOSE h \in res.headers : h[1] = "content-length")[2]
  ELSE IF res.manual_length THEN "none" ELSE res.body
=============================================================================
