----------------------------- MODULE MCRequests -----------------------------
(* The routes on small instances: every table of three rules out of a pool, *)
(* to be looked up only, and the server's own, with databases that are      *)
(* empty or hold a few entries.                                             *)
EXTENDS Requests

Patterns ==
  {<<"/">>, <<"/", "a">>, <<"/", "a", "/">>, <<"/", "a", "b">>, <<"/", "a", "b", "b">>, <<"/", "<int>">>,
   <<"/", "<uint>">>, <<"/", "<double>">>, <<"/", "<string>">>, <<"/", "<path>">>, <<"/", "a", "<int>">>,
   <<"/", "<int>", "a">>, <<"/", "<string>", "/", "b">>, <<"/", "<string>", "/">>}

Get(url) == Rule("GET", url, "page")

MCTables == {<<Get(p), Get(q), Get(r)>> : p, q, r \in Patterns} \cup {AppRules}

MCUrls ==
  {<<"/">> \o s : s \in
    {<<>>, <<"a">>, <<"a", "/">>, <<"a", "b">>, <<"a", "b", "b">>, <<"a", "b", "/">>, <<"a", "b", "/", "b">>,
     <<"a", "/", "b">>, <<"a", "1">>, <<"a", "1", "2">>, <<"a", "-", "1">>, <<"1">>, <<"1", "2", "2">>,
     <<"-", "1">>, <<"+", "1">>, <<"-", "a">>, <<"1", "a">>, <<"1", ".", "2">>, <<".", "2">>,
     <<"-", ".", "1", ".">>, <<"1", "/">>, <<"1", "/", "b">>, <<"/">>, <<"a", "a">>, <<"b">>,
     <<"log">>, <<"log", "in">>, <<"log", "s">>, <<"log", "s", "/", "1">>,
     <<"static", "/">>, <<"static", "/", "a", "/", "b">>,
     <<"api", "/", "project", "s", "/", "1">>, <<"api", "/", "project", "s", "/", "1", "/", "settings">>,
     <<"api", "/", "admin", "/", "users">>, <<"api", "/", "admin", "/", "users", "/", "1">>}}

User(n, email, role, active) ==
  [id |-> n, email |-> email, password |-> <<"x">>, username |-> <<"y">>, role |-> role, active |-> active]

Project(n, user) ==
  [id |-> n, user_id |-> user, name |-> <<"x">>, api_key |-> n, fast |-> 100, normal |-> 500]

Trace(n, project, duration, ram) ==
  [id |-> n, project_id |-> project, func |-> <<"x">>, message |-> <<"y">>, version |-> <<"v1">>,
   duration |-> duration, ram |-> ram, call |-> 0]

MCDatabases ==
  {[users |-> <<>>, projects |-> <<>>, traces |-> <<>>],
   [users |-> <<User(1, <<"x">>, 2, TRUE), User(2, <<"y", "&">>, 2, FALSE)>>,
    projects |-> <<>>, traces |-> <<>>],
   [users |-> <<User(1, <<"x">>, 2, TRUE), User(2, <<"y", "&">>, 0, TRUE)>>,
    projects |-> <<Project(1, 1), Project(2, 2)>>,
    traces |-> <<Trace(1, 1, 12, 2), Trace(2, 1, 2, 0), Trace(3, 1, 1, 2), Trace(4, 2, 2, 1)>>]}

Mixed == <<"x", "&", "+", "%", " ", "=">>

MCForms ==
  {[page |-> "register", email |-> e, password |-> p, username |-> <<"y", "\"">>] :
     e \in {<<"x">>, Mixed}, p \in {<<"x">>, <<"%", "2", "0">>, <<>>}}
  \cup {[page |-> "login", email |-> e, password |-> p] :
          e \in {<<"x">>, <<"y", "&">>, Mixed}, p \in {<<"x">>, <<"%", "2", "0">>}}
  \cup {[page |-> "create", user |-> u, name |-> n] : u \in {1, 2}, n \in {<<"x", "y">>, Mixed}}
  \cup {[page |-> "settings", project |-> n, fast |-> 1, normal |-> 2] : n \in {1, 2}}
  \cup {[page |-> "delete", project |-> n] : n \in {1, 2}}
  \cup {[page |-> "saveSettings", fast |-> 1, normal |-> 2], [page |-> "confirmDelete"]}
  \cup {[page |-> "role", admin |-> a, user |-> u, role |-> r] : a \in {1, 2}, u \in {1, 2}, r \in {0, 2}}
  \cup {[page |-> "deactivate", admin |-> a, user |-> u] : a \in {1, 2}, u \in {1, 2}}
  \cup {[page |-> "users", admin |-> a] : a \in {1, 2}}
  \cup {[page |-> "projects", user |-> u] : u \in {1, 2}}
  \cup {[page |-> p, project |-> n] : p \in {"logs", "stats"}, n \in {1, 2}}
  \cup {[page |-> "query", key |-> k, limit |-> l, sort_by |-> s, order |-> o] :
          k \in {0, 1}, l \in {1, 2}, s \in {"d", "r", "f"}, o \in {"desc", "asc"}}

Post(url, key, body) == Request("POST", url, key, body)
Plainly(url)         == Request("GET", url, 0, <<>>)
File(path)           == Plainly(<<"/", "static", "/">> \o path)

MCRaw ==
  {Plainly(<<"/">>), Plainly(<<"/", "health">>), Plainly(<<"/", "1">>), Plainly(<<"/", "log">>),
   Request("HEAD", <<"/", "log", "in">>, 0, <<>>), Request("OPTIONS", <<"/", "log">>, 0, <<>>),
   Request("DELETE", Api(<<"project", "/", "1", "2">>), 0, <<>>),
   Request("PUT", Api(<<"project", "/", "1", "/", "settings">>), 0, <<"?", "f", "=", "1", "&", "n">>),
   Request("PUT", Api(<<"project", "/", "2", "/", "settings">>), 0, <<"?", "n", "=", "1", "&", "f", "=", "2", "&", "n", "=", "0">>),
   Request("PUT", Admin(<<"/", "2", "/", "role">>), 0, <<"a", "=", "1">>),
   Request("PUT", Admin(<<"/", "2", "/", "role">>), 0, <<"a", "=", "1", "&", "r", "=", "x">>),
   Request("PUT", Admin(<<"/", "2", "/", "role">>), 0, <<"r", "=", "+", "1", "x", "&", "a", "=", " ", "1">>),
   Request("PUT", Admin(<<"/", "2", "/", "role">>), 0, <<"r", "=", "-", "1", "&", "a", "=", "1">>),
   Request("DELETE", Admin(<<"/", "2">>), 0, <<>>),
   Plainly(Admin(<<>>)), Plainly(Admin(<<"?", "a", "=", "x">>)), Plainly(Admin(<<"#", "a", "=", "1">>)),
   Plainly(<<"/", "query", "/", "advanced", "?", "l", "=", "1", "2">>),
   Plainly(<<"/", "query", "/", "advanced", "?", "s", "&", "l", "=", "-", "1">>),
   Post(Api(<<"project", "/", "create">>), 0, <<"n", "=", "x", "&", "u", "=", "x">>),
   Post(Api(<<"auth", "/", "register">>), 0, <<"e", "=", "%", "+", "2", "&", "p", "=", "x", "%", "&", "u", "=", "y">>),
   Post(Api(<<"auth", "/", "register">>), 0, <<"e", "=", "%", "0", "x", "&", "p", "=", "%", "0", "1", "&", "u", "=", "y">>),
   Post(<<"/", "log">>, 2, <<>>), Post(<<"/", "log">>, 1, <<"d", "=", "1", "2", "&", "f", "=", "x">>),
   Post(<<"/", "log">>, 0, <<"f", "=", "<", "\"", "x", "&", "r", "=", "2", "0">>),
   Post(<<"/", "log">>, 0, <<"d", "=", "-", "1">>), Post(<<"/", "log">>, 0, <<"d", "=", "2", "2", "2", "&", "f", "=", "x", "y", "x", "y">>)}
  \cup {File(p) : p \in
     {<<"x">>, <<".", ".">>, <<".", ".", "/", "x">>, <<"x", "/", ".", ".">>, <<"x", "/", ".", ".", "/", "x">>,
      <<"/", "x">>, <<"BACKSLASH", ".", ".">>, <<"x", "BACKSLASH", ".", ".", "BACKSLASH">>, <<".", ".", ".">>,
      <<"x", ".", ".">>, <<".", "/", ".", ".">>, <<"CON", ".", ".">>, <<"AUX", "/", ".", ".">>, <<":", ".", ".", "/">>,
      <<".", ".", ":", ".", ".">>, <<"x", "/", "/", ".", ".">>}}

MCSdkCalls ==
  {[func |-> <<"x">>, message |-> <<"y", " ", "x">>, duration |-> 1, ram |-> 2],
   [func |-> <<"x", "&", "d", "=", "1">>, message |-> <<"<">>, duration |-> 0, ram |-> 0]}

MCAlphabet ==
  <<" ", "\"", "#", "%", "&", "+", "-", "0", "1", "2", ";", "<", "=", "Trace", "unknown", "v1", "x", "y", "a", "l", "m", "o", "p", "q", "t", "u">>
=============================================================================
