------------------------------ MODULE Requests ------------------------------
(***************************************************************************)
(* The routes of server.cpp from the text of a request to the databases,   *)
(* the pages and the SDK that write those texts, and the start of the      *)
(* server.  One thread runs all handlers, so that a handler is one step;   *)
(* what it calls is what Accounts, Projects and TraceDB show it to be      *)
(* while the process lives.                                                *)
(*                                                                         *)
(* The names of fields are cut to a letter: f(unc), m(essage), v(ersion),  *)
(* d(uration), r(am, or role), e(mail), p(assword), u(sername, or          *)
(* user_id), n(ame, or normal_threshold), a(dmin_user_id), l(imit),        *)
(* s(ort_by), o (sort_order); fast_threshold is f.                         *)
(***************************************************************************)
EXTENDS Routes, RequestText

CONSTANTS Databases,     \* what the databases may hold at the start
          Forms,         \* what the pages may be asked to send, see RequestOf
          Raw,           \* requests of other clients
          SdkCalls,      \* what the program with the SDK may log
          FieldSize,     \* of every text field: func's 128, message's 256, version's 32, ...
          MaxDuration, MaxRam,   \* an hour, and 100 GB
          SortThreshold, \* the 16 entries up to which std::sort inserts
          Alphabet,      \* the characters of stored texts, in the order of their codes
          MaxAsks, MaxCalls      \* bounds: requests asked, calls logged

VARIABLES users, next_user_id, projects, next_project_id, traces,
          next_id,       \* of the traces: from 1 in every process
          sdk,           \* g_api_key and g_app_version
          calls,         \* history: the calls of log()
          senders,       \* the calls whose detached thread has still to send
          asks,          \* how many requests there were
          last           \* the last request and its answer, until it is sent

accountVars == <<users, next_user_id>>
projectVars == <<projects, next_project_id>>
traceVars   == <<traces, next_id>>
databases   == <<accountVars, projectVars, traceVars>>
vars == <<routeVars, databases, sdk, calls, senders, asks, last>>

None == "none"

\* No request is being answered.
Idle == [form |-> [page |-> None], code |-> 0]

-----------------------------------------------------------------------------
(* The rules, in the order server.cpp declares them; run() adds the last.  *)

Rule(method, url, handler) == [methods |-> {method}, url |-> url, kind |-> handler]

Api(path)   == <<"/", "api", "/">> \o path
Admin(path) == Api(<<"admin", "/", "users">> \o path)

AppRules ==
  <<Rule("GET", <<"/">>, "page"),
    Rule("GET", <<"/", "log", "in">>, "page"),
    Rule("GET", <<"/", "dashboard">>, "page"),
    Rule("GET", <<"/", "workspace">>, "page"),
    Rule("GET", <<"/", "admin">>, "page"),
    Rule("GET", <<"/", "analytics">>, "page"),
    Rule("GET", <<"/", "health">>, "constant"),
    Rule("POST", <<"/", "log">>, "log"),
    Rule("POST", Api(<<"auth", "/", "register">>), "register"),
    Rule("POST", Api(<<"auth", "/", "log", "in">>), "login"),
    Rule("POST", Api(<<"project", "/", "create">>), "create"),
    Rule("GET", Api(<<"project", "s", "/", "<int>">>), "projects"),
    Rule("PUT", Api(<<"project", "/", "<int>", "/", "settings">>), "settings"),
    Rule("DELETE", Api(<<"project", "/", "<int>">>), "delete"),
    Rule("GET", Admin(<<>>), "users"),
    Rule("PUT", Admin(<<"/", "<int>", "/", "role">>), "role"),
    Rule("DELETE", Admin(<<"/", "<int>">>), "deactivate"),
    Rule("GET", <<"/", "query", "/", "advanced">>, "query"),
    Rule("GET", Api(<<"project", "/", "info">>), "constant"),
    Rule("GET", Api(<<"project", "s", "/", "<int>", "/", "settings">>), "constant"),
    Rule("GET", <<"/", "log", "s", "/", "<int>">>, "logs"),
    Rule("GET", Api(<<"stats", "/", "<int>">>), "stats"),
    Rule("GET", <<"/", "static", "/", "<path>">>, "static")>>

-----------------------------------------------------------------------------
(* What the pages send. *)

Numerals == {t \in SeqOf(Digit, MaxDigits) \ {<<>>} : Len(t) > 1 => Head(t) # "0"}

Text(n) == CHOOSE t \in Numerals : Number(t) = n

Request(method, url, key, body) == [method |-> method, url |-> url, key |-> key, body |-> body]

\* The fetch calls of login.html, workspace.html, admin.html, dashboard.html and analytics.html.
\* workspace.html looks for the id of a listed project where the listing has none (project_id).
\* settings, delete, logs and stats are sent by clients that know the routes.
RequestOf(f) ==
  CASE f.page = "register" ->
         Request("POST", Api(<<"auth", "/", "register">>), 0,
                 <<"e", "=">> \o encodeURIComponent(f.email) \o <<"&", "p", "=">>
                   \o encodeURIComponent(f.password) \o <<"&", "u", "=">> \o encodeURIComponent(f.username))
    [] f.page = "login" ->
         Request("POST", Api(<<"auth", "/", "log", "in">>), 0,
                 <<"e", "=">> \o encodeURIComponent(f.email) \o <<"&", "p", "=">>
                   \o encodeURIComponent(f.password))
    [] f.page = "create" ->
         Request("POST", Api(<<"project", "/", "create">>), 0,
                 <<"u", "=">> \o Text(f.user) \o <<"&", "n", "=">> \o encodeURIComponent(f.name))
    [] f.page = "settings" ->
         Request("PUT", Api(<<"project", "/">> \o Text(f.project) \o <<"/", "settings">>), 0,
                 <<"f", "=">> \o Text(f.fast) \o <<"&", "n", "=">> \o Text(f.normal))
    [] f.page = "saveSettings" ->
         Request("PUT", Api(<<"project", "/", "undefined", "/", "settings">>), 0,
                 <<"f", "=">> \o Text(f.fast) \o <<"&", "n", "=">> \o Text(f.normal))
    [] f.page = "delete" -> Request("DELETE", Api(<<"project", "/">> \o Text(f.project)), 0, <<>>)
    [] f.page = "confirmDelete" -> Request("DELETE", Api(<<"project", "/", "undefined">>), 0, <<>>)
    [] f.page = "role" ->
         Request("PUT", Admin(<<"/">> \o Text(f.user) \o <<"/", "role">>), 0,
                 <<"a", "=">> \o Text(f.admin) \o <<"&", "r", "=">> \o Text(f.role))
    [] f.page = "deactivate" ->
         Request("DELETE", Admin(<<"/">> \o Text(f.user) \o <<"?", "a", "=">> \o Text(f.admin)), 0, <<>>)
    [] f.page = "users" -> Request("GET", Admin(<<"?", "a", "=">> \o Text(f.admin)), 0, <<>>)
    [] f.page = "projects" -> Request("GET", Api(<<"project", "s", "/">> \o Text(f.user)), 0, <<>>)
    [] f.page = "logs"  -> Request("GET", <<"/", "log", "s", "/">> \o Text(f.project), 0, <<>>)
    [] f.page = "stats" -> Request("GET", Api(<<"stats", "/">> \o Text(f.project)), 0, <<>>)
    [] f.page = "query" ->
         Request("GET", <<"/", "query", "/", "advanced", "?", "l", "=">> \o Text(f.limit)
                   \o <<"&", "s", "=", f.sort_by, "&", "o", "=", f.order>>, f.key, <<>>)

Asks == {[form |-> f, request |-> RequestOf(f)] : f \in Forms}
        \cup {[form |-> [page |-> None], request |-> r] : r \in Raw}

ASSUME AsksAssumption ==
  \A a \in Asks : a.request.method \in Method /\ IsSeq(a.request.url) /\ IsSeq(a.request.body)

\* A number that the server reads as it is written.
IsNumber(n) == n \in 0..MaxInt /\ \E t \in Numerals : Number(t) = n

\* The pages send texts, numbers an int can hold, and what their menus offer.
ASSUME FormsAssumption ==
  /\ MaxPairs >= 3
  /\ \A f \in Forms :
       \/ f.page = "register" /\ IsSeq(f.email) /\ IsSeq(f.password) /\ IsSeq(f.username)
       \/ f.page = "login" /\ IsSeq(f.email) /\ IsSeq(f.password)
       \/ f.page = "create" /\ IsNumber(f.user) /\ IsSeq(f.name)
       \/ f.page = "settings" /\ IsNumber(f.project) /\ IsNumber(f.fast) /\ IsNumber(f.normal)
       \/ f.page = "saveSettings" /\ IsNumber(f.fast) /\ IsNumber(f.normal)
       \/ f.page \in {"delete", "logs", "stats"} /\ IsNumber(f.project)
       \/ f.page = "confirmDelete"
       \/ f.page = "role" /\ IsNumber(f.admin) /\ IsNumber(f.user) /\ IsNumber(f.role) /\ f.role \in 0..2
       \/ f.page = "deactivate" /\ IsNumber(f.admin) /\ IsNumber(f.user)
       \/ f.page = "users" /\ IsNumber(f.admin)
       \/ f.page = "projects" /\ IsNumber(f.user)
       \/ f.page = "query" /\ IsNumber(f.limit) /\ f.sort_by \in {"d", "r", "f"} /\ f.order \in {"desc", "asc"}

\* A project has an id and a key of those given out so far.
HasNumbers(p, given) == {"id", "api_key"} \subseteq DOMAIN p /\ {p.id, p.api_key} \subseteq 1..given

\* What the databases hold at the start was put there by the server.
ASSUME DatabasesAssumption ==
  \A d \in Databases :
    /\ IsSeq(d.users) /\ IsSeq(d.projects) /\ IsSeq(d.traces)
    /\ \A i \in DOMAIN d.projects : HasNumbers(d.projects[i], Len(d.projects))
    /\ \A i \in DOMAIN d.traces : d.traces[i].duration \in Int

-----------------------------------------------------------------------------
(* The start, and the end of a request. *)

\* The entries of a tree into which this one is inserted: it takes the place of one with its id, or
\* stands beside it where a split has just moved that.
Inserted(entries, entry) ==
  {Append(entries, entry)}
    \cup {[entries EXCEPT ![i] = entry] : i \in {j \in DOMAIN entries : entries[j].id = entry.id}}

Nobody == [key |-> 0, version |-> <<>>]

Init ==
  /\ RoutesInit
  /\ \E d \in Databases :
       /\ users = d.users /\ next_user_id = Len(d.users) + 1
       /\ projects = d.projects /\ next_project_id = Len(d.projects) + 1
       /\ traces = d.traces /\ next_id = 1
  /\ sdk = Nobody
  /\ calls = <<>>
  /\ senders = {}
  /\ asks = 0
  /\ last = Idle

Start == Startup /\ UNCHANGED <<databases, sdk, calls, senders, asks, last>>

\* The rule for a request: its handler's name and parameters, or the code of the answer without.
HandlerOf(first) ==
  LET found == first.found
  IN CASE found.rule_index = 0 -> [handler |-> None, params |-> <<>>, code |-> first.res.code]
       [] found.rule_index = RULE_SPECIAL_REDIRECT_SLASH ->
            [handler |-> None, params |-> <<>>, code |-> 301]
       [] OTHER -> [handler |-> router[found.method].rules[found.rule_index - 1].kind,
                    params  |-> found.params, code |-> 200]

Routed(r) ==
  HandlerOf(handle_initial(router, r.method, SubSeq(r.url, 1, strcspn(r.url, {"?"})), NewResponse))

\* The handler's answer; shown is the data it carries.
Answer(a, code, shown) ==
  /\ asks' = asks + 1
  /\ last' = [form |-> a.form, request |-> a.request, code |-> code, shown |-> shown]
  /\ UNCHANGED <<routeVars, sdk, calls>>

Reads(a, code, shown) == Answer(a, code, shown) /\ UNCHANGED databases
Refuses(a, code)      == Reads(a, code, <<>>)

\* The process ends in the middle of a handler: no answer comes, and nothing is served any more.
Crashes(a) == Reads(a, 0, <<>>)

\* The <int> of the rule.
IdOf(found) == ToInt(ValueOf(found.params[1].value))

\* get_project_id_from_api_key: the project of a key, 0 for none.
ProjectOf(key) ==
  LET found == Selected(projects, {i \in DOMAIN projects : projects[i].api_key = key})
  IN IF key = 0 \/ found = <<>> THEN 0 ELSE Head(found).id

-----------------------------------------------------------------------------
(* POST /log *)

\* What the body says, with the defaults for what it does not.
Logged(body) ==
  [func     |-> sanitize_string(PostParam(body, "f", <<"unknown">>), FieldSize),
   message  |-> sanitize_string(PostParam(body, "m", <<"Trace">>), FieldSize),
   version  |-> sanitize_string(PostParam(body, "v", <<"v1">>), FieldSize),
   duration |-> stoull(PostParam(body, "d", <<"0">>)),
   ram      |-> stoull(PostParam(body, "r", <<"0">>))]

validate_duration(duration) == duration <= MaxDuration
validate_ram(ram_kb)        == ram_kb <= MaxRam

\* TraceEntry of log_event; call is a history field, 0 when no SDK sent it.
TraceEntry(project_id, logged, call) ==
  [id |-> next_id, project_id |-> project_id, func |-> Field(logged.func, FieldSize),
   message |-> Field(logged.message, FieldSize), version |-> Field(logged.version, FieldSize),
   duration |-> logged.duration, ram |-> logged.ram, call |-> call]

is_valid(t) ==
  t.project_id > 0 /\ t.duration < MaxDuration /\ t.ram < MaxRam /\ t.func # <<>>

\* A trace that an earlier process has left under the id is lost.
LogEvent(a, call, logged, project) ==
  IF validate_duration(logged.duration) /\ validate_ram(logged.ram)
  THEN /\ traces' \in Inserted(traces, TraceEntry(IF project = 0 THEN 1 ELSE project, logged, call))
       /\ next_id' = next_id + 1
       /\ Answer(a, 200, <<>>)
       /\ UNCHANGED <<accountVars, projectVars>>
  ELSE Refuses(a, 400)

\* The rate limiter may refuse any call.
Log(a, call) ==
  \/ Refuses(a, 429)
  \/ LogEvent(a, call, Logged(a.request.body), ProjectOf(a.request.key))

-----------------------------------------------------------------------------
(* Accounts *)

ROLE_USER  == 0
ROLE_ADMIN == 2

Register(a) ==
  LET body     == a.request.body
      email    == url_decode(FieldOf(body, "e"))
      password == url_decode(FieldOf(body, "p"))
      username == url_decode(FieldOf(body, "u"))
  IN IF <<>> \in {email, password, username} \/ \E i \in DOMAIN users : users[i].email = email
     THEN Refuses(a, 400)
     ELSE /\ users' = Append(users, [id |-> next_user_id, email |-> email, password |-> password,
                                    username |-> Field(username, FieldSize), active |-> TRUE,
                                    role |-> IF next_user_id = 1 THEN ROLE_ADMIN ELSE ROLE_USER])
          /\ next_user_id' = next_user_id + 1
          /\ Answer(a, 200, <<next_user_id>>)
          /\ UNCHANGED <<projectVars, traceVars>>

\* The account, in a sequence, or nothing.
login_user(email, password) ==
  Selected(users, {i \in DOMAIN users : users[i].email = email /\ users[i].password = password /\ users[i].active})

Login(a) ==
  LET user == login_user(url_decode(FieldOf(a.request.body, "e")), url_decode(FieldOf(a.request.body, "p")))
  IN IF user # <<>> THEN Reads(a, 200, <<Head(user).id>>) ELSE Refuses(a, 401)

\* Mutant: a deactivated administrator has it.
has_permission_inactive(user_id) ==
  \E i \in DOMAIN users : users[i].id = user_id /\ users[i].role = ROLE_ADMIN

\* has_permission for manage_users and assign_roles.
has_permission(user_id) ==
  \E i \in DOMAIN users : users[i].id = user_id /\ users[i].active /\ users[i].role = ROLE_ADMIN

AdminId(a) == LET pairs == qs_parse(a.request.url) IN IF Has(pairs, "a") THEN get(pairs, "a") ELSE <<>>

\* An admin request with this text for the administrator's id: a number stoi throws at is answered
\* by the router's exception handler.
Checked(a, admin) == IF StoiThrows(admin) THEN 500 ELSE IF has_permission(stoi(admin)) THEN 200 ELSE 403

get_all_users == Selected(users, {i \in DOMAIN users : users[i].active})

AdminUsers(a) ==
  LET admin == AdminId(a)
  IN IF admin = <<>> THEN Refuses(a, 401)
     ELSE IF Checked(a, admin) # 200 THEN Refuses(a, Checked(a, admin))
     ELSE Reads(a, 200, get_all_users)

\* update_user_role and deactivate_user: user 1 stays as it is.
ChangeUser(a, user_id, change(_)) ==
  IF user_id # 1 /\ \E i \in DOMAIN users : users[i].id = user_id
  THEN /\ users' = [i \in DOMAIN users |-> IF users[i].id = user_id THEN change(users[i]) ELSE users[i]]
       /\ Answer(a, 200, <<>>)
       /\ UNCHANGED <<next_user_id, projectVars, traceVars>>
  ELSE Refuses(a, 400)

SetRole(a, user_id) ==
  LET admin == FieldOf(a.request.body, "a")
      role  == FieldOf(a.request.body, "r")
  IN IF <<>> \in {admin, role} THEN Refuses(a, 400)
     ELSE IF StoiThrows(admin) \/ StoiThrows(role) THEN Refuses(a, 500)
     ELSE IF stoi(role) \notin ROLE_USER..ROLE_ADMIN THEN Refuses(a, 400)
     ELSE IF ~has_permission(stoi(admin)) THEN Refuses(a, 403)
     ELSE ChangeUser(a, user_id, LAMBDA u : [u EXCEPT !.role = stoi(role)])

Deactivate(a, user_id) ==
  LET admin == AdminId(a)
  IN IF admin = <<>> THEN Refuses(a, 401)
     ELSE IF Checked(a, admin) # 200 THEN Refuses(a, Checked(a, admin))
     ELSE ChangeUser(a, user_id, LAMBDA u : [u EXCEPT !.active = FALSE])

-----------------------------------------------------------------------------
(* Projects *)

\* The name is stored as it came; every project gets a key of its own.
CreateProject(a) ==
  LET user == PostParam(a.request.body, "u", <<"0">>)
      name == PostParam(a.request.body, "n", <<"My Project">>)
  IN IF StoiThrows(user) THEN Refuses(a, 500)
     ELSE /\ projects' = Append(projects, [id |-> next_project_id, user_id |-> stoi(user),
                                          name |-> Field(name, FieldSize), api_key |-> next_project_id,
                                          fast |-> 100, normal |-> 500])
          /\ next_project_id' = next_project_id + 1
          /\ Answer(a, 200, <<next_project_id>>)
          /\ UNCHANGED <<accountVars, traceVars>>

get_projects_by_user(user_id) == Selected(projects, {i \in DOMAIN projects : projects[i].user_id = user_id})

ListProjects(a, user_id) == Reads(a, 200, get_projects_by_user(user_id))

\* update_project_settings inserts the entry that was found, changed.
Settings(a, project_id) ==
  LET pairs == qs_parse(a.request.body)
      found == Selected(projects, {i \in DOMAIN projects : projects[i].id = project_id})
      Threshold(name, default) == IF Has(pairs, name) THEN stoi(get(pairs, name)) ELSE default
      changed == [Head(found) EXCEPT !.fast = Threshold("f", 100), !.normal = Threshold("n", 500)]
  IN IF \E name \in {"f", "n"} : Has(pairs, name) /\ StoiThrows(get(pairs, name))
     THEN Refuses(a, 500)
     ELSE /\ projects' \in IF found = <<>> THEN {projects} ELSE Inserted(projects, changed)
          /\ Answer(a, 200, <<>>)
          /\ UNCHANGED <<accountVars, next_project_id, traceVars>>

DeleteProject(a, project_id) ==
  IF \A i \in DOMAIN projects : projects[i].id # project_id
  THEN Refuses(a, 404)
  ELSE /\ projects' = Selected(projects, {i \in DOMAIN projects : projects[i].id # project_id})
       /\ Answer(a, 200, <<>>)
       /\ UNCHANGED <<accountVars, next_project_id, traceVars>>

-----------------------------------------------------------------------------
(* Traces *)

search_by_project(project_id) == Selected(traces, {i \in DOMAIN traces : traces[i].project_id = project_id})
get_all_traces                == Selected(traces, {i \in DOMAIN traces : is_valid(traces[i])})

ASSUME SortAssumption == SortThreshold \in Nat

\* operator< of std::string.
Below(s, t) ==
  LET rank(c) == CHOOSE i \in DOMAIN Alphabet : Alphabet[i] = c
  IN \/ IsStrictPrefix(s, t)
     \/ \E n \in DOMAIN s \cap DOMAIN t :
          SubSeq(s, 1, n - 1) = SubSeq(t, 1, n - 1) /\ rank(s[n]) < rank(t[n])

Smaller(t, u, sort_by) ==
  CASE sort_by = <<"r">> -> t.ram < u.ram
    [] sort_by = <<"f">> -> Below(t.func, u.func)
    [] OTHER             -> t.duration < u.duration

\* Some entries are equal in what they are sorted by.
Ties(results, sort_by) ==
  \E i, j \in DOMAIN results : /\ i < j
                              /\ ~Smaller(results[i], results[j], sort_by)
                              /\ ~Smaller(results[j], results[i], sort_by)

\* Descending, std::sort gets a comparator that calls equal entries smaller than each other, both
\* ways.  Where it does not insert them, it may then leave their range.
Undefined(results, sort_by, descending) ==
  descending /\ Len(results) > SortThreshold /\ Ties(results, sort_by)

\* What std::sort may leave where it is defined, unstable as it is.
Sorted(results, sort_by, descending) ==
  LET n == Len(results)
  IN {s \in {[i \in 1..n |-> results[p[i]]] : p \in {q \in [1..n -> 1..n] : IsInjective(q)}} :
        \A i, j \in 1..n :
          i < j => IF descending THEN ~Smaller(s[i], s[j], sort_by) ELSE ~Smaller(s[j], s[i], sort_by)}

Garbage == [memory |-> "other"]

\* What it may leave where it is not: entries lost, doubled, and made of other memory.
Garbled(results) == [DOMAIN results -> ToSet(results) \cup {Garbage}]

\* Mutant: one trace too many.
Limited_oneMore(results, limit) == IF limit < 0 THEN results ELSE Shortened(results, limit + 1)

\* A negative limit is a large one as a size_t.
Limited(results, limit) == IF limit < 0 THEN results ELSE Shortened(results, limit)

Query(a) ==
  LET pairs   == qs_parse(a.request.url)
      sort_by == IF Has(pairs, "s") THEN get(pairs, "s") ELSE <<"d">>
      order   == IF Has(pairs, "o") THEN get(pairs, "o") ELSE <<"desc">>
      project == ProjectOf(a.request.key)
      results == IF project = 0 THEN get_all_traces ELSE search_by_project(project)
      limit   == IF Has(pairs, "l") THEN stoi(get(pairs, "l")) ELSE 50
  IN IF Has(pairs, "l") /\ StoiThrows(get(pairs, "l")) THEN Refuses(a, 500)
     ELSE IF Undefined(results, sort_by, order = <<"desc">>) THEN
       \/ Crashes(a)
       \/ \E s \in Garbled(results) : Reads(a, 200, Limited(s, limit))
     ELSE \E s \in Sorted(results, sort_by, order = <<"desc">>) : Reads(a, 200, Limited(s, limit))

Logs(a, project_id) == Reads(a, 200, search_by_project(project_id))

Stats(a, project_id) ==
  LET active    == search_by_project(project_id)
      durations == [i \in DOMAIN active |-> active[i].duration]
      rams      == [i \in DOMAIN active |-> active[i].ram]
      total(s)  == FoldLeft(+, 0, s)
  IN Reads(a, 200,
       IF active = <<>> THEN [total |-> 0]
       ELSE [total |-> Len(active), avg |-> total(durations) \div Len(active),
             min |-> Min(Range(durations)), max |-> Max(Range(durations)),
             avg_ram |-> total(rams) \div Len(active)])

-----------------------------------------------------------------------------
(* The SDK: log() starts a thread that sends later, if the program lives.  *)

SdkInit(api_key, version) ==
  /\ sdk' = [key |-> api_key, version |-> version]
  /\ UNCHANGED <<routeVars, databases, calls, senders, asks, last>>

SdkLog(c) ==
  /\ Len(calls) < MaxCalls
  /\ calls' = Append(calls, [func |-> c.func, message |-> c.message, duration |-> c.duration,
                            ram |-> c.ram, version |-> sdk.version])
  /\ senders' = senders \cup {Len(calls) + 1}
  /\ UNCHANGED <<routeVars, databases, sdk, asks, last>>

\* post_data, put together at the call.
post_data(c) ==
  <<"f", "=">> \o c.func \o <<"&", "m", "=">> \o c.message \o <<"&", "d", "=">> \o Text(c.duration)
    \o <<"&", "r", "=">> \o Text(c.ram) \o <<"&", "v", "=">> \o c.version

\* Nothing of a trace is markup on the dashboard.
Harmless(t) == {"<", Quote} \cap (ToSet(t.func) \cup ToSet(t.message) \cup ToSet(t.version)) = {}

\* A program calls log() with texts and with numbers that can be written; what the database holds
\* at the start was stored by the server.
ASSUME TracesAssumption ==
  /\ FieldSize \in Nat \ {0}
  /\ \A c \in SdkCalls : /\ IsSeq(c.func) /\ IsSeq(c.message)
                         /\ \A n \in {c.duration, c.ram} : n \in Nat /\ \E t \in Numerals : Number(t) = n
  /\ \A d \in Databases : /\ IsSeq(d.traces)
                          /\ \A i \in DOMAIN d.traces : d.traces[i].call = 0 /\ Harmless(d.traces[i])

\* Mutant: the thread sends the call and goes on sending it.
Deliver_again(i) ==
  /\ Log([form |-> [page |-> None], request |-> Request("POST", <<"/", "log">>, sdk.key, post_data(calls[i]))], i)
  /\ UNCHANGED senders

\* A sender reads g_api_key when it runs.
Deliver(i) ==
  /\ Log([form |-> [page |-> None], request |-> Request("POST", <<"/", "log">>, sdk.key, post_data(calls[i]))], i)
  /\ senders' = senders \ {i}

\* curl fails, or the program ends and its threads with it.
Lose ==
  /\ senders # {}
  /\ \E kept \in SUBSET senders : kept # senders /\ senders' = kept
  /\ UNCHANGED <<routeVars, databases, sdk, calls, asks, last>>

-----------------------------------------------------------------------------
(* The server *)

\* read_file finds the page or does not.
Page(a) == Reads(a, 200, <<>>) \/ Refuses(a, 404)

Static(a, path) ==
  \E code \in {200, 404} : Reads(a, code, <<sanitize_filename(path)>>)

\* /health, /api/project/info and the settings of a project answer the same to everybody.
Constant(a) == Reads(a, 200, <<>>)

Handle(a, found) ==
  LET Goes(handler) == found.handler = handler
  IN \/ Goes(None)         /\ Refuses(a, found.code)
     \/ Goes("page")       /\ Page(a)
     \/ Goes("constant")   /\ Constant(a)
     \/ Goes("static")     /\ Static(a, found.params[1].value)
     \/ Goes("log")        /\ Log(a, 0)
     \/ Goes("register")   /\ Register(a)
     \/ Goes("login")      /\ Login(a)
     \/ Goes("create")     /\ CreateProject(a)
     \/ Goes("projects")   /\ ListProjects(a, IdOf(found))
     \/ Goes("settings")   /\ Settings(a, IdOf(found))
     \/ Goes("delete")     /\ DeleteProject(a, IdOf(found))
     \/ Goes("users")      /\ AdminUsers(a)
     \/ Goes("role")       /\ SetRole(a, IdOf(found))
     \/ Goes("deactivate") /\ Deactivate(a, IdOf(found))
     \/ Goes("query")      /\ Query(a)
     \/ Goes("logs")       /\ Logs(a, IdOf(found))
     \/ Goes("stats")      /\ Stats(a, IdOf(found))

Serve(a) == Handle(a, Routed(a.request))

Serving == phase = "serving" /\ rules = AppRules /\ last = Idle /\ asks < MaxAsks

\* The answer has been sent.
Answered ==
  /\ last.code # 0
  /\ last' = Idle
  /\ UNCHANGED <<routeVars, databases, sdk, calls, senders, asks>>

\* A program with other rules is of no interest once it serves, nor one that has ended.
Done ==
  /\ \/ phase = "failed" \/ (last # Idle /\ last.code = 0)
     \/ phase = "serving" /\ last = Idle /\ (rules # AppRules \/ asks = MaxAsks)
  /\ UNCHANGED vars

Next ==
  \/ Start \/ Answered \/ Done
  \/ Serving /\ \E a \in Asks : Serve(a) /\ UNCHANGED senders
  \/ Serving /\ \E i \in senders : Deliver(i)
  \/ Serving /\ \E c \in SdkCalls : SdkLog(c)
  \/ Serving /\ \E k \in 1..next_project_id - 1 : SdkInit(k, <<"v1">>)
  \/ Serving /\ Lose

Spec == Init /\ [][Next]_vars

-----------------------------------------------------------------------------
(* Properties *)

Plain(text) == encodeURIComponent(text) = text

\* The entries, those with this id changed.
Changed(entries, id, change(_)) ==
  [i \in DOMAIN entries |-> IF entries[i].id = id THEN change(entries[i]) ELSE entries[i]]

\* The projects but this one, and their traces.
OthersOf(entries, id)  == {p \in ToSet(entries) : p.id # id}
TracesBut(entries, id) == {t \in ToSet(entries) : t.project_id # id}

Granted(f) == has_permission(f.admin) /\ f.user # 1

\* The databases after a request that does what it says.  (A deletion leaves the traces of other
\* projects alone: whether the project's own should go, the handler and the page disagree about.)
Meant(f) ==
  CASE f.page = "register" /\ <<>> \notin {f.email, f.password, f.username}
                           /\ (\A i \in DOMAIN users : users[i].email # f.email) ->
         /\ users' = Append(users, [id |-> next_user_id, email |-> f.email, password |-> f.password,
                                   username |-> Field(f.username, FieldSize), active |-> TRUE,
                                   role |-> IF users = <<>> THEN ROLE_ADMIN ELSE ROLE_USER])
         /\ UNCHANGED <<projectVars, traceVars>>
    [] f.page = "create" ->
         /\ \E p \in ToSet(projects') :
              /\ ToSet(projects') = ToSet(projects) \cup {p}
              /\ p.user_id = f.user /\ (Plain(f.name) => p.name = Field(f.name, FieldSize))
              /\ \A q \in ToSet(projects) : q.api_key # p.api_key /\ q.id # p.id
         /\ UNCHANGED <<accountVars, traceVars>>
    [] f.page = "settings" ->
         /\ OthersOf(projects', f.project) = OthersOf(projects, f.project)
         /\ UNCHANGED <<accountVars, next_project_id, traceVars>>
    [] f.page = "delete" ->
         /\ ToSet(projects') = OthersOf(projects, f.project)
         /\ TracesBut(traces', f.project) = TracesBut(traces, f.project)
         /\ UNCHANGED accountVars
    [] f.page = "role" /\ Granted(f) ->
         /\ users' = Changed(users, f.user, LAMBDA u : [u EXCEPT !.role = f.role])
         /\ UNCHANGED <<projectVars, traceVars>>
    [] f.page = "deactivate" /\ Granted(f) ->
         /\ users' = Changed(users, f.user, LAMBDA u : [u EXCEPT !.active = FALSE])
         /\ UNCHANGED <<projectVars, traceVars>>
    [] f.page = "login" ->
         /\ last'.code = 200 <=> \E i \in DOMAIN users : /\ users[i].email = f.email
                                                       /\ users[i].password = f.password
                                                       /\ users[i].active
         /\ UNCHANGED databases
    [] OTHER -> UNCHANGED databases

\* A request of a page changes what it names as it says, and nothing else: through the encoding of
\* the fields, the route, the parsing of URL and body and the handler, whatever characters the
\* fields hold and in whatever order requests come.  A project's name is stored as the page encoded
\* it; the thresholds are SettingsApplied's.  The page's own buttons for settings and deletion send
\* no project's id (saveSettings, confirmDelete): what their user wants does not happen, and here
\* it is only said that nothing else does.
DoesWhatWasAsked ==
  [][last = Idle /\ last'.form.page # None => Meant(last'.form)]_vars

\* Whoever a request says it is from: as the admin routes read it from the URL or the body.
SaysItIsFrom(a, user_id) ==
  \E text \in {FieldOf(a.request.body, "a"), AdminId(a)} : ~StoiThrows(text) /\ stoi(text) = user_id

\* An account before and after, changed in its role or in being active at most.
SameBut(old, new) == new = [old EXCEPT !.role = new.role, !.active = new.active]

\* Whatever clients send, an account changes only by a request that says it is from an
\* administrator who is active when it is handled, and then in its role or in being active only;
\* user 1 never changes.  Nobody registers as an administrator while there are accounts.
AdminsOnly ==
  [][/\ \A i \in DOMAIN users : users'[i] # users[i] =>
          /\ users[i].id # 1
          /\ SameBut(users[i], users'[i])
          /\ \E j \in DOMAIN users : /\ users[j].active /\ users[j].role = ROLE_ADMIN
                                     /\ SaysItIsFrom(last', users[j].id)
     /\ \A i \in DOMAIN users' \ DOMAIN users : users'[i].role = ROLE_ADMIN => users = <<>>]_vars

\* README.md:276, "Update thresholds": the thresholds in the body are the project's from then on.
SettingsApplied ==
  [][last = Idle /\ last'.form.page = "settings" =>
       \A i \in DOMAIN projects :
         projects[i].id = last'.form.project =>
           \E p \in ToSet(projects') : /\ p.id = projects[i].id
                                       /\ p.fast = last'.form.fast /\ p.normal = last'.form.normal]_vars

\* The answer to a query: the first of the traces there are, in the order that was asked for, where
\* the sort is defined.
FirstInOrder(f) ==
  LET project == ProjectOf(f.key)
      all     == IF project = 0 THEN get_all_traces ELSE search_by_project(project)
      shown   == last.shown
      Before(t, u) == IF f.order = "desc" THEN Smaller(u, t, <<f.sort_by>>) ELSE Smaller(t, u, <<f.sort_by>>)
  IN ~Undefined(all, <<f.sort_by>>, f.order = "desc") =>
       /\ Len(shown) = IF f.limit < Len(all) THEN f.limit ELSE Len(all)
       /\ \A t \in ToSet(shown) :
            Cardinality({i \in DOMAIN shown : shown[i] = t}) <= Cardinality({i \in DOMAIN all : all[i] = t})
       /\ \A i, j \in DOMAIN shown : i < j => ~Before(shown[j], shown[i])
       /\ \A t \in ToSet(all) \ ToSet(shown) : \A i \in DOMAIN shown : ~Before(t, shown[i])

\* A listing shows what there is to be shown and nothing else: a user's projects, the active users
\* to an administrator only, a project's traces, and the first of them in the order asked for.  Not
\* where a query sorts more than SortThreshold traces descending and some are equal in what it
\* sorts by: that is undefined, and may show anything or end the process.
ShowsWhatIsThere ==
  LET f == last.form
  IN CASE f.page = "projects" -> ToSet(last.shown) = {p \in ToSet(projects) : p.user_id = f.user}
       [] f.page = "users"    -> ToSet(last.shown) =
                                   {u \in ToSet(users) : u.active /\ has_permission(f.admin)}
       [] f.page = "logs"     -> ToSet(last.shown) = {t \in ToSet(traces) : t.project_id = f.project}
       [] f.page = "stats"    -> /\ last.shown.total = Len(search_by_project(f.project))
                                 /\ last.shown.total > 0 => last.shown.avg \in last.shown.min..last.shown.max
       [] f.page = "query"    -> FirstInOrder(f)
       [] OTHER               -> TRUE

\* Every character of the text is stored as it is.
Kept(text) == ToSet(text) \cap (DOMAIN Markup \cup Dropped) = {}

\* A call of the SDK is stored at most once, and with what it was made, where its texts have none of
\* the characters that sanitize_string replaces or drops.  Nothing that is stored has a character
\* that would be markup on the dashboard.
TracesAsLogged ==
  /\ \A i, j \in DOMAIN traces : i # j => traces[i].call = 0 \/ traces[i].call # traces[j].call
  /\ \A i \in DOMAIN traces :
       LET t == traces[i]
           c == calls[t.call]
       IN /\ Harmless(t)
          /\ t.call # 0 => t.call \notin senders
          /\ t.call # 0 /\ Kept(c.func) /\ Kept(c.message) =>
               /\ t.func = Field(c.func, FieldSize) /\ t.message = Field(c.message, FieldSize)
               /\ t.duration = c.duration /\ t.ram = c.ram

\* No request for a static file names one outside of the static directory: no part of the path is
\* "..", and it is not absolute (sanitize_filename).
FilesStayInside ==
  last.code # 0 /\ last.form.page = None /\ IsPrefix(<<"/", "static", "/">>, last.request.url) =>
    LET file    == Head(last.shown)
        ends(i) == i > Len(file) \/ file[i] \in Separator
    IN last.shown # <<>> =>
         /\ file = <<>> \/ Head(file) \notin Separator
         /\ \A i \in 1..Len(file) - 1 :
              file[i] = "." /\ file[i + 1] = "." => ~(ends(i + 2) /\ (i = 1 \/ ends(i - 1)))
=============================================================================
