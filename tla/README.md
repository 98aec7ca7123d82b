# ExecTrace in TLA+

A formal model of [ExecTrace](../src/README.md): TLA+ modules translated from
its C++ sources, TLC configurations that check them on small instances, and
proofs of the properties that matter most, checked by TLAPS.

Paths below are relative to `src/`; `crow/` stands for
`backend/include/crow_include/crow/`. `PROJECT.json` lists, for every definition,
the lines it models, and for every property a *mutant*: a plausible bug in a
mapped definition under which the property fails.

## 1. The system

ExecTrace is one server process with three database files, a header-only client
SDK that posts traces to it, and five static pages. The server is built on a copy
of Crow, whose parser, connections, router and timers run every request and
are modelled like the rest of the program.

| Part | Source | State | Operations |
|---|---|---|---|
| Page file | `backend/include/DiskManager.hpp` | the file; `next_page_id` in memory | `read_page`, `write_page`, `allocate_page` |
| B-tree | `BTree.hpp` | nodes in pages; `root_page_id` in memory | `insert`, `search`, `get_all_values` |
| Trace database | `Database.hpp` | a B-tree by id; `next_id` in memory | `log_event`, `search`, `search_by_project`, `get_all_traces` |
| User accounts | `AuthDB.hpp` | a B-tree by email hash; `next_user_id` | `register_user`, `login_user`, `update_user_role`, `deactivate_user`, readers |
| Projects | `AuthDB.hpp` | a B-tree by id; `next_project_id` | `create_project`, `update_project_settings`, `delete_project`, readers |
| Rate limiter | `Utils.hpp` | a map of token buckets, one global bucket | `allow_request`, `get_remaining`, `cleanup` |
| Validation, sanitizing | `Utils.hpp`, `Models.hpp` | none | pure functions |
| Logger | `Utils.hpp` | a log file | `log` |
| Routes | `backend/src/server.cpp` | pointers to all of the above | one handler per route |
| HTTP parser | `crow/http_parser_merged.h`, `parser.h` | a state, marks into the buffer, the request it fills | `http_parser_execute`, its callbacks |
| Connection, response | `crow/http_connection.h`, `http_response.h` | the socket, one response object, flags, a deadline | `start`, `do_read`, `handle_url`, `handle`, `complete_request`, the writes |
| Router | `crow/routing.h` | a trie and a list of rules per method | adding rules, `validate`, `find`, `handle_initial`, `handle` |
| Server, timers | `crow/http_server.h`, `task_timer.h`, `app.h` | workers and their queue lengths; deadlines by id | accepting, balancing, ticking, stopping |
| Query strings, file names | `crow/query_string.h`, `utility.h` | none | `qs_parse`, `qs_decode`, `sanitize_filename` |
| Client SDK | `sdk/exectrace.hpp` | the API key and version, global | `init`, `log`, `ScopeTracer` |
| Pages | `frontend/*.html` | lists and settings in the browser | forms, requests, polling |

**How they interact.** The main thread accepts connections and gives each to the
worker with the fewest; a worker's thread runs the callbacks of its connections
and the tick of its timer one at a time. A read's bytes go through the parser,
whose callbacks fill the request, look up the rule as soon as the URL is there, and
call the handler at the end of the message, all inside the read's callback. A
handler calls the rate limiter and the databases by plain function calls. Each
of these holds one mutex from its first line to its last (`limiter_mutex`,
`db_mutex`, `auth_mutex`), so operations of one object never overlap; a handler that makes
two calls holds nothing in between. The databases call `insert`, `search` and
`get_all_values` of their B-tree and nothing else; the tree calls the page file.
`server.cpp` leaves Crow's concurrency at its default of 2, which gives one worker
thread besides the accepting one, so handlers are run one after another. Pages
and SDK reach the server by HTTP only.

**What is hard about it.** (a) An insert makes up to four page writes with
nothing to undo or redo them, and the process can end between any two (the
container restarts it). (b) The root's page, the page counter and the id
counters live in memory and are computed anew, or not, by every process.
(c) Splits happen on the way down, before the entry is compared with what moves
up. (d) A role change or a deletion removes a file and inserts everything again.
(e) Ids are given out again after a restart, while other databases still refer
to their old bearers. (f) Handlers change one database and not the other.
(g) Token buckets are created, refilled and dropped on demand. (h) Reads cut a
request anywhere, and pipelined requests share a read, a response object and a
connection's flags. (i) A deadline, a read's error, an answer's write and the
destructor of a connection come in any order, and deadlines are known by
numbers that are given out again. (j) Rules share a compressed trie. (k) Texts are
encoded by a page, taken apart by a router, a query parser and string searches,
sanitized and cut. (l) The SDK sends from detached threads. (m) Answers are written
by blocking calls on the only worker's thread.

**What makes each part correct.**

* Page file: a page is handed out once; a page read is the page written last.
* B-tree: whatever is on disk at any moment is readable, linked and no fuller
  than a page; the tree is balanced and ordered; readers find what was inserted.
* Traces: readers agree with each other and with what was logged.
* Accounts: ids and emails are unique; changes hit the account asked for and
  nobody else; user 1 is out of reach; a deactivated email stays so until it is
  registered anew.
* Projects: an API key speaks for one project; the key of a deleted one is dead.
* Rate limiter: a bounded rate over any stretch of time; a caller's own bucket full
  in the time the 429 answer names; bookkeeping that cannot be noticed.
* Connections: handlers get the requests that were sent; each answer is that of
  its request; what is no request is refused; nobody is forgotten or kept for ever.
* Server: balanced counts; a deadline closes its own connection; silent peers are
  timed out.
* Router: the rule that matches is found, whatever else is in the trie.
* Routes: only administrators change accounts; what a page asks for is what happens,
  and nothing else; listings show what is there.

## 2. The modules

| Module | Models |
|---|---|
| `BTreeNode` | `Node`, and the pure part of the tree: loading a page by `deserialize`'s rules, splitting a child, the two traversals |
| `BTree` | `BTree` over `DiskManager`, one page write per step, and restarts |
| `KeyStore` | abstract: a set of entries, what callers that insert new keys get from the tree |
| `TraceDB` | `ExecTraceDB`, extends `BTree` |
| `UserDB`, `ProjectDB` | the two halves of `AuthDB`, extend `BTree` |
| `Accounts`, `Projects` | abstract: what `AuthDB` promises, with no tree and no file |
| `RateLimiter` | `RateLimiter` and `TokenBucket` |
| `Throttle` | abstract: meters that fill with time |
| `HttpResponse` | `crow::response`: what assignment, `clear` and `end` keep |
| `Routing` | the trie, `find`, `Router::handle_initial` |
| `HttpMessage` | the callbacks of `parser.h` and what the connection does in them, up to the written answer |
| `HttpParser` | `http_parser_execute`, state by state |
| `HttpConnection` | one connection: reads, errors, the deadline, the peer |
| `HttpServer` | the server, the workers, the timers and many connections |
| `Routes` | the start of an application: `Router::validate` and the rules it adds |
| `RequestText` | query strings, form bodies, numbers, escapes, file names |
| `Requests` | every route of `main`, the pages' requests, the SDK |
| `TreeProofs`, `TraceProofs`, `AccountsProofs`, `ProjectsProofs`, `HttpServerProofs`, `HttpConnectionProofs`, `RouterProofs`, `RequestsProofs` | theorems and their proofs |
| `MC*` | constants for TLC |

How they build on each other (an arrow is EXTENDS):

    HttpResponse <- Routing <- HttpMessage <- HttpParser <- HttpConnection
                           <- Routes, RequestText <- Requests
    BTreeNode <- BTree <- TraceDB, UserDB, ProjectDB

Implementation is checked as a refinement, with the abstract specification as a
property of the run:

    BTree (new keys only)  =>  KeyStore
    UserDB                 =>  Accounts
    ProjectDB              =>  Projects
    RateLimiter            =>  Throttle

### BTree and BTreeNode

`disk` maps page numbers to nodes; a page nobody wrote is zeros, which
`deserialize` reads as an empty leaf. `insert` is split at its page writes:

| Step | Code |
|---|---|
| `EnterRoot`, `GrowRoot` | `insert`: the two branches on a full root |
| `Visit` = `UpdateEntry`, `AddToLeaf`, `Descend`, `SplitFullChild` | one activation of `insert_non_full` |
| `FlushPage` | `save_node` and `write_page` of the next page that is due |
| `Restart` | the process ends; `DiskManager` and `BTree` constructors of the next |

`todo` holds the entry until it is placed, `at` is the node `insert_non_full` is
in, and `writes` are the `save_node` calls decided but not made; decisions between
two writes depend on nothing but the nodes read, so they may be taken at once.
`GrowRoot` saves the new root twice, as the code does. `DiskManager` counts pages
from the file's size *plus one*, so a new process leaves a page of zeros;
`Restart` does the same. Nodes hold entries in vectors; the bytes are abstracted.
`Degree` is `Node<T>::DEGREE` (7 for users, 4 for traces, 9 for projects).

### TraceDB, UserDB, ProjectDB

Each extends `BTree`, adds the counter its class keeps in memory and splits each
operation into the step that decides it and the steps of the tree. `rebuild` is
the rest of the list that `rebuild_user_tree` or `rebuild_project_tree` inserts
into the new file. Removing the old file and creating the new one is one step: a
process that ends in between finds no file and creates the same one.
`generate_api_key` gives the least key not yet given, standing for any.
`Quiet` says that the mutex is free. Emails stand for their hashes. `barred` is a
history: the emails that were deactivated and not registered since.

### Accounts, Projects

Sets of records and a counter. `Reopen` allows any part of the set to survive:
which part does is the tree's business, and every property here holds for all.

### RateLimiter, Throttle

Time is in seconds and advances by `Tick`; tokens are counted in parts of a
token, `Window` of them each, so that refilling is exact in integers. `served` is
a history of the times at which each bucket gave a token. The bucket of a name is
`BucketOf`: the one in the map or the one that would be created.

### HttpParser, HttpMessage, HttpResponse, HttpConnection

A connection is one record, `conn`, with the fields of the parser, of the request
being filled, of the response and of `Connection` itself; each C++ function is an
operator from such records to such records, and a read of `n` tokens (`Read`) runs
`feed` over them. The stream is made of *tokens*, each the largest piece of text
a read may be cut around without effect: single characters in URLs, numbers and
bodies, halves of the header names the parser recognises, whole methods.
`mark` and `marked` are the mark pointer that is set in this read and the text
behind it; `url_start` counts from `url_mark`, so that `qs_point` is computed as
the code does, relative to the mark of this read. The callbacks `on_url` to
`on_message_complete` are those of `parser.h`; `handle_url` looks up the rule before
the headers are there, `handle` refuses a request without `Host`, answers
upgrades, calls the rule's handler and writes. Handlers return one of five kinds
of answer: a page, a body over the stream threshold, a file that is there or not,
an exception. `out` and `seen` are histories: the answers on the wire, the requests
that reached `handle`. `Deadline` closes the socket between two callbacks;
`ReadError` is the read's callback after that or after the peer's closing;
`PeerCloses` also chooses from when on writes fail.

### HttpServer

Follows `Server::run`: `Listen`, a worker's `WorkerReady`, `StartAccepting`, `Accept`,
`Stop` (a signal), `WorkerReturns`, `RunReturns`. A connection is made, and counted,
before it has a peer (`do_accept`), and counted out in its destructor (`Ending`); one
whose accept has failed is counted while `do_accept` picks the next worker, as in the code.
`tasks[w]` is the map of `task_timer`; `Deadline` is `start_deadline`, `CancelDeadline` is
`cancel_deadline_timer`, `Tick` is `tick_handler` with the bodies of the tasks due.

Of a connection's callbacks there is what `HttpConnection` shows of them: `ReadPart` reads again
and restarts the deadline, `ReadRequest` goes on to write an answer, and `WriteEnds`,
`LastAnswer`, `ReadFails` and `Aborted` are the ways on or out. An answer is written by a call that
blocks: while a connection is `"writing"`, its worker (`Blocked`) runs no callback and no
tick and does not return, and nothing says that a peer ever takes the answer. A peer may send as
long as it likes, each time restarting the deadline (`reads` counts up to `MaxReads`), or
fall silent at any time (`FallSilent`). `reused` records that a tick reset `highest_id_` while
a connection closed by its deadline still held an id, `robbed` whose deadline another
connection has then cancelled.

### Routing and Routes

A trie node has a key (characters or one parameter), the places of its children in
order and the index of a rule; a trie is the sequence of its nodes, `head_` first and
children behind their parents. `Add` is `Trie::add` (`Walk` its loop down the tree),
`optimize` merges what `optimizeNode` merges and leaves the places of the merged
nodes unused. `find` is the recursive search as a function of the node and the position in
the URL: `Takes` is what a child consumes there, `Through` the recursive call behind it,
`BestOf` the loop of `update_found`. `handle_initial` is the lookup with the
fallbacks for HEAD, OPTIONS, 404 and 405. `Routes` adds the declared rules one at a
time (`AddRule`, `RuleClashes`), and `Validate` compresses.

### RequestText and Requests

A text is a sequence of characters; field names are one letter. `Requests` composes
`Routes` with the handlers: `Serve(a)` routes a request's URL with the very trie,
and `Handle` runs the handler of the rule found, from the parsing of body and
query (`FieldOf`, `PostParam`, `qs_parse`, `stoi`) to the answer. `RequestOf` is the
text each page's `fetch` sends for what was entered in its form, with
`encodeURIComponent`, so that properties can compare what was meant (`form`) with
what happened. `Raw` has requests of other clients. The SDK's `SdkLog` puts the text
together, `Deliver` is the detached thread, which reads the key only then, `Lose`
its end with the program. The one worker's thread runs the handlers one after
another (Crow's default concurrency of 2), so a handler is one step of `Requests`.

An insert into a tree may replace the entry of the same id or stand beside it, where a split
has just moved that up: `Inserted` gives both outcomes, for changed settings and for traces,
whose ids start at 1 (`next_id`) over what an earlier process left. A descending sort of
more than `SortThreshold` entries with ties is `Undefined`: the answer may be made of lost,
doubled and foreign entries (`Garbled`), or the process ends (`Crashes`).

## 3. What TLC checks

| Run | Shows | Bounds |
|---|---|---|
| `btree_any` | `PagesFit`, `LinksWritten`, `FreshPages`, `NeverFull`, `PageZeroIsLeaf`, their inductive strengthening `IInv` (with the types), and `Balanced`, `Ordered` for arbitrary inserts and crashes | degree 2, 6 keys, inserts begin while page 6 is free |
| `btree_new` | `SingleCopy`, the refinement of `KeyStore` and `InsertEnds` when only new keys are inserted | degree 2, 5 keys |
| `trace_db` | `ReadersSee`, `OldestSurvive` | 9 ids, 2 projects, one trace that `is_valid` refuses |
| `users` | refinement of `Accounts`; `OneAccountEach`, `SuperAdmin`, and `StaysDeactivated`, that a deactivated email has no active account until it is registered again, of the accounts in the tree | 4 emails, 4 ids, 2 roles |
| `project_db` | refinement of `Projects`; `OneKeyEach`, `RevokedIsDead` of the projects in the tree | 5 ids, 5 keys, 2 owners |
| `rate_limiter` | refinement of `Throttle`; `RateKept`, `Recovers` of the buckets | one API key, requests without one and the global bucket; 5 seconds, a window of 2, buckets dropped after 2 |
| `connection` | `HandlersSeeWhatWasSent`, `AnswersFit`, `MalformedIsRefused`, `Watched`, `Released` | 7 rules of all kinds; 24 streams of one to three requests, 27 with text that is no request; reads of 1, 2, 5 or all tokens |
| `http_server` | `QueueLengths`, `OneDeadlineEach`, `WatchedUntilReuse`, `Ends` | 3 connections, 2 workers, a timeout of 1 tick; a peer sends at most twice, then is silent |
| `requests` | `FindsTheRule`, `DoesWhatWasAsked`, `ShowsWhatIsThere`, `TracesAsLogged`, `FilesStayInside`, `AdminsOnly` | every table of 3 out of 14 patterns for routing; the server's own 23 rules with empty and with filled databases, 2 requests in a row, 1 SDK call |

Why the bounds are enough: with degree 2 a node holds three entries, so four
inserts split the root, six with splits in both halves fill a second level, and
the nine of `trace_db` split an internal node and grow the root twice. A
crash is possible at every page write, several times. The account and project
runs reach a split root, a rebuild into a tree with a split root, crashes in it,
and the ids given out again after. The limiter runs cover buckets that fill up,
run dry, are dropped and come back, within more than two windows.

In `connection` reads of one token cut a stream at every place and reads of all
make every pipeline one buffer; between them the streams visit every state of the
parser that a request can reach and every error it reports, every way of writing
an answer, and each with another request behind it, which is where state that is not
reset would show. The header limit (40 tokens) and the length limit (35) are small
enough for streams to hit them. In `http_server` two connections share a worker
while the third is accepted, deadlines come up with and without others armed, and
the ids of a worker are reset with and without a connection that still holds one;
that a peer sends at most twice bounds how often its deadline is restarted, and `Ends` is about
peers that have fallen silent, at once or later, not about the bound.
In `requests` numbers have two digits and an int 16 values, so that `stoi`, `stoull`
and the router's `<int>` overflow; fields have four characters, so that they are cut;
three key-value pairs are the query parser's limit. Each request is followed by any
other, over databases with administrators, ordinary users, a deactivated administrator,
several projects and traces that tie, up to and beyond `SortThreshold`. One call of the SDK is
logged per behaviour; that calls may overtake each other is left to the theorem
`CallsAreStoredAsMade`, which is for any number of them.

**Fairness.** `btree_new` assumes weak fairness of the tree's steps: the thread
inside `insert` holds a mutex nobody waits for in turn and is run by the
scheduler. `connection` assumes that a posted `start`, the callback of a read that
has failed and a due deadline are run by the io_context in time; nothing is assumed
of the peer, which may be silent for ever, so `Released` rests on the deadline. In
`http_server` and `http_timeout` a worker that no write blocks ticks its timer and runs what was
posted to it and the ends of reads whose socket the deadline has closed. Nothing is assumed
of peers, of the ends of writes, of new connections, of signals, or that threads return. `Ends`
and `SilentPeersTimeOut` therefore name what they need: a worker that is not blocked for
ever. Each of these steps stays enabled until it is taken, what it acts on is over or a
write begins, and a worker that no write keeps for ever does run its io_context. `run()` is not shown
to return after a signal: with a peer that takes no answer it does not. The other runs assume none.

### Where code and documentation differ

These runs check one property each that the repository states and TLC refutes.

| Run | Stated | What happens |
|---|---|---|
| `btree_durable` | `docker-compose.yml:10`, `README.md:65`: persisted to disk | a restart takes page 0 for the root and finds one node of a larger tree; the super admin's account can be among what is lost |
| `requests_settings` | `README.md:276`: update thresholds | the handler parses the body as a URL, finds no `?` in it, and stores the defaults |
| `http_timeout` | `crow/app.h:336`: a connection timeout | a connection closed by its deadline cancels, by its old id, the deadline of one that was given the id after a reset (`crow/task_timer.h:143`); that one's silent peer stays |

Other disagreements were met while modelling. The models behave as the code does,
and where a property would fail for one of them it names the case:

* `BTree.hpp:170`: an entry that exists is updated. With a full node on the way the
  stored entry moves up in a split first and the update is inserted below it; two
  entries have one key. `SingleCopy` is stated for new keys only.
* `Database.hpp:27`: ids start at 1 in every process; new traces replace old ones.
* `frontend/workspace.html:710` says that deletion removes all trace data; the traces stay,
  and show up in the next project with that id. `DoesWhatWasAsked` leaves open which of the two
  a deletion means; it only says that no other project's traces change.
* `frontend/workspace.html:818` reads `project_id` from a listing that says `id`; its requests go to
  `/api/project/undefined`. `DoesWhatWasAsked` says that they change nothing.
* `crow/http_parser_merged.h:607`: `qs_point` counts from the start of this read's part of
  the URL. A URL cut by a read, or a second URL in one read, is split at the wrong
  place; `torn` marks these.
* `crow/http_connection.h`: a HEAD request refused for its missing `Host` leaves `skip_body` set for the
  answers after it; `Expect: 100-continue` clears the 404 of an unknown URL.
  `Clouded` says what these answers are (an empty 200; the right code and length without
  the body), so that `AnswersFit` allows them and no other.
* `server.cpp:739`: the descending comparator is no strict weak ordering when values
  are equal, and `std::sort` may leave its range beyond the length up to which it inserts.
  `ShowsWhatIsThere` says nothing of such a query.
* `README.md:274` to 284 describes routes and methods that do not exist.

## 4. What is proved

All proofs are for every value of the constants.

**B-tree** (`TreeProofs`). `Invariant`: `Spec => []IInv`; `TypeCorrect`,
`PagesAlwaysFit`, `LinksAlwaysWritten`, `PagesAlwaysFresh`, `NodesNeverFull` and
`PageZeroStaysLeaf` follow. Assumptions: `Degree >= 2`, keys are integers. The six
properties are not inductive on their own: the invariant adds what the writes
under way will do (`LinksDue`, `PageZeroDue`), that pages in use are below the
counter (`Allocated`), and that no node is its own child (`NotOwnChild`), without
which splitting a child could fill its parent. The proof has a lemma for each
action, over lemmas on `InsertAt`, `SubSeq` and on what `WritePage`, `ReadPage` and
`SplitChild` return. `NewKeysImplement` shows `NewSpec => Spec`.

**The tree** (also `TreeProofs`), for any inserts: `OrderedAlways`, `BalancedAlways`; for inserts
of new keys: `SingleCopyAlways` and `TreeImplementsKeyStore`, the refinement. The invariant
`Tree` is about `Cur`, the nodes as they are when the writes that are due have been made. It
says that there are a set `T` of pages, heights `h` and key spans `R` such that the pages of `T`
are a B-tree with root `root_page_id`, each child one lower than its parent and with the
keys its span allows, and that a running insert is at a node whose span has its key
(`Destined`). Heights and spans are witnesses, which the step that grows or splits a node
gives anew; a restart takes the part below page 0. With an insert of a stored key the keys
of a node need only not descend (`Tree(0)`, `TreeInvariant`), since the median of a split can
be equal to the key that goes below it; with new keys they ascend (`Tree(1)`, `NewTreeInvariant`).
Refinement needs more of what the file holds, `RInv`: a tree of several pages has more
entries than a node, but for the moment after the root was split (`Grown`), what page 0
has in the file is what `KeyStore` leaves to the next process (`Reopenable`), and between the
placing of an entry and its write only that entry is missing (`PlacedLast`).

`Values`, `Search`, `Height` and `Reachable` are recursive functions over pages. That they
have values on the pages of a tree, and only one, is shown by induction on the height
(`RankInd`, `Recursion`), and for the folds over the entries of a node on positions (`NatInd`).
The induction is over the sets for which a statement holds, which needs no
operator as a parameter: a set of naturals that is not empty has a least member. From these follow what the entries of a tree are (`Stored`), that they come in
order, that page 0 has the least of them, and that a search finds what has the key.

**Trace database** (`TraceProofs`): `ReadersAlwaysSee` and `OldestAlwaysSurvive`, from
`TraceInvariant`. The invariant is `AnyInv` and `TreeInv(1)` of the tree, and of the traces: this
process gave out the ids from 1 to `next_id - 1`, one each (`Logged`); those of the process
before it are numbered from 1 and fit into a page (`Found`); the tree has what is visible,
but for the insert under way, in whose place the trace found under the same id may still stand
(`Holding`); and page 0 of the file has the traces 1, 2, ... in order (`Oldest`). The count
starts from 1 in every process, so an insert does meet stored keys, and a split on its way could
then store one twice. It does not, because what a process finds has ids that fit into a page:
once the tree has pages below the root, none of them that is full has the next id
(`NextSpared`). `Tree(1)` therefore asks only that no full node has the key
(`Spared`), not that no node has. `Oldest`
is what `OldestAlwaysSurvive` rests on: once the root is split, page 0 is its
leftmost leaf, and a later id never goes there. That the two readers' loop keeps the
right traces once each (`ChosenIs`), and that a search ends at its key (`SearchFinds`), are
inductions on positions and heights.

**Accounts** (`AccountsProofs`) are about the code's own tree: `UserInvariant`,
`UsersImplementAccounts` (the refinement), and through it `AccountsUnique`, `SuperAdminSafe` and
`DeactivationLasts`. `UserInv` is `IInv` and `RInv` of the tree, that what a
rebuild has still to insert has keys of its own (`Ready`), and the invariant of `Accounts`. Emails are
inserted only when new, also by a rebuild, so the lemmas of the `KeyStore` refinement apply to
each step of the tree. Uniqueness needs that all ids are below the counter, which is
what the constructor establishes from the entries a restart leaves. `DeactivationLasts`
is about the history `barred`: a deactivation puts the account's email there, a registration takes
it out, which needs that the email is unknown, and no role change, rebuild or end of the process
makes an account of such an email active. It does not say more: once a restart has
lost the account, its email can be registered again and is active then. `PromiseUnique`,
`PromiseAdmin` and `PromiseLasts` say the same of `Accounts`.

**Projects** (`ProjectsProofs`), likewise: `ProjectInvariant`, `DBImplementsProjects`,
`KeysUnique`, `RevokedStaysDead`, and `PromiseKeys`, `PromiseRevoked` of `Projects`. Here an entry is
updated, and a full node on its way may then leave the old entry next to the new one, so
the argument for new keys does not apply. `AnyInv` is what holds for inserts of any keys;
`StepKept` says of a step that nothing is stored which was neither stored nor on
its way, and that no key is lost. That is enough because a project with an id is the
same project, whichever of its entries is found. `ProjectInv` adds that what page 0 has in the
file is a project still, whatever is about to be written.

**Rate limiter** (`TraceProofs`, whose two halves are those of `POST /log`). `LimiterImplements` shows that the buckets implement
the meters of `Throttle`; it takes the invariant `BucketsInv` (`LimiterInvariant`) that no bucket holds
more than its capacity or is ahead of the clock, and one lemma per operation. The assumption
`Stale >= Window` (3600 and 60 seconds in the code) is what makes a dropped bucket
unnoticed. `MeterInvariant` is the invariant of `Throttle`, of the levels that the buckets
show, and `LimiterRateKept` and `LimiterRecovers` follow from it. It is a potential:
what a meter holds plus what it let pass since any earlier request is at most its
capacity plus its gain since then (`Budget`), and it has regained since its last request
what time allows (`Regained`). `LimiterRecovers` speaks of the caller's own bucket: `allow_request` asks
the global bucket first, which others may have emptied.

**Server and timers** (`HttpServerProofs`), for any number of workers, connections and reads
and any timeout. `QueueLengthsKept`: the counts that accepting balances by are right.
`DeadlinesKept`: an armed deadline is its connection's own and only one. `WatchedKept`: every
connection that reads has one, but for those another has robbed of it, and nobody robs before ids
were reset under a connection still to end. These are not inductive: that a
connection cancels nobody else's deadline needs that the ids it may still hold are not given out
again, so `HInv` adds that armed ids are between 1 and `highest_id` (`Issued`), that a
connection not started holds 0 (`Unstarted`), and that every other holds an id that was issued and
is armed, if at all, for itself, unless `reused` (`Owned`).

**HTTP connection** (`HttpConnectionProofs`), for any rules, streams, limits and ways to cut
a stream into reads: `WatchedAlways`, from `ConnectionInvariant`. A connection is kept by its read
or by nothing: one that reads has its deadline armed, and while the peer is there and the
deadline has not closed the socket its parser has reported no error; one that neither
starts nor reads is destroyed. `CInv` adds what makes this survive a read, which is the
whole parser run over any sequence of tokens and, in its callbacks, the routing, the handler, the
answer and its write: `Between` two tokens the states, errors and flags the parser can have, and
that `close_connection_`, the flags of `complete_request` and what the socket is agree. `Step`
keeps `Between` state by state of `http_parser_execute`, each callback has a lemma, and a
read is an induction over its tokens (`after` of `http_parser_execute` is a recursive function).

**Router** (`RouterProofs`), for any table of rules and any URL: `RouterInvariant`,
`LookupFindsTheRule` (the property `FindsTheRule`). `RouterInv` says of the tries of all methods
that they are trees whose paths are the rules added so far, one node at the end of each
(`IsTrie`, with the paths of the nodes as a function); `Add` extends that function by the
nodes it appends, `optimize` joins the paths of the nodes it merges and loses none. That the
recursive `find` returns the best of all matches is an induction on the height of a node
(`RankInd`): `Takes` consumes what the node's key says, `BestOf` is the minimum by rule index,
and the matches below a node are those below its children.

**Names of static files** (also there): `StaticFilesStayInside`. The name a handler gets is the one
its URL has behind `/static/`, because no other of the server's rules matches such a URL
(`StaticRoute`, `OtherRules`, by `LookupFindsTheRule`); and what `sanitize_filename` makes of any
name has no `..` between separators and no separator in front (`NoParent`, an induction on the
rest of the name, for both answers to whether an entry begins there).

**What is logged** (also there): `CallsAreStoredAsMade` (the property `TracesAsLogged`). `TraceInv`
adds to it that a call with a sender is not stored, that senders are calls, and that what
`post_data` writes can be read back: a field's name followed by `=` stands in a body only where
`post_data` puts it, as `Kept` texts have neither `&` nor `=`; the last value of a name is the only
one; a number's numeral is read as that number. `sanitize_string` leaves no `<` and no quote
whatever it is given, and changes nothing in `Kept` texts but their length.

**What the pages ask for** (`RequestsProofs`, which extends `RouterProofs`): `RequestsDoWhatWasAsked` (the property `DoesWhatWasAsked`),
for all texts and numbers in the forms and all databases. For each page it is shown that its URL
matches its rule and no other of the server's (`OnlyRule`, by method and by the first token that
differs; then `LookupFindsTheRule` applies); that what `encodeURIComponent` writes, `url_decode`, `qs_decode`,
`FieldOf` and `PostParam` read back (the escapes by induction on the text, as an escaped text has
none of the separators); and that the handler, called with this, does what `Meant` says. `DataInv` says
of the databases that they are lists and that projects have ids and keys given out so far.

**What is shown** (also there): `ListingsShowWhatIsThere` (`ShowsWhatIsThere`), from `DataInv`: the readers
are selections from the databases, what a defined sort may leave is a permutation in order
whose beginning is the answer, and the average of the statistics lies between
their minimum and maximum.

**Who may change accounts** (also there): `OnlyAdminsChangeAccounts` (`AdminsOnly`), for any requests whatever,
from the guards of the three handlers that change accounts; all others are shown to leave them
alone.

Assumptions on the constants, which TLC evaluates on the runs: `AsksAssumption` (clients send texts,
with methods Crow knows), `FormsAssumption` (the pages send texts, numbers an int can hold, and what
their menus offer), `DatabasesAssumption` (what a database holds at the start was put there by the
server: ids and keys were given out), `TracesAssumption` (`log` is called with texts and with numbers
that have a numeral; stored traces are as the server stores them), and those on sizes
(`TextAssumption`, `SortAssumption`).

**Model-checked only**: liveness (`InsertEnds`, `Released`, `Ends`), which needs
ENABLED. Of `HttpConnection` the properties that compare what a handler got or a peer was
answered with what the stream says (`HandlersSeeWhatWasSent`, `AnswersFit`, `MalformedIsRefused`): each
of the runs' streams is given with the requests in it, so they speak of those streams, and a
theorem for all would need a grammar of HTTP for the parser to implement.

## 5. What is not modelled

* Byte layout of nodes and page numbers whose offset overflows an int (files beyond
  2 GB); I/O errors, which the code does not check.
* Password and email hashing, and collisions. Doubles are taken as exact.
* The JSON of answers: what they show is data, not text. The logger. `validate_pagination`,
  `validate_email` and the collaborator and audit types, which nobody calls.
* The rest of Crow: JSON, websockets beyond the refused upgrade, templates, multipart, sessions,
  cookies, CORS, compression, blueprints, middlewares, TLS. The program uses none of it.
* How long a blocking write takes: a peer that does not read stops the only worker
  (`crow/http_connection.h:442`). Nothing in the code bounds it; `HttpServer` lets it last for ever,
  in `HttpConnection` a write is one step.
* Handlers run by several threads: the program has one worker. With more, `has_permission` and the
  change it allows, or a key's lookup and the storing of its trace, could have others between them.
* What the pages display, and their polling every two seconds. Deployment, but for its
  restarting of the server.
* An API key spelt `__anonymous__`, which would share the bucket of requests without one.
* Races on the SDK's global strings, which are taken to yield the old or the new value.

`Requests` has no restarts: the database modules have them.

## 6. Plan

1. An abstract trace store that `TraceDB` implements and `Requests` instantiates; the invariant
   of `TraceProofs` is what its refinement would rest on.
2. `HttpConnection` and `HttpServer` composed, with the requests under way when the server stops.
3. The pages' polling with overlapping answers, and `ScopeTracer`'s nesting.
4. A grammar of requests, with which the parser's properties could be stated for every stream.
