----------------------------- MODULE HttpServer -----------------------------
(***************************************************************************)
(* The server around the connections (http_server.h) and the timers of its *)
(* workers (task_timer.h): the main thread accepts, every connection lives *)
(* on the io_context of one worker, whose thread runs its callbacks and    *)
(* the tick of the worker's task_timer one at a time.                      *)
(*                                                                         *)
(* HttpConnection has what happens in the callbacks of a connection.  Here *)
(* it only matters what they do to its deadline, whether it reads again,   *)
(* and that answers are written by blocking calls: until the peer has      *)
(* taken one, the worker's thread does nothing else.  A deadline is known  *)
(* by an id, which the connection keeps in task_id_ and never forgets.     *)
(***************************************************************************)
EXTENDS Integers, FiniteSets, Functions

CONSTANTS Conn,       \* connections, each made once
          Workers,    \* concurrency_ - 1
          Timeout,    \* default_timeout_, in ticks
          MaxReads    \* bound: a peer that has sent this often falls silent

Worker == 0..(Workers - 1)
NoConn == "none"

ASSUME ServerAssumption ==
  /\ IsFiniteSet(Conn) /\ NoConn \notin Conn
  /\ Workers \in Nat \ {0} /\ Timeout \in Nat /\ MaxReads \in Nat

VARIABLES run,            \* how far run() is: "new", "workers", "accepting", "stopped", "returned"
          loop,           \* each worker's thread: "new", "running", "returned"
          accepting,      \* the connection async_accept waits for
          pc,             \* where each connection is
          worker,         \* the worker a connection was given to
          task_id,        \* task_id_ of each connection
          reads,          \* how often each peer has sent something, MaxReads once it is silent
          tasks,          \* tasks_ of each worker: id -> [conn, left]
          highest_id,     \* highest_id_ of each worker
          queue_length,   \* task_queue_length_pool_
          reused,         \* history: ids were reset before a closed connection was told
          robbed          \* history: whose deadline another connection has cancelled

connVars  == <<pc, worker, task_id, reads>>
timerVars == <<tasks, highest_id, reused, robbed>>
vars      == <<run, loop, accepting, connVars, timerVars, queue_length>>

NoTasks == [id \in {} |-> [conn |-> NoConn, left |-> 0]]

-----------------------------------------------------------------------------
(* task_timer. *)

cancel(w, id) == [tasks EXCEPT ![w] = RestrictDomain(@, LAMBDA i : i # id)]

\* The connection that a cancel of this id takes the deadline from.
Victim(w, id) == {tasks[w][i].conn : i \in DOMAIN tasks[w] \cap {id}}

\* cancel_deadline_timer on worker w: the id may long be another connection's.
CancelDeadline(w, c) ==
  /\ tasks' = cancel(w, task_id[c])
  /\ robbed' = robbed \cup (Victim(w, task_id[c]) \ {c})

\* schedule: the next id, in the tasks left by a cancel.
Schedule(left, w, c) ==
  LET id == highest_id[w] + 1
  IN /\ tasks' = [left EXCEPT
                    ![w] = [i \in DOMAIN @ \cup {id} |->
                              IF i = id THEN [conn |-> c, left |-> Timeout] ELSE @[i]]]
     /\ highest_id' = [highest_id EXCEPT ![w] = id]
     /\ task_id' = [task_id EXCEPT ![c] = id]

\* Mutant: the old deadline is not cancelled.
Deadline_notCancelled(w, c) ==
  /\ Schedule(tasks, w, c)
  /\ robbed' = robbed \ {c}

\* start_deadline: the old id is cancelled, a new one issued.
Deadline(w, c) ==
  /\ Schedule(cancel(w, task_id[c]), w, c)
  /\ robbed' = (robbed \cup Victim(w, task_id[c])) \ {c}

Expired(w) == {i \in DOMAIN tasks[w] : tasks[w][i].left = 0}
Closed(w)  == {tasks[w][i].conn : i \in Expired(w)}

\* The worker's thread runs its io_context and is not kept by a peer that takes no answer.
Blocked(w) == \E c \in Conn : worker[c] = w /\ pc[c] = "writing"
Serves(w)  == loop[w] = "running" /\ run # "stopped" /\ ~Blocked(w)

\* Mutants: the ids start again while deadlines are armed; the task of a due deadline does nothing.
Tick_resetsAlways(w) ==
  /\ Serves(w)
  /\ LET kept == [i \in DOMAIN tasks[w] \ Expired(w) |->
                    [tasks[w][i] EXCEPT !.left = @ - 1]]
         told == {c \in Conn : worker[c] = w /\ pc[c] = "aborted"} \cup Closed(w)
     IN /\ tasks' = [tasks EXCEPT ![w] = kept]
        /\ highest_id' = [highest_id EXCEPT ![w] = 0]
        /\ reused' = (reused \/ (kept = NoTasks /\ told # {}))
        /\ pc' = [c \in Conn |-> IF c \in Closed(w) THEN "aborted" ELSE pc[c]]
  /\ UNCHANGED <<run, loop, accepting, worker, task_id, reads, robbed, queue_length>>

Tick_closesNothing(w) ==
  /\ Serves(w)
  /\ LET kept == [i \in DOMAIN tasks[w] \ Expired(w) |->
                    [tasks[w][i] EXCEPT !.left = @ - 1]]
     IN /\ tasks' = [tasks EXCEPT ![w] = kept]
        /\ highest_id' = [highest_id EXCEPT ![w] = IF kept = NoTasks THEN 0 ELSE @]
  /\ UNCHANGED <<run, loop, accepting, connVars, queue_length, reused, robbed>>

\* tick_handler, and the bodies of the tasks that are due.  When none is left, the ids start again.
Tick(w) ==
  /\ Serves(w)
  /\ LET kept == [i \in DOMAIN tasks[w] \ Expired(w) |->
                    [tasks[w][i] EXCEPT !.left = @ - 1]]
         told == {c \in Conn : worker[c] = w /\ pc[c] = "aborted"} \cup Closed(w)
     IN /\ tasks' = [tasks EXCEPT ![w] = kept]
        /\ highest_id' = [highest_id EXCEPT ![w] = IF kept = NoTasks THEN 0 ELSE @]
        /\ reused' = (reused \/ (kept = NoTasks /\ told # {}))
        /\ pc' = [c \in Conn |-> IF c \in Closed(w) THEN "aborted" ELSE pc[c]]
  /\ UNCHANGED <<run, loop, accepting, worker, task_id, reads, robbed, queue_length>>

-----------------------------------------------------------------------------
(* Starting, accepting and stopping. *)

Init ==
  /\ run = "new"
  /\ loop = [w \in Worker |-> "new"]
  /\ accepting = NoConn
  /\ pc = [c \in Conn |-> "none"]
  /\ worker = [c \in Conn |-> 0]
  /\ task_id = [c \in Conn |-> 0]
  /\ reads = [c \in Conn |-> 0]
  /\ tasks = [w \in Worker |-> NoTasks]
  /\ highest_id = [w \in Worker |-> 0]
  /\ queue_length = [w \in Worker |-> 0]
  /\ reused = FALSE
  /\ robbed = {}

\* The constructor binds and listens, run() starts the threads or gives up.
Listen(ok) ==
  /\ run = "new"
  /\ run' = IF ok THEN "workers" ELSE "returned"
  /\ UNCHANGED <<loop, accepting, connVars, timerVars, queue_length>>

\* A worker's thread makes its timer and counts itself in.
WorkerReady(w) ==
  /\ run = "workers" /\ loop[w] = "new"
  /\ loop' = [loop EXCEPT ![w] = "running"]
  /\ queue_length' = [queue_length EXCEPT ![w] = 0]
  /\ UNCHANGED <<run, accepting, connVars, timerVars>>

\* pick_io_context_idx: the first of the workers with the fewest connections.
Picked(lengths) ==
  CHOOSE w \in Worker : \A j \in Worker : /\ lengths[w] <= lengths[j]
                                          /\ j < w => lengths[w] < lengths[j]

\* do_accept: a connection is made before its peer is there, and counted.
do_accept(pcs, lengths) ==
  LET new == {c \in Conn : pcs[c] = "none"}
      c   == CHOOSE c \in new : TRUE
      w   == Picked(queue_length)
  IN IF new = {}
     THEN /\ accepting' = NoConn /\ pc' = pcs /\ queue_length' = lengths
          /\ UNCHANGED worker
     ELSE /\ accepting' = c
          /\ pc' = [pcs EXCEPT ![c] = "accepting"]
          /\ worker' = [worker EXCEPT ![c] = w]
          /\ queue_length' = [lengths EXCEPT ![w] = @ + 1]

\* run() once every worker is in.
StartAccepting ==
  /\ run = "workers" /\ \A w \in Worker : loop[w] = "running"
  /\ run' = "accepting"
  /\ do_accept(pc, queue_length)
  /\ UNCHANGED <<loop, task_id, reads, timerVars>>

\* Mutant: a connection that ends stays counted.
Left_counted(lengths, c) == lengths

Left(lengths, c) == [lengths EXCEPT ![worker[c]] = @ - 1]

\* async_accept's callback: start() is posted to the worker, or the connection is given up.  It goes
\* with the callback, after do_accept() has picked a worker for the next one.
Accept(ok) ==
  /\ run = "accepting" /\ accepting # NoConn
  /\ IF ok THEN do_accept([pc EXCEPT ![accepting] = "posted"], queue_length)
           ELSE do_accept([pc EXCEPT ![accepting] = "gone"], Left(queue_length, accepting))
  /\ UNCHANGED <<run, loop, task_id, reads, timerVars>>

\* A signal: stop() closes the acceptor and stops every io_context, whose threads then return.
Stop ==
  /\ run = "accepting"
  /\ run' = "stopped"
  /\ UNCHANGED <<loop, accepting, connVars, timerVars, queue_length>>

\* Not before it is done with the callback it is in.
WorkerReturns(w) ==
  /\ run = "stopped" /\ loop[w] = "running" /\ ~Blocked(w)
  /\ loop' = [loop EXCEPT ![w] = "returned"]
  /\ UNCHANGED <<run, accepting, connVars, timerVars, queue_length>>

\* The futures of the workers are waited for as run() is left.
RunReturns ==
  /\ run = "stopped" /\ \A w \in Worker : loop[w] = "returned"
  /\ run' = "returned"
  /\ UNCHANGED <<loop, accepting, connVars, timerVars, queue_length>>

-----------------------------------------------------------------------------
(* The callbacks of a connection. *)

\* Connection::start.
Start(c) ==
  /\ Serves(worker[c]) /\ pc[c] = "posted"
  /\ pc' = [pc EXCEPT ![c] = "reading"]
  /\ Deadline(worker[c], c)
  /\ UNCHANGED <<run, loop, accepting, worker, reads, queue_length, reused>>

\* A peer that keeps the connection open and says nothing on it any more.
Silent(c) == reads[c] = MaxReads

\* Something from the peer, or its end.
Hears(c) == Serves(worker[c]) /\ pc[c] = "reading" /\ ~Silent(c)

\* A part of a request.
ReadPart(c) ==
  /\ Hears(c)
  /\ reads' = [reads EXCEPT ![c] = @ + 1]
  /\ Deadline(worker[c], c)
  /\ UNCHANGED <<run, loop, accepting, pc, worker, queue_length, reused>>

\* A request, whose answer is written: handle() cancels the deadline first, an unknown URL does not.
ReadRequest(c, routed) ==
  /\ Hears(c)
  /\ reads' = [reads EXCEPT ![c] = @ + 1]
  /\ pc' = [pc EXCEPT ![c] = "writing"]
  /\ IF routed THEN CancelDeadline(worker[c], c) ELSE UNCHANGED <<tasks, robbed>>
  /\ UNCHANGED <<run, loop, accepting, worker, task_id, highest_id, queue_length, reused>>

\* The peer has taken the answer, or is gone; the connection reads again.
WriteEnds(c) ==
  /\ pc[c] = "writing"
  /\ pc' = [pc EXCEPT ![c] = "reading"]
  /\ Deadline(worker[c], c)
  /\ UNCHANGED <<run, loop, accepting, worker, reads, queue_length, reused>>

\* The last callback of a connection ends: its answer closes it, the parser or the socket has failed,
\* or the deadline has closed the socket.  The destructor counts it out.
Ending(c) ==
  /\ pc' = [pc EXCEPT ![c] = "gone"]
  /\ CancelDeadline(worker[c], c)
  /\ queue_length' = Left(queue_length, c)
  /\ UNCHANGED <<run, loop, accepting, worker, task_id, reads, highest_id, reused>>

LastAnswer(c) == pc[c] = "writing" /\ Ending(c)
ReadFails(c)  == Hears(c) /\ Ending(c)
Aborted(c)    == Serves(worker[c]) /\ pc[c] = "aborted" /\ Ending(c)

FallSilent(c) ==
  /\ pc[c] \in {"posted", "reading", "writing"} /\ ~Silent(c)
  /\ reads' = [reads EXCEPT ![c] = MaxReads]
  /\ UNCHANGED <<run, loop, accepting, pc, worker, task_id, timerVars, queue_length>>

Done == run = "returned" /\ UNCHANGED vars

Next ==
  \/ \E ok \in BOOLEAN : Listen(ok) \/ Accept(ok)
  \/ StartAccepting \/ Stop \/ RunReturns \/ Done
  \/ \E w \in Worker : WorkerReady(w) \/ WorkerReturns(w) \/ Tick(w)
  \/ \E c \in Conn :
       \/ Start(c) \/ ReadPart(c) \/ WriteEnds(c) \/ FallSilent(c)
       \/ LastAnswer(c) \/ ReadFails(c) \/ Aborted(c)
       \/ \E routed \in BOOLEAN : ReadRequest(c, routed)

\* A worker that no peer blocks runs what was posted to it, the ends of reads whose socket was
\* closed, and its timer.  Nothing is assumed of peers, of the writes to them, and of signals.
Fairness ==
  /\ \A w \in Worker : WF_vars(Tick(w))
  /\ \A c \in Conn : WF_vars(Start(c)) /\ WF_vars(Aborted(c))

Spec == Init /\ [][Next]_vars /\ Fairness

-----------------------------------------------------------------------------
(* Properties. *)

Where == {"none", "accepting", "posted", "reading", "writing", "aborted", "gone"}

TypeOK ==
  /\ run \in {"new", "workers", "accepting", "stopped", "returned"}
  /\ loop \in [Worker -> {"new", "running", "returned"}]
  /\ accepting \in Conn \cup {NoConn}
  /\ pc \in [Conn -> Where]
  /\ worker \in [Conn -> Worker]
  /\ task_id \in [Conn -> Nat] /\ highest_id \in [Worker -> Nat]
  /\ reads \in [Conn -> 0..MaxReads]
  /\ robbed \subseteq Conn
  /\ \A w \in Worker : \A i \in DOMAIN tasks[w] : tasks[w][i] \in [conn : Conn, left : 0..Timeout]
  /\ queue_length \in [Worker -> Nat]
  /\ reused \in BOOLEAN

\* The number do_accept balances by is the number of connections of that worker that exist, the
\* one that waits for its peer included (the constructor and the destructor of Connection, run
\* by two threads).
QueueLengths ==
  \A w \in Worker : queue_length[w] =
    Cardinality({c \in Conn : worker[c] = w /\ pc[c] \notin {"none", "gone"}})

\* A deadline that is armed is the only one of its connection, was armed by it and not by an
\* earlier request, and closes a connection that still reads or is being answered (start_deadline,
\* cancel, the reset of the ids).
OneDeadlineEach ==
  \A w \in Worker : \A i \in DOMAIN tasks[w] :
    LET c == tasks[w][i].conn
    IN worker[c] = w /\ pc[c] \in {"reading", "writing"} /\ task_id[c] = i /\ i <= highest_id[w]

Watches(c) == \E i \in DOMAIN tasks[worker[c]] : tasks[worker[c]][i].conn = c

\* Every connection that reads has a deadline, except where another one has cancelled it by its old
\* id; and that happens only after the ids of a worker were reset while a connection closed by its
\* deadline had still to end.
WatchedUntilReuse ==
  /\ \A c \in Conn : pc[c] = "reading" => Watches(c) \/ c \in robbed
  /\ robbed # {} => reused

Stopped    == run \in {"stopped", "returned"}
Waiting(c) == Silent(c) /\ pc[c] \notin {"none", "accepting", "gone"}

\* A connection whose peer has fallen silent, be it at once or after any requests, is closed in the
\* end and destroyed, if its worker is not blocked for ever by a peer that takes no answer: unless
\* another connection has cancelled its deadline, or the server stops.  (A peer that goes on sending
\* has its deadline restarted every time and may stay as long as it likes.)
Ends ==
  \A c \in Conn :
    []<>~Blocked(worker[c]) => (Waiting(c) ~> (pc[c] = "gone" \/ c \in robbed \/ Stopped))

\* app.h:336, "Set the connection timeout in seconds (default is 5)": there is a time after which the
\* connection of a silent peer is closed, whatever the other connections do.
SilentPeersTimeOut ==
  \A c \in Conn : []<>~Blocked(worker[c]) => (Waiting(c) ~> (pc[c] = "gone" \/ Stopped))
=============================================================================
