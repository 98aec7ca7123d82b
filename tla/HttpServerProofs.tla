-------------------------- MODULE HttpServerProofs --------------------------
(***************************************************************************)
(* The server's counts and deadlines, for any number of workers and        *)
(* connections, any timeout and any bound on the reads.                    *)
(*                                                                         *)
(* OneDeadlineEach and WatchedUntilReuse are not inductive alone.  That a  *)
(* connection cancels nobody else's deadline needs that the ids it may     *)
(* still hold are not handed out again: the ids armed are between 1 and    *)
(* highest_id (Issued), a connection that has not started holds 0          *)
(* (Unstarted), and any other holds an id that was issued and, if it is    *)
(* armed, is armed for itself, unless ids were reset (Owned).              *)
(***************************************************************************)
EXTENDS HttpServer, FiniteSetTheorems, WellFoundedInduction, TLAPS

Alive == {"accepting", "posted", "reading", "writing", "aborted"}

Started == {"reading", "writing", "aborted"}

Lives(pcs, workers, w) == {c \in Conn : workers[c] = w /\ pcs[c] \in Alive}

Counted(pcs, workers, lengths) ==
  /\ lengths \in [Worker -> Nat]
  /\ \A w \in Worker : lengths[w] = Cardinality(Lives(pcs, workers, w))

\* No connection before run() accepts.
NoneYet == run \in {"new", "workers"} => accepting = NoConn /\ \A c \in Conn : pc[c] = "none"

Awaited == accepting # NoConn => pc[accepting] = "accepting"

Issued == DOMAIN tasks = Worker /\ \A w \in Worker : DOMAIN tasks[w] \subseteq 1..highest_id[w]

Unstarted == \A c \in Conn : pc[c] \in {"none", "accepting", "posted"} => task_id[c] = 0

Owns(c, w) ==
  /\ task_id[c] <= highest_id[w]
  /\ task_id[c] \in DOMAIN tasks[w] => tasks[w][task_id[c]].conn = c

Owned == ~reused => \A c \in Conn : pc[c] \in Started => Owns(c, worker[c])

HInv ==
  /\ TypeOK /\ QueueLengths /\ NoneYet /\ Awaited
  /\ Issued /\ Unstarted /\ OneDeadlineEach /\ WatchedUntilReuse /\ Owned

-----------------------------------------------------------------------------
(* The workers and their numbers.                                          *)

Less == {ss \in Nat \X Nat : ss[1] < ss[2]}

\* A set of natural numbers has a least one.
LEMMA Least == ASSUME NEW T \in SUBSET Nat, T # {} PROVE \E x \in T : \A y \in T : x <= y
<1>1. IsWellFoundedOn(Less, Nat)
  BY NatLessThanWellFounded DEF OpToRel, Less
<1>2. \E x \in T : \A y \in T : ~(<<y, x>> \in Less)
  BY <1>1, WFMin
<1>3. ASSUME NEW x \in T, NEW y \in T, ~(<<y, x>> \in Less) PROVE x <= y
  <2>1. <<y, x>> \in Nat \X Nat OBVIOUS
  <2>2. ~(<<y, x>>[1] < <<y, x>>[2]) BY <2>1, <1>3 DEF Less
  <2> QED BY <2>2
<1> QED BY <1>2, <1>3

\* pick_io_context_idx finds a worker.
LEMMA PickedIsWorker == ASSUME NEW lengths \in [Worker -> Nat] PROVE Picked(lengths) \in Worker
<1> DEFINE Values == {lengths[w] : w \in Worker}
<1>1. Values \in SUBSET Nat /\ Values # {}
  BY ServerAssumption DEF Worker
<1>2. PICK least \in Values : \A y \in Values : least <= y
  BY <1>1, Least
<1> DEFINE Shortest == {w \in Worker : lengths[w] = least}
<1>3. Shortest \in SUBSET Nat /\ Shortest # {}
  BY <1>2, ServerAssumption DEF Worker
<1>4. PICK w \in Shortest : \A v \in Shortest : w <= v
  BY <1>3, Least
<1>5. w \in Worker /\ \A j \in Worker : lengths[w] <= lengths[j] /\ (j < w => lengths[w] < lengths[j])
  <2>1. w \in Worker /\ lengths[w] = least
    BY <1>4
  <2>2. ASSUME NEW j \in Worker PROVE lengths[w] <= lengths[j] /\ (j < w => lengths[w] < lengths[j])
    <3>1. lengths[j] \in Values /\ least <= lengths[j] /\ lengths[j] \in Nat /\ least \in Nat
      BY <1>1, <1>2
    <3>2. lengths[j] = least => w <= j
      BY <1>4
    <3>3. w \in Nat /\ j \in Nat
      BY <2>1, ServerAssumption DEF Worker
    <3> QED BY <2>1, <3>1, <3>2, <3>3
  <2> QED BY <2>1, <2>2
<1> QED BY <1>5 DEF Picked

-----------------------------------------------------------------------------
(* Counting connections.                                                   *)

\* The connections that live on a worker can be counted.
LEMMA LivesFinite == ASSUME NEW pcs, NEW workers, NEW w
                     PROVE  IsFiniteSet(Lives(pcs, workers, w)) /\ Cardinality(Lives(pcs, workers, w)) \in Nat
<1>1. Lives(pcs, workers, w) \in SUBSET Conn BY DEF Lives
<1> QED BY <1>1, ServerAssumption, FS_Subset, FS_CardinalityType

\* A connection that comes to live on a worker counts there.
LEMMA Joins ==
  ASSUME NEW pcs \in [Conn -> Where], NEW workers \in [Conn -> Worker], NEW lengths,
         Counted(pcs, workers, lengths), NEW c \in Conn, pcs[c] \notin Alive, NEW v \in Worker,
         NEW there \in Alive
  PROVE  Counted([pcs EXCEPT ![c] = there], [workers EXCEPT ![c] = v], [lengths EXCEPT ![v] = @ + 1])
<1> DEFINE P == [pcs EXCEPT ![c] = there]
           W == [workers EXCEPT ![c] = v]
           L == [lengths EXCEPT ![v] = @ + 1]
<1>1. L \in [Worker -> Nat] BY DEF Counted
<1>2. ASSUME NEW w \in Worker PROVE L[w] = Cardinality(Lives(P, W, w))
  <2>1. CASE w = v
    <3>1. Lives(P, W, w) = Lives(pcs, workers, w) \cup {c} /\ c \notin Lives(pcs, workers, w)
      BY <2>1 DEF Lives
    <3>2. Cardinality(Lives(pcs, workers, w) \cup {c}) = Cardinality(Lives(pcs, workers, w)) + 1
      BY <3>1, LivesFinite, FS_AddElement
    <3> QED BY <2>1, <3>1, <3>2 DEF Counted
  <2>2. CASE w # v
    <3>1. Lives(P, W, w) = Lives(pcs, workers, w)
      BY <2>2 DEF Lives
    <3> QED BY <2>2, <3>1 DEF Counted
  <2> QED BY <2>1, <2>2
<1> QED BY <1>1, <1>2 DEF Counted

\* One that ends is counted out where it lived.
LEMMA Leaves ==
  ASSUME pc \in [Conn -> Where], worker \in [Conn -> Worker], NEW lengths,
         Counted(pc, worker, lengths), NEW c \in Conn, pc[c] \in Alive
  PROVE  Counted([pc EXCEPT ![c] = "gone"], worker, Left(lengths, c))
<1> DEFINE P == [pc EXCEPT ![c] = "gone"]
           L == [lengths EXCEPT ![worker[c]] = @ - 1]
<1>1. ASSUME NEW w \in Worker
      PROVE  L[w] \in Nat /\ L[w] = Cardinality(Lives(P, worker, w))
  <2>1. CASE w = worker[c]
    <3>1. Lives(P, worker, w) = Lives(pc, worker, w) \ {c} /\ c \in Lives(pc, worker, w)
      BY <2>1 DEF Lives, Alive
    <3>2. Cardinality(Lives(pc, worker, w) \ {c}) = Cardinality(Lives(pc, worker, w)) - 1
      BY <3>1, LivesFinite, FS_RemoveElement
    <3>3. Cardinality(Lives(P, worker, w)) \in Nat
      BY LivesFinite
    <3> QED BY <2>1, <3>1, <3>2, <3>3 DEF Counted
  <2>2. CASE w # worker[c]
    <3>1. Lives(P, worker, w) = Lives(pc, worker, w)
      BY <2>2 DEF Lives
    <3> QED BY <2>2, <3>1 DEF Counted
  <2> QED BY <2>1, <2>2
<1>2. L \in [Worker -> Nat] BY <1>1 DEF Counted
<1> QED BY <1>1, <1>2 DEF Counted, Left

\* One that goes on living is counted on.
LEMMA Stays ==
  ASSUME NEW pcs, NEW later, NEW lengths, Counted(pcs, worker, lengths),
         \A c \in Conn : pcs[c] \in Alive <=> later[c] \in Alive
  PROVE  Counted(later, worker, lengths)
<1>1. ASSUME NEW w \in Worker PROVE Lives(later, worker, w) = Lives(pcs, worker, w)
  BY DEF Lives
<1> QED BY <1>1 DEF Counted

\* QueueLengths is Counted of the state as it is.
LEMMA CountedNow == TypeOK => (QueueLengths <=> Counted(pc, worker, queue_length))
<1> SUFFICES ASSUME TypeOK PROVE QueueLengths <=> Counted(pc, worker, queue_length)
  OBVIOUS
<1>1. \A w \in Worker : Lives(pc, worker, w) = {c \in Conn : worker[c] = w /\ pc[c] \notin {"none", "gone"}}
  BY DEF TypeOK, Lives, Alive, Where
<1> QED BY <1>1 DEF TypeOK, QueueLengths, Counted

\* The same after a step.
LEMMA CountedThen == ASSUME TypeOK', Counted(pc', worker', queue_length') PROVE QueueLengths'
<1>1. \A w \in Worker : Lives(pc', worker', w) = {c \in Conn : worker'[c] = w /\ pc'[c] \notin {"none", "gone"}}
  BY DEF TypeOK, Lives, Alive, Where
<1> QED BY <1>1 DEF QueueLengths, Counted

-----------------------------------------------------------------------------
(* What the parts of an action do.                                         *)

\* do_accept: a free connection waits for a client on the worker that was picked, if there is one.
LEMMA Accepts ==
  ASSUME TypeOK, NEW pcs \in [Conn -> Where], NEW lengths, Counted(pcs, worker, lengths),
         do_accept(pcs, lengths)
  PROVE  /\ accepting' \in Conn \cup {NoConn}
         /\ accepting' # NoConn => pc'[accepting'] = "accepting"
         /\ pc' \in [Conn -> Where] /\ worker' \in [Conn -> Worker]
         /\ \A c \in Conn : pcs[c] # "none" => pc'[c] = pcs[c] /\ worker'[c] = worker[c]
         /\ \A c \in Conn : pcs[c] = "none" => pc'[c] \in {"none", "accepting"}
         /\ Counted(pc', worker', queue_length')
<1> DEFINE new == {c \in Conn : pcs[c] = "none"}
           d   == CHOOSE c \in new : TRUE
           w   == Picked(queue_length)
<1>1. CASE new = {}
  <2>1. accepting' = NoConn /\ pc' = pcs /\ queue_length' = lengths /\ worker' = worker
    BY <1>1 DEF do_accept
  <2> QED BY <2>1, <1>1 DEF TypeOK
<1>2. CASE new # {}
  <2>1. /\ accepting' = d /\ pc' = [pcs EXCEPT ![d] = "accepting"]
        /\ worker' = [worker EXCEPT ![d] = w]
        /\ queue_length' = [lengths EXCEPT ![w] = @ + 1]
    BY <1>2 DEF do_accept
  <2>2. d \in Conn /\ pcs[d] = "none"
    BY <1>2
  <2>3. w \in Worker
    BY PickedIsWorker DEF TypeOK
  <2>4. Counted(pc', worker', queue_length')
    <3>1. pcs[d] \notin Alive /\ "accepting" \in Alive /\ worker \in [Conn -> Worker]
      BY <2>2 DEF Alive, TypeOK
    <3> HIDE DEF d, w
    <3>2. Counted([pcs EXCEPT ![d] = "accepting"], [worker EXCEPT ![d] = w], [lengths EXCEPT ![w] = @ + 1])
      BY <2>2, <2>3, <3>1, Joins
    <3> QED BY <2>1, <3>2
  <2>5. accepting' \in Conn /\ pc'[accepting'] = "accepting"
    BY <2>1, <2>2
  <2>6. pc' \in [Conn -> Where] /\ worker' \in [Conn -> Worker]
    BY <2>1, <2>2, <2>3 DEF TypeOK, Where
  <2>7. ASSUME NEW c \in Conn
        PROVE  /\ pcs[c] # "none" => pc'[c] = pcs[c] /\ worker'[c] = worker[c]
               /\ pcs[c] = "none" => pc'[c] \in {"none", "accepting"}
    BY <2>1, <2>2 DEF TypeOK
  <2> QED BY <2>4, <2>5, <2>6, <2>7
<1> QED BY <1>1, <1>2

\* cancel takes one task from one worker's timer and gives out no id.
LEMMA Cancels ==
  ASSUME Issued, NEW w \in Worker, NEW id
  PROVE  /\ DOMAIN cancel(w, id) = Worker
         /\ \A v \in Worker \ {w} : cancel(w, id)[v] = tasks[v]
         /\ DOMAIN cancel(w, id)[w] = DOMAIN tasks[w] \ {id}
         /\ \A i \in DOMAIN tasks[w] \ {id} : cancel(w, id)[w][i] = tasks[w][i]
<1> DEFINE D == {i \in DOMAIN tasks[w] : i # id}
<1>1. cancel(w, id) = [tasks EXCEPT ![w] = [i \in D |-> tasks[w][i]]]
  BY DEF cancel, RestrictDomain, Restrict
<1>2. D = DOMAIN tasks[w] \ {id}
  OBVIOUS
<1> QED BY <1>1, <1>2 DEF Issued

\* As long as no id was given out twice, a connection cancels no deadline but its own.
LEMMA RobsNobody ==
  ASSUME HInv, ~reused, NEW c \in Conn, pc[c] \in {"posted"} \cup Started
  PROVE  Victim(worker[c], task_id[c]) \subseteq {c}
<1> DEFINE w == worker[c]
<1> SUFFICES ASSUME task_id[c] \in DOMAIN tasks[w]
             PROVE  tasks[w][task_id[c]].conn = c
  BY DEF Victim
<1>1. CASE pc[c] = "posted"
  <2>1. task_id[c] = 0 /\ w \in Worker /\ highest_id[w] \in Nat
    BY <1>1 DEF HInv, Unstarted, TypeOK
  <2>2. 0 \in 1..highest_id[w]
    BY <2>1 DEF HInv, Issued
  <2> QED BY <2>1, <2>2
<1>2. CASE pc[c] \in Started
  BY <1>2 DEF HInv, Owned, Owns
<1> QED BY <1>1, <1>2

\* start_deadline: the last deadline of the connection is replaced, nobody else's touched.
LEMMA Arms ==
  ASSUME HInv, NEW c \in Conn, pc[c] \in {"posted", "reading", "writing"}, Deadline(worker[c], c), worker' = worker
  PROVE  LET w  == worker[c]
             id == highest_id[w] + 1
         IN /\ task_id' = [task_id EXCEPT ![c] = id]
            /\ highest_id' = [highest_id EXCEPT ![w] = id]
            /\ robbed' = (robbed \cup Victim(w, task_id[c])) \ {c}
            /\ DOMAIN tasks' = Worker
            /\ \A v \in Worker \ {w} : tasks'[v] = tasks[v]
            /\ DOMAIN tasks'[w] = (DOMAIN tasks[w] \ {task_id[c]}) \cup {id}
            /\ tasks'[w][id] = [conn |-> c, left |-> Timeout]
            /\ id \notin DOMAIN tasks[w]
            /\ \A i \in DOMAIN tasks[w] \ {task_id[c]} :
                 i # id /\ tasks'[w][i] = tasks[w][i] /\ tasks[w][i].conn # c
<1> DEFINE w  == worker[c]
           id == highest_id[w] + 1
           T  == cancel(w, task_id[c])
<1>1. w \in Worker /\ highest_id[w] \in Nat
  BY DEF HInv, TypeOK
<1>2. /\ task_id' = [task_id EXCEPT ![c] = id]
      /\ highest_id' = [highest_id EXCEPT ![w] = id]
      /\ tasks' = [T EXCEPT ![w] = [i \in DOMAIN @ \cup {id} |->
                              IF i = id THEN [conn |-> c, left |-> Timeout] ELSE @[i]]]
      /\ robbed' = (robbed \cup Victim(w, task_id[c])) \ {c}
  BY DEF Deadline, Schedule
<1>3. /\ DOMAIN T = Worker
      /\ \A v \in Worker \ {w} : T[v] = tasks[v]
      /\ DOMAIN T[w] = DOMAIN tasks[w] \ {task_id[c]}
      /\ \A i \in DOMAIN tasks[w] \ {task_id[c]} : T[w][i] = tasks[w][i]
  BY <1>1, Cancels DEF HInv
<1>4. id \notin DOMAIN tasks[w]
  BY <1>1 DEF HInv, Issued
<1>5. tasks'[w] = [i \in DOMAIN T[w] \cup {id} |-> IF i = id THEN [conn |-> c, left |-> Timeout] ELSE T[w][i]]
  BY <1>1, <1>2, <1>3
<1>6. DOMAIN tasks' = Worker /\ \A v \in Worker \ {w} : tasks'[v] = tasks[v]
  BY <1>2, <1>3
<1>7. \A i \in DOMAIN tasks[w] \ {task_id[c]} :
        i # id /\ tasks'[w][i] = tasks[w][i] /\ tasks[w][i].conn # c
  BY <1>1, <1>3, <1>4, <1>5 DEF HInv, OneDeadlineEach
<1>8. DOMAIN tasks'[w] = (DOMAIN tasks[w] \ {task_id[c]}) \cup {id}
  BY <1>3, <1>5
<1>9. tasks'[w][id] = [conn |-> c, left |-> Timeout]
  BY <1>5
<1>10. /\ task_id' = [task_id EXCEPT ![c] = id] /\ highest_id' = [highest_id EXCEPT ![w] = id]
       /\ robbed' = (robbed \cup Victim(w, task_id[c])) \ {c}
  BY <1>2
<1> QED BY <1>4, <1>6, <1>7, <1>8, <1>9, <1>10

\* A callback that arms a deadline and leaves the connection reading.
LEMMA StartsDeadline ==
  ASSUME HInv, NEW c \in Conn, pc[c] \in {"posted", "reading", "writing"}, Deadline(worker[c], c),
         pc' = [pc EXCEPT ![c] = "reading"], reads' \in [Conn -> 0..MaxReads],
         UNCHANGED <<run, loop, accepting, worker, queue_length, reused>>
  PROVE  HInv'
<1> DEFINE w  == worker[c]
           id == highest_id[w] + 1
<1>0. /\ w \in Worker /\ highest_id \in [Worker -> Nat] /\ highest_id[w] \in Nat
      /\ task_id \in [Conn -> Nat] /\ pc \in [Conn -> Where] /\ worker \in [Conn -> Worker]
  BY DEF HInv, TypeOK
<1>1. /\ task_id' = [task_id EXCEPT ![c] = id]
      /\ highest_id' = [highest_id EXCEPT ![w] = id]
      /\ robbed' = (robbed \cup Victim(w, task_id[c])) \ {c}
  BY Arms
<1>2. /\ DOMAIN tasks' = Worker
      /\ \A v \in Worker \ {w} : tasks'[v] = tasks[v]
      /\ DOMAIN tasks'[w] = (DOMAIN tasks[w] \ {task_id[c]}) \cup {id}
  BY Arms
<1>3. /\ tasks'[w][id] = [conn |-> c, left |-> Timeout]
      /\ id \notin DOMAIN tasks[w]
      /\ \A i \in DOMAIN tasks[w] \ {task_id[c]} :
           i # id /\ tasks'[w][i] = tasks[w][i] /\ tasks[w][i].conn # c
  BY Arms
<1>4. \A v \in Worker : \A i \in DOMAIN tasks'[v] :
        \/ v = w /\ i = id
        \/ v # w /\ i \in DOMAIN tasks[v] /\ tasks'[v][i] = tasks[v][i] /\ tasks[v][i].conn # c
        \/ /\ v = w /\ i \in DOMAIN tasks[v] /\ i # task_id[c] /\ i # id
           /\ tasks'[v][i] = tasks[v][i] /\ tasks[v][i].conn # c
  <2>1. \A v \in Worker \ {w} : \A i \in DOMAIN tasks[v] : tasks[v][i].conn # c
    BY <1>0 DEF HInv, OneDeadlineEach
  <2> QED BY <1>2, <1>3, <2>1
<1>5. id \in Nat \ {0}
  BY <1>0
<1>6. TypeOK'
  <2>1. \A v \in Worker : \A i \in DOMAIN tasks'[v] : tasks'[v][i] \in [conn : Conn, left : 0..Timeout]
    <3>1. [conn |-> c, left |-> Timeout] \in [conn : Conn, left : 0..Timeout]
      BY ServerAssumption
    <3> QED BY <1>3, <1>4, <3>1 DEF HInv, TypeOK
  <2>2. task_id' \in [Conn -> Nat] /\ highest_id' \in [Worker -> Nat] /\ pc' \in [Conn -> Where]
    BY <1>0, <1>1, <1>5 DEF Where
  <2>3. robbed' \subseteq Conn
    <3>1. Victim(w, task_id[c]) \subseteq Conn
      BY <1>0 DEF Victim, HInv, TypeOK
    <3> QED BY <3>1, <1>1 DEF HInv, TypeOK
  <2> QED BY <2>1, <2>2, <2>3 DEF HInv, TypeOK
<1>7. QueueLengths'
  <2>1. Counted(pc, worker, queue_length)
    BY CountedNow DEF HInv
  <2>2. Counted(pc', worker, queue_length)
    BY <1>0, <2>1, Stays DEF Alive
  <2> QED BY <2>2, <1>6, CountedThen
<1>8. NoneYet' /\ Awaited'
  BY <1>0 DEF HInv, NoneYet, Awaited
<1>9. Issued'
  <2>1. ASSUME NEW v \in Worker, NEW i \in DOMAIN tasks'[v] PROVE i \in 1..highest_id'[v]
    BY <1>0, <1>1, <1>4, <1>5 DEF HInv, Issued
  <2> QED BY <1>2, <2>1 DEF Issued
<1>10. Unstarted'
  BY <1>0, <1>1 DEF HInv, Unstarted
<1>11. OneDeadlineEach'
  <2> SUFFICES ASSUME NEW v \in Worker, NEW i \in DOMAIN tasks'[v]
               PROVE  LET d == tasks'[v][i].conn
                      IN /\ worker[d] = v /\ pc'[d] \in {"reading", "writing"}
                         /\ task_id'[d] = i /\ i <= highest_id'[v]
    BY DEF OneDeadlineEach
  <2>1. CASE v = w /\ i = id
    BY <2>1, <1>0, <1>1, <1>3
  <2>2. CASE ~(v = w /\ i = id)
    <3>1. i \in DOMAIN tasks[v] /\ tasks'[v][i] = tasks[v][i] /\ tasks[v][i].conn # c
      BY <2>2, <1>4
    <3> DEFINE d == tasks[v][i].conn
    <3>2. /\ d \in Conn /\ worker[d] = v /\ pc[d] \in {"reading", "writing"}
          /\ task_id[d] = i /\ i <= highest_id[v]
      BY <3>1 DEF HInv, TypeOK, OneDeadlineEach
    <3>3. i <= highest_id'[v]
      <4>1. i \in Nat BY <3>1 DEF HInv, Issued
      <4> QED BY <3>2, <4>1, <1>0, <1>1
    <3> QED BY <3>1, <3>2, <3>3, <1>0, <1>1
  <2> QED BY <2>1, <2>2
<1>12. WatchedUntilReuse'
  <2>1. ASSUME NEW d \in Conn, pc'[d] = "reading"
        PROVE  \/ \E i \in DOMAIN tasks'[worker[d]] : tasks'[worker[d]][i].conn = d
               \/ d \in robbed'
    <3>1. CASE d = c
      BY <3>1, <1>2, <1>3
    <3>2. CASE d # c
      <4>1. pc[d] = "reading" /\ worker[d] \in Worker
        BY <2>1, <3>2, <1>0
      <4>2. CASE d \in robbed
        BY <3>2, <4>2, <1>1
      <4>3. CASE d \notin robbed
        <5>1. PICK i \in DOMAIN tasks[worker[d]] : tasks[worker[d]][i].conn = d
          BY <4>1, <4>3 DEF HInv, WatchedUntilReuse, Watches
        <5>2. CASE worker[d] # w
          BY <5>1, <5>2, <4>1, <1>2
        <5>3. CASE worker[d] = w /\ i # task_id[c]
          BY <5>1, <5>3, <1>2, <1>3
        <5>4. CASE worker[d] = w /\ i = task_id[c]
          <6>1. d \in Victim(w, task_id[c])
            BY <5>1, <5>4 DEF Victim
          <6> QED BY <6>1, <3>2, <1>1
        <5> QED BY <5>2, <5>3, <5>4
      <4> QED BY <4>2, <4>3
    <3> QED BY <3>1, <3>2
  <2>2. ~reused => robbed' = {}
    <3> SUFFICES ASSUME ~reused PROVE robbed' = {}
      OBVIOUS
    <3>1. Victim(w, task_id[c]) \subseteq {c}
      BY RobsNobody DEF Started
    <3> QED BY <3>1, <1>1 DEF HInv, WatchedUntilReuse
  <2> QED BY <2>1, <2>2 DEF WatchedUntilReuse, Watches
<1>13. Owned'
  <2> SUFFICES ASSUME ~reused, NEW d \in Conn, pc'[d] \in Started
               PROVE  /\ task_id'[d] <= highest_id'[worker[d]]
                      /\ task_id'[d] \in DOMAIN tasks'[worker[d]] => tasks'[worker[d]][task_id'[d]].conn = d
    BY DEF Owned, Owns
  <2>1. CASE d = c
    BY <2>1, <1>0, <1>1, <1>2, <1>3
  <2>2. CASE d # c
    <3>1. pc[d] \in Started /\ task_id'[d] = task_id[d] /\ worker[d] \in Worker
      BY <2>2, <1>0, <1>1
    <3>2. task_id[d] <= highest_id[worker[d]] /\ task_id[d] \in Nat /\ highest_id[worker[d]] \in Nat
      BY <3>1, <1>0 DEF HInv, Owned, Owns
    <3>3. task_id[d] \in DOMAIN tasks[worker[d]] => tasks[worker[d]][task_id[d]].conn = d
      BY <3>1 DEF HInv, Owned, Owns
    <3>4. task_id[d] <= highest_id'[worker[d]]
      BY <3>1, <3>2, <1>0, <1>1
    <3>5. CASE worker[d] # w
      BY <3>1, <3>3, <3>4, <3>5, <1>2
    <3>6. CASE worker[d] = w
      <4>1. task_id[d] # id
        BY <3>2, <3>6
      <4> QED BY <3>1, <3>3, <3>4, <3>6, <4>1, <1>2, <1>3
    <3> QED BY <3>5, <3>6
  <2> QED BY <2>1, <2>2
<1> QED BY <1>6, <1>7, <1>8, <1>9, <1>10, <1>11, <1>12, <1>13 DEF HInv

\* A step of run() that leaves connections and timers alone.
LEMMA RunsOn ==
  ASSUME HInv, run' \in {"new", "workers", "accepting", "stopped", "returned"},
         run' \in {"new", "workers"} => run \in {"new", "workers"},
         loop' \in [Worker -> {"new", "running", "returned"}],
         UNCHANGED <<accepting, connVars, timerVars, queue_length>>
  PROVE  HInv'
<1>1. TypeOK' /\ QueueLengths'
  BY DEF HInv, TypeOK, QueueLengths, connVars, timerVars
<1>2. NoneYet' /\ Awaited' /\ Issued' /\ Unstarted'
  BY DEF HInv, NoneYet, Awaited, Issued, Unstarted, connVars, timerVars
<1>3. OneDeadlineEach' /\ WatchedUntilReuse' /\ Owned'
  BY DEF HInv, OneDeadlineEach, WatchedUntilReuse, Watches, Owned, Owns, connVars, timerVars
<1> QED BY <1>1, <1>2, <1>3 DEF HInv

\* do_accept after pc and the lengths were changed to pcs and lengths, which leaves every
\* connection that has started as it was.
LEMMA AcceptsOn ==
  ASSUME HInv, NEW pcs \in [Conn -> Where], NEW lengths, Counted(pcs, worker, lengths),
         \A c \in Conn : \/ pcs[c] = pc[c]
                         \/ pc[c] = "accepting" /\ pcs[c] \in {"posted", "gone"},
         do_accept(pcs, lengths), run' = "accepting",
         UNCHANGED <<loop, task_id, reads, timerVars>>
  PROVE  HInv'
<1>1. /\ accepting' \in Conn \cup {NoConn}
      /\ accepting' # NoConn => pc'[accepting'] = "accepting"
      /\ pc' \in [Conn -> Where] /\ worker' \in [Conn -> Worker]
      /\ \A c \in Conn : pcs[c] # "none" => pc'[c] = pcs[c] /\ worker'[c] = worker[c]
      /\ \A c \in Conn : pcs[c] = "none" => pc'[c] \in {"none", "accepting"}
  BY Accepts DEF HInv
<1>2. Counted(pc', worker', queue_length')
  BY Accepts DEF HInv
<1>3. TypeOK'
  BY <1>1, <1>2 DEF HInv, TypeOK, timerVars, Counted
<1>4. QueueLengths'
  BY <1>2, <1>3, CountedThen
<1>5. \A c \in Conn : \/ pc'[c] \in {"none", "accepting"} /\ pc[c] \in {"none", "accepting"}
                      \/ pc'[c] \in {"posted", "gone"} /\ pc[c] = "accepting"
                      \/ pc'[c] = pc[c] /\ worker'[c] = worker[c]
  BY <1>1
<1>6. NoneYet' /\ Awaited' /\ Issued' /\ Unstarted'
  BY <1>1, <1>5 DEF HInv, NoneYet, Awaited, Issued, Unstarted, timerVars
<1>7. OneDeadlineEach'
  BY <1>5 DEF HInv, TypeOK, OneDeadlineEach, timerVars
<1>8. WatchedUntilReuse' /\ Owned'
  BY <1>5 DEF HInv, WatchedUntilReuse, Watches, Owned, Owns, Started, timerVars
<1> QED BY <1>3, <1>4, <1>6, <1>7, <1>8 DEF HInv

\* Server::run starts to accept.
LEMMA StartAcceptingKeeps == ASSUME HInv, StartAccepting PROVE HInv'
<1>1. Counted(pc, worker, queue_length) /\ pc \in [Conn -> Where]
  BY CountedNow DEF HInv, TypeOK
<1>2. do_accept(pc, queue_length) /\ run' = "accepting" /\ UNCHANGED <<loop, task_id, reads, timerVars>>
  BY DEF StartAccepting
<1> QED BY <1>1, <1>2, AcceptsOn

\* A connection is accepted, or fails to be, and the next is waited for.
LEMMA AcceptKeeps == ASSUME HInv, NEW ok \in BOOLEAN, Accept(ok) PROVE HInv'
<1>1. Counted(pc, worker, queue_length) /\ pc \in [Conn -> Where] /\ worker \in [Conn -> Worker]
  BY CountedNow DEF HInv, TypeOK
<1>2. accepting \in Conn /\ pc[accepting] = "accepting"
  BY DEF Accept, HInv, TypeOK, Awaited
<1>3. run' = "accepting" /\ UNCHANGED <<loop, task_id, reads, timerVars>>
  BY DEF Accept
<1>4. CASE ok
  <2> DEFINE pcs == [pc EXCEPT ![accepting] = "posted"]
  <2>1. do_accept(pcs, queue_length)
    BY <1>4 DEF Accept
  <2>2. pcs \in [Conn -> Where] /\ Counted(pcs, worker, queue_length)
    <3>1. pcs \in [Conn -> Where] BY <1>1, <1>2 DEF Where
    <3>2. \A c \in Conn : pc[c] \in Alive <=> pcs[c] \in Alive BY <1>1, <1>2 DEF Alive
    <3> QED BY <1>1, <3>1, <3>2, Stays
  <2>3. \A c \in Conn : pcs[c] = pc[c] \/ (pc[c] = "accepting" /\ pcs[c] \in {"posted", "gone"})
    BY <1>1, <1>2
  <2> HIDE DEF pcs
  <2> QED BY <1>3, <2>1, <2>2, <2>3, AcceptsOn
<1>5. CASE ~ok
  <2> DEFINE pcs == [pc EXCEPT ![accepting] = "gone"]
  <2>1. do_accept(pcs, Left(queue_length, accepting))
    BY <1>5 DEF Accept
  <2>2. pcs \in [Conn -> Where] /\ Counted(pcs, worker, Left(queue_length, accepting))
    BY <1>1, <1>2, Leaves DEF Where, Alive
  <2>3. \A c \in Conn : pcs[c] = pc[c] \/ (pc[c] = "accepting" /\ pcs[c] \in {"posted", "gone"})
    BY <1>1, <1>2
  <2> HIDE DEF pcs
  <2> QED BY <1>3, <2>1, <2>2, <2>3, AcceptsOn
<1> QED BY <1>4, <1>5

\* A connection cancels its deadline and answers or ends.
LEMMA CancelKeeps ==
  ASSUME HInv, NEW c \in Conn, pc[c] \in Started,
         tasks' = cancel(worker[c], task_id[c]),
         robbed' = robbed \cup (Victim(worker[c], task_id[c]) \ {c}),
         pc' \in [Conn -> Where], pc'[c] \in {"writing", "gone"},
         \A d \in Conn : d # c => pc'[d] = pc[d],
         reads' \in [Conn -> 0..MaxReads], queue_length' \in [Worker -> Nat],
         Counted(pc', worker, queue_length'),
         UNCHANGED <<run, loop, accepting, worker, task_id, highest_id, reused>>
  PROVE  HInv'
<1> DEFINE w == worker[c]
<1>0. w \in Worker /\ worker \in [Conn -> Worker]
  BY DEF HInv, TypeOK
<1>1. UNCHANGED <<run, loop, accepting, worker, task_id, highest_id, reused>>
  OBVIOUS
<1>2. /\ DOMAIN tasks' = Worker
      /\ \A v \in Worker \ {w} : tasks'[v] = tasks[v]
      /\ DOMAIN tasks'[w] = DOMAIN tasks[w] \ {task_id[c]}
      /\ \A i \in DOMAIN tasks[w] \ {task_id[c]} : tasks'[w][i] = tasks[w][i]
  <2>1. Issued BY DEF HInv
  <2> QED BY <1>0, <2>1, Cancels
<1>3. \A v \in Worker : /\ DOMAIN tasks'[v] \subseteq DOMAIN tasks[v]
                        /\ \A i \in DOMAIN tasks'[v] : tasks'[v][i] = tasks[v][i]
  BY <1>2
<1>5. TypeOK'
  <2>1. \A v \in Worker : \A i \in DOMAIN tasks'[v] : tasks'[v][i] \in [conn : Conn, left : 0..Timeout]
    BY <1>3 DEF HInv, TypeOK
  <2>2. robbed' \subseteq Conn
    <3>1. Victim(w, task_id[c]) \subseteq Conn
      BY <1>0 DEF Victim, HInv, TypeOK
    <3> QED BY <3>1 DEF HInv, TypeOK
  <2> QED BY <1>1, <2>1, <2>2 DEF HInv, TypeOK
<1>6. QueueLengths'
  BY <1>1, <1>5, CountedThen
<1>7. NoneYet' /\ Awaited' /\ Unstarted'
  <2>1. pc[c] \notin {"none", "accepting"}
    BY DEF Started
  <2>2. NoneYet'
    BY <1>1, <2>1 DEF HInv, NoneYet
  <2>3. Awaited'
    <3>1. accepting # NoConn => accepting \in Conn /\ accepting # c
      BY <2>1 DEF HInv, TypeOK, Awaited
    <3> QED BY <1>1, <3>1 DEF HInv, Awaited
  <2>4. Unstarted'
    BY <1>1 DEF HInv, Unstarted
  <2> QED BY <2>2, <2>3, <2>4
<1>8. Issued'
  BY <1>1, <1>2, <1>3 DEF HInv, Issued
<1>9. OneDeadlineEach'
  <2> SUFFICES ASSUME NEW v \in Worker, NEW i \in DOMAIN tasks'[v]
               PROVE  LET d == tasks'[v][i].conn
                      IN /\ worker[d] = v /\ pc'[d] \in {"reading", "writing"}
                         /\ task_id[d] = i /\ i <= highest_id[v]
    BY <1>1 DEF OneDeadlineEach
  <2> DEFINE d == tasks[v][i].conn
  <2>1. i \in DOMAIN tasks[v] /\ tasks'[v][i] = tasks[v][i]
    BY <1>3
  <2>2. /\ d \in Conn /\ worker[d] = v /\ pc[d] \in {"reading", "writing"}
        /\ task_id[d] = i /\ i <= highest_id[v]
    BY <2>1 DEF HInv, TypeOK, OneDeadlineEach
  <2>3. d # c
    BY <1>2, <2>2
  <2> QED BY <1>0, <1>1, <2>1, <2>2, <2>3
<1>10. WatchedUntilReuse'
  <2>1. ASSUME NEW d \in Conn, pc'[d] = "reading"
        PROVE  \/ \E i \in DOMAIN tasks'[worker[d]] : tasks'[worker[d]][i].conn = d
               \/ d \in robbed'
    <3>1. d # c /\ pc[d] = "reading" /\ worker[d] \in Worker
      BY <2>1, <1>0
    <3>2. CASE d \in robbed
      BY <3>2
    <3>3. CASE d \notin robbed
      <4>1. PICK i \in DOMAIN tasks[worker[d]] : tasks[worker[d]][i].conn = d
        BY <3>1, <3>3 DEF HInv, WatchedUntilReuse, Watches
      <4>2. CASE worker[d] # w
        BY <4>1, <4>2, <3>1, <1>2
      <4>3. CASE worker[d] = w /\ i # task_id[c]
        BY <4>1, <4>3, <1>2
      <4>4. CASE worker[d] = w /\ i = task_id[c]
        <5>1. d \in Victim(w, task_id[c])
          BY <4>1, <4>4 DEF Victim
        <5> QED BY <5>1, <3>1
      <4> QED BY <4>2, <4>3, <4>4
    <3> QED BY <3>2, <3>3
  <2>2. ~reused => robbed' = {}
    <3> SUFFICES ASSUME ~reused PROVE robbed' = {}
      OBVIOUS
    <3>1. Victim(w, task_id[c]) \subseteq {c}
      BY RobsNobody
    <3> QED BY <3>1 DEF HInv, WatchedUntilReuse
  <2> QED BY <1>1, <2>1, <2>2 DEF WatchedUntilReuse, Watches
<1>11. Owned'
  <2> SUFFICES ASSUME ~reused, NEW d \in Conn, pc'[d] \in Started
               PROVE  /\ task_id[d] <= highest_id[worker[d]]
                      /\ task_id[d] \in DOMAIN tasks'[worker[d]] => tasks'[worker[d]][task_id[d]].conn = d
    BY <1>1 DEF Owned, Owns
  <2>1. pc[d] \in Started /\ worker[d] \in Worker
    BY <1>0
  <2>2. /\ task_id[d] <= highest_id[worker[d]]
        /\ task_id[d] \in DOMAIN tasks[worker[d]] => tasks[worker[d]][task_id[d]].conn = d
    BY <2>1 DEF HInv, Owned, Owns
  <2> QED BY <2>1, <2>2, <1>3
<1> QED BY <1>5, <1>6, <1>7, <1>8, <1>9, <1>10, <1>11 DEF HInv

\* The destructor: the connection's own deadline goes, if it has one, and nobody else's.
LEMMA EndingKeeps ==
  ASSUME HInv, NEW c \in Conn, pc[c] \in Started, Ending(c) PROVE HInv'
<1> DEFINE w == worker[c]
<1>0. /\ w \in Worker /\ worker \in [Conn -> Worker] /\ pc \in [Conn -> Where]
      /\ pc[c] \in Alive /\ Counted(pc, worker, queue_length)
  BY CountedNow DEF HInv, TypeOK, Started, Alive
<1>1. /\ pc' = [pc EXCEPT ![c] = "gone"]
      /\ queue_length' = Left(queue_length, c)
      /\ tasks' = cancel(w, task_id[c])
      /\ robbed' = robbed \cup (Victim(w, task_id[c]) \ {c})
      /\ UNCHANGED <<run, loop, accepting, worker, task_id, reads, highest_id, reused>>
  BY DEF Ending, CancelDeadline
<1>4. Counted(pc', worker, queue_length')
  BY <1>0, <1>1, Leaves
<1>5. pc' \in [Conn -> Where] /\ queue_length' \in [Worker -> Nat]
  BY <1>0, <1>1, <1>4 DEF Where, Counted
<1>6. \A d \in Conn : d # c => pc'[d] = pc[d]
  BY <1>0, <1>1
<1>7. pc'[c] \in {"writing", "gone"}
  BY <1>0, <1>1
<1>8. reads' \in [Conn -> 0..MaxReads]
  BY <1>1 DEF HInv, TypeOK
<1>9. robbed' = robbed \cup (Victim(worker[c], task_id[c]) \ {c})
  BY <1>1
<1> QED BY <1>1, <1>4, <1>5, <1>6, <1>7, <1>8, <1>9, CancelKeeps

\* A request is read: the connection writes, with or without its deadline.
LEMMA ReadRequestKeeps ==
  ASSUME HInv, NEW c \in Conn, NEW routed \in BOOLEAN, ReadRequest(c, routed) PROVE HInv'
<1>1. /\ pc[c] = "reading" /\ pc' = [pc EXCEPT ![c] = "writing"]
      /\ reads[c] # MaxReads /\ reads' = [reads EXCEPT ![c] = @ + 1]
      /\ UNCHANGED <<run, loop, accepting, worker, task_id, highest_id, queue_length, reused>>
  BY DEF ReadRequest, Hears, Silent
<1>2. reads' \in [Conn -> 0..MaxReads]
  BY <1>1, ServerAssumption DEF HInv, TypeOK
<1>3. pc' \in [Conn -> Where]
  BY <1>1 DEF HInv, TypeOK, Where
<1>4. Counted(pc', worker, queue_length)
  <2>1. Counted(pc, worker, queue_length)
    BY CountedNow DEF HInv
  <2> QED BY <1>1, <2>1, Stays DEF HInv, TypeOK, Alive
<1>5. pc'[c] = "writing" /\ \A d \in Conn : d # c => pc'[d] = pc[d]
  BY <1>1 DEF HInv, TypeOK
<1>6. CASE routed
  <2>1. /\ tasks' = cancel(worker[c], task_id[c])
        /\ robbed' = robbed \cup (Victim(worker[c], task_id[c]) \ {c})
    BY <1>6 DEF ReadRequest, CancelDeadline
  <2>2. pc[c] \in Started /\ queue_length' \in [Worker -> Nat]
    BY <1>1 DEF Started, HInv, TypeOK
  <2> QED BY <1>1, <1>2, <1>3, <1>4, <1>5, <2>1, <2>2, CancelKeeps
<1>7. CASE ~routed
  <2>1. UNCHANGED <<tasks, robbed>>
    BY <1>7 DEF ReadRequest
  <2>2. TypeOK'
    BY <1>1, <1>2, <1>3, <2>1 DEF HInv, TypeOK
  <2>3. QueueLengths'
    BY <1>1, <1>4, <2>2, CountedThen
  <2>4. NoneYet' /\ Awaited' /\ Issued' /\ Unstarted'
    BY <1>1, <1>5, <2>1 DEF HInv, NoneYet, Awaited, Issued, Unstarted
  <2>5. OneDeadlineEach'
    BY <1>1, <1>5, <2>1 DEF HInv, TypeOK, OneDeadlineEach
  <2>6. WatchedUntilReuse'
    BY <1>1, <1>5, <2>1 DEF HInv, WatchedUntilReuse, Watches
  <2>7. Owned'
    BY <1>1, <1>5, <2>1 DEF HInv, Owned, Owns, Started
  <2> QED BY <2>2, <2>3, <2>4, <2>5, <2>6, <2>7 DEF HInv
<1> QED BY <1>6, <1>7

\* A peer falls silent.
LEMMA FallSilentKeeps == ASSUME HInv, NEW c \in Conn, FallSilent(c) PROVE HInv'
<1>1. /\ reads' = [reads EXCEPT ![c] = MaxReads]
      /\ UNCHANGED <<run, loop, accepting, pc, worker, task_id, timerVars, queue_length>>
  BY DEF FallSilent
<1>2. TypeOK' /\ QueueLengths'
  BY <1>1, ServerAssumption DEF HInv, TypeOK, QueueLengths, timerVars
<1>3. NoneYet' /\ Awaited' /\ Issued' /\ Unstarted'
  BY <1>1 DEF HInv, NoneYet, Awaited, Issued, Unstarted, timerVars
<1>4. OneDeadlineEach' /\ WatchedUntilReuse' /\ Owned'
  BY <1>1 DEF HInv, OneDeadlineEach, WatchedUntilReuse, Watches, Owned, Owns, timerVars
<1> QED BY <1>2, <1>3, <1>4 DEF HInv

\* A tick: the deadlines that are due close their connections, the others stay theirs.
LEMMA TickKeeps == ASSUME HInv, NEW w \in Worker, Tick(w) PROVE HInv'
<1> DEFINE kept == [i \in DOMAIN tasks[w] \ Expired(w) |-> [tasks[w][i] EXCEPT !.left = @ - 1]]
           told == {c \in Conn : worker[c] = w /\ pc[c] = "aborted"} \cup Closed(w)
<1>0. /\ worker \in [Conn -> Worker] /\ pc \in [Conn -> Where] /\ task_id \in [Conn -> Nat]
      /\ highest_id \in [Worker -> Nat] /\ DOMAIN tasks = Worker
      /\ Counted(pc, worker, queue_length)
  BY CountedNow DEF HInv, TypeOK, Issued
<1>1. /\ tasks' = [tasks EXCEPT ![w] = kept]
      /\ highest_id' = [highest_id EXCEPT ![w] = IF kept = NoTasks THEN 0 ELSE @]
      /\ reused' = (reused \/ (kept = NoTasks /\ told # {}))
      /\ pc' = [c \in Conn |-> IF c \in Closed(w) THEN "aborted" ELSE pc[c]]
      /\ UNCHANGED <<run, loop, accepting, worker, task_id, reads, robbed, queue_length>>
  BY DEF Tick
<1>2. /\ DOMAIN tasks' = Worker /\ tasks'[w] = kept
      /\ \A v \in Worker \ {w} : tasks'[v] = tasks[v] /\ highest_id'[v] = highest_id[v]
      /\ highest_id'[w] = IF kept = NoTasks THEN 0 ELSE highest_id[w]
      /\ highest_id' \in [Worker -> Nat]
  BY <1>0, <1>1
<1>3. /\ DOMAIN kept = DOMAIN tasks[w] \ Expired(w)
      /\ kept = NoTasks <=> DOMAIN kept = {}
  BY DEF NoTasks
<1>4. \A i \in DOMAIN kept :
        kept[i] \in [conn : Conn, left : 0..Timeout] /\ kept[i].conn = tasks[w][i].conn
  <2> SUFFICES ASSUME NEW i \in DOMAIN kept
               PROVE  kept[i] \in [conn : Conn, left : 0..Timeout] /\ kept[i].conn = tasks[w][i].conn
    OBVIOUS
  <2>1. tasks[w][i] \in [conn : Conn, left : 0..Timeout] /\ tasks[w][i].left # 0
    BY DEF HInv, TypeOK, Expired
  <2>2. kept[i] = [tasks[w][i] EXCEPT !.left = @ - 1]
    OBVIOUS
  <2> HIDE DEF kept
  <2> QED BY <2>1, <2>2, ServerAssumption
<1>5. \A c \in Conn : c \in Closed(w) <=> \E i \in Expired(w) : tasks[w][i].conn = c
  BY DEF Closed
<1>6. \A c \in Closed(w) : /\ c \in Conn /\ worker[c] = w /\ pc[c] = "reading"
                           /\ task_id[c] \in Expired(w) /\ task_id[c] <= highest_id[w]
  <2>1. \A c \in Conn : worker[c] = w => pc[c] # "writing"
    BY DEF Tick, Serves, Blocked
  <2> QED BY <2>1 DEF Closed, Expired, HInv, TypeOK, OneDeadlineEach
<1>7. Expired(w) \subseteq DOMAIN tasks[w]
  BY DEF Expired
<1> HIDE DEF kept
<1>8. \A c \in Conn : pc'[c] = IF c \in Closed(w) THEN "aborted" ELSE pc[c]
  BY <1>1
<1>9. TypeOK'
  <2>1. \A v \in Worker : \A i \in DOMAIN tasks'[v] : tasks'[v][i] \in [conn : Conn, left : 0..Timeout]
    BY <1>2, <1>4 DEF HInv, TypeOK
  <2>2. pc' \in [Conn -> Where]
    BY <1>0, <1>1 DEF Where
  <2>3. reused' \in BOOLEAN
    BY <1>1 DEF HInv, TypeOK
  <2> QED BY <1>1, <1>2, <2>1, <2>2, <2>3 DEF HInv, TypeOK
<1>10. QueueLengths'
  <2>1. Counted(pc', worker, queue_length)
    BY <1>0, <1>6, <1>8, Stays DEF Alive
  <2> QED BY <1>1, <1>9, <2>1, CountedThen
<1>11. NoneYet' /\ Awaited' /\ Unstarted'
  BY <1>1, <1>6, <1>8 DEF HInv, TypeOK, NoneYet, Awaited, Unstarted
<1>12. Issued'
  BY <1>2, <1>3, <1>7 DEF HInv, Issued
<1>13. OneDeadlineEach'
  <2> SUFFICES ASSUME NEW v \in Worker, NEW i \in DOMAIN tasks'[v]
               PROVE  LET d == tasks'[v][i].conn
                      IN /\ worker[d] = v /\ pc'[d] \in {"reading", "writing"}
                         /\ task_id[d] = i /\ i <= highest_id'[v]
    BY <1>1 DEF OneDeadlineEach
  <2>1. i \in DOMAIN tasks[v] /\ tasks'[v][i].conn = tasks[v][i].conn /\ highest_id'[v] = highest_id[v]
    BY <1>2, <1>3, <1>4, <1>7
  <2> DEFINE d == tasks[v][i].conn
  <2>2. /\ d \in Conn /\ worker[d] = v /\ pc[d] \in {"reading", "writing"}
        /\ task_id[d] = i /\ i <= highest_id[v]
    BY <2>1 DEF HInv, TypeOK, OneDeadlineEach
  <2>3. d \notin Closed(w)
    BY <1>2, <1>3, <1>6, <2>2
  <2> QED BY <1>8, <2>1, <2>2, <2>3
<1>14. WatchedUntilReuse'
  <2>1. ASSUME NEW d \in Conn, pc'[d] = "reading", d \notin robbed
        PROVE  \E i \in DOMAIN tasks'[worker[d]] : tasks'[worker[d]][i].conn = d
    <3>1. d \notin Closed(w) /\ pc[d] = "reading" /\ worker[d] \in Worker
      BY <1>0, <1>8, <2>1
    <3>2. PICK i \in DOMAIN tasks[worker[d]] : tasks[worker[d]][i].conn = d
      BY <2>1, <3>1 DEF HInv, WatchedUntilReuse, Watches
    <3>3. worker[d] = w => i \notin Expired(w)
      BY <1>5, <3>1, <3>2
    <3> QED BY <1>2, <1>3, <1>4, <3>1, <3>2, <3>3
  <2>2. robbed' = robbed /\ (robbed # {} => reused')
    BY <1>1 DEF HInv, WatchedUntilReuse
  <2> QED BY <1>1, <2>1, <2>2 DEF WatchedUntilReuse, Watches
<1>15. Owned'
  <2> SUFFICES ASSUME ~reused', NEW d \in Conn, pc'[d] \in Started
               PROVE  /\ task_id[d] <= highest_id'[worker[d]]
                      /\ task_id[d] \in DOMAIN tasks'[worker[d]] => tasks'[worker[d]][task_id[d]].conn = d
    BY <1>1 DEF Owned, Owns
  <2>1. ~reused /\ (kept # NoTasks \/ told = {}) /\ robbed = {}
    BY <1>1 DEF HInv, TypeOK, WatchedUntilReuse
  <2>2. worker[d] \in Worker /\ pc[d] \in Started
    BY <1>0, <1>6, <1>8 DEF Started
  <2>3. /\ task_id[d] <= highest_id[worker[d]]
        /\ task_id[d] \in DOMAIN tasks[worker[d]] => tasks[worker[d]][task_id[d]].conn = d
    BY <2>1, <2>2 DEF HInv, Owned, Owns
  <2>4. CASE worker[d] # w
    BY <2>2, <2>3, <2>4, <1>2
  <2>5. CASE worker[d] = w /\ kept # NoTasks
    BY <2>3, <2>5, <1>2, <1>3, <1>4
  <2>6. CASE worker[d] = w /\ kept = NoTasks
    <3>1. pc[d] # "writing"
      BY <2>6 DEF Tick, Serves, Blocked
    <3>2. pc[d] = "reading"
      BY <2>1, <2>2, <2>6, <3>1 DEF Started
    <3>3. PICK i \in DOMAIN tasks[w] : tasks[w][i].conn = d
      BY <2>1, <2>6, <3>2 DEF HInv, WatchedUntilReuse, Watches
    <3>4. i \in Expired(w)
      BY <2>6, <3>3, <1>3
    <3>5. d \in told
      BY <1>5, <3>3, <3>4
    <3> QED BY <2>1, <2>6, <3>5
  <2> QED BY <2>4, <2>5, <2>6
<1> QED BY <1>9, <1>10, <1>11, <1>12, <1>13, <1>14, <1>15 DEF HInv

-----------------------------------------------------------------------------
(* The theorems.                                                           *)

\* A server that has not begun to listen has no connections and no tasks.
LEMMA HInvInit == Init => HInv
<1> SUFFICES ASSUME Init PROVE HInv
  OBVIOUS
<1>1. TypeOK
  <2>1. 0 \in Worker /\ 0 \in 0..MaxReads
    BY ServerAssumption DEF Worker
  <2>2. \A w \in Worker : DOMAIN tasks[w] = {}
    BY DEF Init, NoTasks
  <2> QED BY <2>1, <2>2 DEF Init, TypeOK, Where
<1>2. QueueLengths
  <2>1. ASSUME NEW w \in Worker
        PROVE  {c \in Conn : worker[c] = w /\ pc[c] \notin {"none", "gone"}} = {}
    BY DEF Init
  <2> QED BY <2>1, FS_EmptySet DEF Init, QueueLengths
<1>3. NoneYet /\ Awaited /\ Unstarted /\ WatchedUntilReuse /\ Owned
  BY DEF Init, NoneYet, Awaited, Unstarted, WatchedUntilReuse, Owned, Started
<1>4. Issued /\ OneDeadlineEach
  BY DEF Init, Issued, OneDeadlineEach, NoTasks
<1> QED BY <1>1, <1>2, <1>3, <1>4 DEF HInv

\* Every step keeps the invariant.
LEMMA HInvStep == HInv /\ [Next]_vars => HInv'
<1> SUFFICES ASSUME HInv, [Next]_vars PROVE HInv'
  OBVIOUS
<1>1. ASSUME NEW ok \in BOOLEAN, Listen(ok) PROVE HInv'
  BY <1>1, RunsOn DEF Listen, HInv, TypeOK
<1>2. CASE Stop
  BY <1>2, RunsOn DEF Stop, HInv, TypeOK
<1>3. CASE RunReturns
  BY <1>3, RunsOn DEF RunReturns, HInv, TypeOK
<1>4. ASSUME NEW w \in Worker, WorkerReturns(w) PROVE HInv'
  BY <1>4, RunsOn DEF WorkerReturns, HInv, TypeOK
<1>5. ASSUME NEW w \in Worker, WorkerReady(w) PROVE HInv'
  <2>1. queue_length[w] = 0
    <3>1. {c \in Conn : worker[c] = w /\ pc[c] \notin {"none", "gone"}} = {}
      BY <1>5 DEF WorkerReady, HInv, NoneYet
    <3> QED BY <3>1, FS_EmptySet DEF HInv, QueueLengths
  <2>2. queue_length' = queue_length
    BY <1>5, <2>1 DEF WorkerReady, HInv, TypeOK
  <2> QED BY <1>5, <2>2, RunsOn DEF WorkerReady, HInv, TypeOK
<1>6. ASSUME NEW c \in Conn, Start(c) PROVE HInv'
  BY <1>6, StartsDeadline DEF Start, HInv, TypeOK
<1>7. ASSUME NEW c \in Conn, ReadPart(c) PROVE HInv'
  <2>1. pc' = [pc EXCEPT ![c] = "reading"] /\ pc[c] = "reading"
    BY <1>7 DEF ReadPart, Hears, HInv, TypeOK
  <2>2. reads' \in [Conn -> 0..MaxReads]
    BY <1>7, ServerAssumption DEF ReadPart, Hears, Silent, HInv, TypeOK
  <2> QED BY <1>7, <2>1, <2>2, StartsDeadline DEF ReadPart
<1>10. ASSUME NEW c \in Conn, WriteEnds(c) PROVE HInv'
  BY <1>10, StartsDeadline DEF WriteEnds, HInv, TypeOK
<1>11. ASSUME NEW c \in Conn, LastAnswer(c) \/ ReadFails(c) \/ Aborted(c) PROVE HInv'
  <2>1. pc[c] \in Started /\ Ending(c)
    BY <1>11 DEF LastAnswer, ReadFails, Aborted, Hears, Started
  <2> QED BY <2>1, EndingKeeps
<1>8. CASE UNCHANGED vars
  BY <1>8, RunsOn DEF vars, connVars, timerVars, HInv, TypeOK
<1>9. CASE Done
  BY <1>8, <1>9 DEF Done
<1> QED BY <1>1, <1>2, <1>3, <1>4, <1>5, <1>6, <1>7, <1>8, <1>9, <1>10, <1>11, StartAcceptingKeeps,
           AcceptKeeps, TickKeeps, ReadRequestKeeps, FallSilentKeeps DEF Next

\* The inductive invariant of the server, from starting its workers to the end of run().
THEOREM ServerInvariant == Spec => []HInv
<1> QED BY HInvInit, HInvStep, PTL DEF Spec

\* The numbers do_accept balances by are right, although two threads keep them.
THEOREM QueueLengthsKept == Spec => []QueueLengths
<1>1. HInv => QueueLengths BY DEF HInv
<1> QED BY <1>1, ServerInvariant, PTL

\* A deadline that is armed belongs to a connection that reads, which armed it last.
THEOREM DeadlinesKept == Spec => []OneDeadlineEach
<1>1. HInv => OneDeadlineEach BY DEF HInv
<1> QED BY <1>1, ServerInvariant, PTL

\* A connection that reads is watched by a deadline, until ids are given out again under one that
\* was closed and has not ended.
THEOREM WatchedKept == Spec => []WatchedUntilReuse
<1>1. HInv => WatchedUntilReuse BY DEF HInv
<1> QED BY <1>1, ServerInvariant, PTL
=============================================================================
