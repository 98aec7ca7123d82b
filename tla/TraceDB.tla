------------------------------ MODULE TraceDB ------------------------------
(***************************************************************************)
(* The trace database (Database.hpp, class ExecTraceDB): a B-tree of       *)
(* traces, keyed by the id that log_event counts up.  Every operation      *)
(* holds db_mutex to its end, so reads happen only when no insert runs.    *)
(*                                                                         *)
(* The counter lives in memory and starts at 1 in every process, over a    *)
(* file that may hold the traces of earlier ones.                          *)
(***************************************************************************)
EXTENDS BTree

ASSUME IdAssumption  == Key \subseteq Nat \ {0}
ASSUME ValAssumption == Val \subseteq [project: Nat \ {0}, duration: Nat]

VARIABLES next_id,     \* ExecTraceDB::next_id
          mine,        \* history: what this process has logged
          survived     \* history: what this process found in the file

dbVars == <<vars, next_id, mine, survived>>

DBInit ==
  /\ Init
  /\ next_id = 1
  /\ mine = {}
  /\ survived = {}

\* Mutant: the id is not counted up.
log_event_sameId(v) ==
  LET entry == [key |-> next_id, val |-> v]
  IN /\ entry \in Entry
     /\ Insert(entry)
     /\ mine' = mine \cup {entry}
     /\ UNCHANGED <<next_id, survived>>

\* A trace gets the next id, whatever the file holds under it.
log_event(v) ==
  LET entry == [key |-> next_id, val |-> v]
  IN /\ entry \in Entry
     /\ Insert(entry)
     /\ next_id' = next_id + 1
     /\ mine' = mine \cup {entry}
     /\ UNCHANGED survived

Proceed == Step /\ UNCHANGED <<next_id, mine, survived>>

\* The process ends and the next one constructs its ExecTraceDB.
Reopen ==
  /\ Restart
  /\ next_id' = 1
  /\ mine' = {}
  /\ survived' = ToSet(Values(disk', root_page_id'))

DBNext == (\E v \in Val : log_event(v)) \/ Proceed \/ Reopen

DBSpec == DBInit /\ [][DBNext]_dbVars

-----------------------------------------------------------------------------
(* The readers *)

Hour == 3600000

\* TraceEntry::is_valid; a trace is never marked deleted.
is_valid(t) == t.key > 0 /\ t.val.project > 0 /\ t.val.duration < Hour

search(id) == Search(disk, root_page_id, id)

\* The copying loop of both readers: the traces at the positions I, in their order.
Chosen(traces, I) ==
  LET kept[i \in 0..Len(traces)] ==
        IF i = 0 THEN <<>> ELSE kept[i - 1] \o IF i \in I THEN <<traces[i]>> ELSE <<>>
  IN kept[Len(traces)]

search_by_project(p) ==
  Chosen(AllValues, {i \in DOMAIN AllValues : AllValues[i].val.project = p})

get_all_traces == Chosen(AllValues, {i \in DOMAIN AllValues : is_valid(AllValues[i])})

-----------------------------------------------------------------------------
(* Properties *)

\* What this process can show: what it logged itself, and what it found in the
\* file under ids that its own count has not reached yet.
Visible == mine \cup {t \in survived : t.key >= next_id}

\* Readers find exactly the visible traces, each of them once and under the
\* project that logged it, whatever tree earlier processes left in the file.
ReadersSee ==
  Idle =>
    /\ \A t \in Visible : search(t.key) = <<t>>
    /\ \A p \in {v.project : v \in Val} :
         LET found == search_by_project(p)
         IN /\ ToSet(found) = {t \in Visible : t.val.project = p}
            /\ Len(found) = Cardinality(ToSet(found))
    /\ ToSet(get_all_traces) = {t \in Visible : is_valid(t)}

\* What a process finds in the file was visible in the one before it or is the
\* trace that one was logging, and between two calls it is the newest traces
\* that get lost, never one from the middle.
OldestSurvive ==
  [][Reopen =>
       /\ survived' \subseteq mine \cup survived
       /\ Idle => \A t \in survived', u \in Visible \ survived' : t.key < u.key]_dbVars
=============================================================================
