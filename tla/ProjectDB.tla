----------------------------- MODULE ProjectDB -----------------------------
(***************************************************************************)
(* The project half of AuthDB (AuthDB.hpp): a B-tree of projects keyed by  *)
(* id.  A change of thresholds inserts the project again under the id it   *)
(* has; a deletion removes the file and inserts the others into a new one, *)
(* page write by page write, under auth_mutex.                             *)
(***************************************************************************)
EXTENDS BTree

CONSTANTS User,
          ApiKey,          \* natural numbers, given out in their order
          MaxProjectId     \* bound: no project is given a larger id

ASSUME ProjectIdAssumption == MaxProjectId \in Nat /\ Key \subseteq 1..MaxProjectId

\* A project has any owner, any key and one of the thresholds considered.
Threshold == {v.fast_threshold : v \in Val}

ASSUME ProjectValAssumption ==
  /\ Threshold \subseteq Nat
  /\ Val = [user_id: User, api_key: ApiKey, fast_threshold: Threshold]

VARIABLES next_project_id,
          rebuild,         \* the projects rebuild_project_tree has still to insert
          issued,          \* history: the API keys of all projects ever made
          revoked          \* history: those of the projects deleted

dbVars == <<vars, next_project_id, rebuild, issued, revoked>>

\* No operation is running: auth_mutex is free.
Quiet == Idle /\ rebuild = <<>>

DBInit ==
  /\ Init
  /\ next_project_id = 1
  /\ rebuild = <<>>
  /\ issued = {}
  /\ revoked = {}

\* Mutant: only the keys of projects there are avoided.
create_project_reusesKeys(user_id) ==
  LET used == {p.val.api_key : p \in ToSet(AllValues)}
  IN \E api_key \in ApiKey \ used :
       LET project == [key |-> next_project_id,
                       val |-> [user_id |-> user_id, api_key |-> api_key,
                                fast_threshold |-> 100]]
       IN /\ \A k \in ApiKey \ used : api_key <= k
          /\ Quiet
          /\ project \in Entry
          /\ Insert(project)
          /\ next_project_id' = next_project_id + 1
          /\ issued' = issued \cup {api_key}
          /\ UNCHANGED <<rebuild, revoked>>

\* generate_api_key is random; the least key not used yet stands for any.
create_project(user_id) ==
  \E api_key \in ApiKey \ issued :
    LET project == [key |-> next_project_id,
                    val |-> [user_id |-> user_id, api_key |-> api_key,
                             fast_threshold |-> 100]]
    IN /\ \A k \in ApiKey \ issued : api_key <= k
       /\ Quiet
       /\ project \in Entry
       /\ Insert(project)
       /\ next_project_id' = next_project_id + 1
       /\ issued' = issued \cup {api_key}
       /\ UNCHANGED <<rebuild, revoked>>

\* The first result of search is changed and inserted under its old id.
update_project_settings(project_id, fast_threshold) ==
  LET results == Search(disk, root_page_id, project_id)
  IN /\ Quiet
     /\ results # <<>>
     /\ Insert([results[1] EXCEPT !.val.fast_threshold = fast_threshold])
     /\ UNCHANGED <<next_project_id, rebuild, issued, revoked>>

\* The old tree and its file are gone; the new file has an empty root.
rebuild_project_tree(projects) ==
  /\ disk' = NewFile
  /\ pages' = 1
  /\ next_page_id' = 1
  /\ root_page_id' = 0
  /\ rebuild' = projects
  /\ UNCHANGED <<todo, at, writes>>

\* Mutant: only the first entry with the id goes.
delete_project_firstEntry(project_id) ==
  LET all == AllValues
      j   == SelectInSeq(all, LAMBDA p : p.key = project_id)
  IN /\ Quiet
     /\ Known(project_id)
     /\ rebuild_project_tree(RemoveAt(all, j))
     /\ revoked' = revoked \cup {all[j].val.api_key}
     /\ UNCHANGED <<next_project_id, issued>>

\* The loop of delete_project keeps the projects with other ids.
Others(projects, project_id) ==
  LET kept[i \in 0..Len(projects)] ==
        IF i = 0 THEN <<>>
        ELSE kept[i - 1] \o
               IF projects[i].key # project_id THEN <<projects[i]>> ELSE <<>>
  IN kept[Len(projects)]

\* Every entry with the id goes, and the rest is inserted again.
delete_project(project_id) ==
  /\ Quiet
  /\ Known(project_id)
  /\ rebuild_project_tree(Others(AllValues, project_id))
  /\ revoked' = revoked \cup
       {p.val.api_key : p \in {q \in ToSet(AllValues) : q.key = project_id}}
  /\ UNCHANGED <<next_project_id, issued>>

Reinsert ==
  /\ rebuild # <<>>
  /\ Insert(Head(rebuild))
  /\ rebuild' = Tail(rebuild)
  /\ UNCHANGED <<next_project_id, issued, revoked>>

Proceed == Step /\ UNCHANGED <<next_project_id, rebuild, issued, revoked>>

\* Mutant: ids are counted from 1 again, as those of traces are.
Reopen_fromOne ==
  /\ Restart
  /\ rebuild' = <<>>
  /\ next_project_id' = 1
  /\ UNCHANGED <<issued, revoked>>

\* The process ends; the next one's AuthDB counts on from the ids it finds.
Reopen ==
  /\ Restart
  /\ rebuild' = <<>>
  /\ next_project_id' = 1 + Max({0} \cup {p.key : p \in ToSet(Values(disk', root_page_id'))})
  /\ UNCHANGED <<issued, revoked>>

DBNext ==
  \/ \E user_id \in User : create_project(user_id)
  \/ \E id \in Key, threshold \in Threshold : update_project_settings(id, threshold)
  \/ \E id \in Key : delete_project(id)
  \/ Reinsert
  \/ Proceed
  \/ Reopen

DBSpec == DBInit /\ [][DBNext]_dbVars

-----------------------------------------------------------------------------
(* Properties *)

\* The projects in the tree, in the running insert and still to be reinserted.
Held == Stored \cup todo \cup ToSet(rebuild)

ProjectOf(p) == [id |-> p.key, user_id |-> p.val.user_id, api_key |-> p.val.api_key]

Registered == {ProjectOf(p) : p \in Held}

\* AuthDB keeps its promise about owners and API keys through every page write
\* of every update and rebuild, even where an update leaves two entries of one
\* project in the tree.
Promise == INSTANCE Projects WITH projects <- Registered
ImplementsProjects == Promise!Spec

\* An API key speaks for one project and a project has one key, although ids are
\* given out again and an update can leave two entries of one project.
OneKeyEach == Promise!OneKeyEach

\* The key of a deleted project opens none, even if the process ends in the
\* middle of the rebuild that deletes it.
RevokedIsDead == Promise!RevokedIsDead
=============================================================================
