------------------------------ MODULE Projects ------------------------------
(***************************************************************************)
(* What AuthDB promises about projects, with no B-tree, no rebuild and no  *)
(* file: who owns a project and which API key speaks for it.  Thresholds   *)
(* are left out; BTree shows what becomes of an update.                    *)
(***************************************************************************)
EXTENDS Integers

CONSTANTS User,
          ApiKey,         \* what generate_api_key can return
          MaxProjectId    \* bound: no project is given a larger id

Project == [id: Nat \ {0}, user_id: User, api_key: ApiKey]

VARIABLES projects,         \* every project of the database
          next_project_id,
          issued,           \* history: the API keys of all projects ever made
          revoked           \* history: those of the projects deleted

vars == <<projects, next_project_id, issued, revoked>>

Init ==
  /\ projects = {}
  /\ next_project_id = 1
  /\ issued = {}
  /\ revoked = {}

\* 128 random bits: a key that no project had before.
Create(user_id, api_key) ==
  /\ next_project_id <= MaxProjectId
  /\ api_key \notin issued
  /\ projects' = projects \cup
       {[id |-> next_project_id, user_id |-> user_id, api_key |-> api_key]}
  /\ next_project_id' = next_project_id + 1
  /\ issued' = issued \cup {api_key}
  /\ UNCHANGED revoked

Delete(p) ==
  /\ projects' = projects \ {p}
  /\ revoked' = revoked \cup {p.api_key}
  /\ UNCHANGED <<next_project_id, issued>>

\* A new process counts on from the largest id it finds.
Reopen ==
  /\ projects' \in SUBSET projects
  /\ next_project_id' \in {1} \cup {p.id + 1 : p \in projects'}
  /\ \A p \in projects' : p.id < next_project_id'
  /\ UNCHANGED <<issued, revoked>>

Next ==
  \/ Reopen
  \/ \E user_id \in User, api_key \in ApiKey : Create(user_id, api_key)
  \/ \E p \in projects : Delete(p)

Spec == Init /\ [][Next]_vars

-----------------------------------------------------------------------------
(* Properties *)

TypeOK ==
  /\ projects \subseteq Project
  /\ next_project_id \in Nat \ {0}
  /\ issued \subseteq ApiKey
  /\ revoked \subseteq issued

\* An API key speaks for one project and a project has one API key, although
\* ids are given out again after a restart.
OneKeyEach ==
  \A p, q \in projects : p.id = q.id \/ p.api_key = q.api_key => p = q

\* The key of a deleted project never opens a project again.
RevokedIsDead == \A p \in projects : p.api_key \notin revoked

KeysIssued == \A p \in projects : p.api_key \in issued
IdsCounted == \A p \in projects : p.id < next_project_id

\* Together they are inductive.
ProjectsInv == TypeOK /\ OneKeyEach /\ RevokedIsDead /\ KeysIssued /\ IdsCounted
=============================================================================
