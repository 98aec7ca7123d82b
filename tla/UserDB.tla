------------------------------- MODULE UserDB -------------------------------
(***************************************************************************)
(* The user half of AuthDB (AuthDB.hpp): a B-tree of accounts keyed by the *)
(* hash of their email, and the counter of their ids.  A role change or a  *)
(* deactivation removes the file and inserts every account into a new one, *)
(* page write by page write, under auth_mutex.                             *)
(***************************************************************************)
EXTENDS BTree

CONSTANT MaxUserId     \* bound: no registration gives out a larger id

ROLE_USER   == 0
ROLE_EDITOR == 1
ROLE_ADMIN  == 2
Role == {ROLE_USER, ROLE_EDITOR, ROLE_ADMIN}

ASSUME UserIdAssumption == MaxUserId \in Nat

\* An account has any id, one of the roles considered and is active or not.
ASSUME UserValAssumption ==
  \E roles \in SUBSET Role :
    /\ {ROLE_USER, ROLE_ADMIN} \subseteq roles
    /\ Val = [id: 1..MaxUserId, role: roles, active: BOOLEAN]

VARIABLES next_user_id,
          rebuild,       \* the accounts rebuild_user_tree has still to insert
          barred         \* history: emails deactivated and not registered anew since

dbVars == <<vars, next_user_id, rebuild, barred>>

\* No operation is running: auth_mutex is free.
Quiet == Idle /\ rebuild = <<>>

DBInit ==
  /\ Init
  /\ next_user_id = 1
  /\ rebuild = <<>>
  /\ barred = {}

\* The address is hashed; one that is known already registers no account.
register_user(email) ==
  LET user == [key |-> email,
               val |-> [id |-> next_user_id, active |-> TRUE,
                        role |-> IF next_user_id = 1 THEN ROLE_ADMIN ELSE ROLE_USER]]
  IN /\ Quiet
     /\ next_user_id <= MaxUserId
     /\ ~Known(email)
     /\ Insert(user)
     /\ next_user_id' = next_user_id + 1
     /\ barred' = barred \ {email}
     /\ UNCHANGED rebuild

\* Mutant: the old file stays where it is.
rebuild_user_tree_keepsFile(users) ==
  /\ root_page_id' = 0
  /\ next_page_id' = pages + 1
  /\ rebuild' = users
  /\ UNCHANGED <<fileVars, todo, at, writes, next_user_id>>

\* The old tree and its file are gone; the new file has an empty root.
rebuild_user_tree(users) ==
  /\ disk' = NewFile
  /\ pages' = 1
  /\ next_page_id' = 1
  /\ root_page_id' = 0
  /\ rebuild' = users
  /\ UNCHANGED <<todo, at, writes, next_user_id>>

\* Mutant: user 1 can be changed.
ChangeUser_anyone(user_id, change) ==
  LET users == AllValues
      j == SelectInSeq(users, LAMBDA u : u.val.id = user_id)
      changed == [users[j] EXCEPT !.val = change[@]]
  IN /\ Quiet
     /\ j # 0
     /\ rebuild_user_tree([i \in DOMAIN users |->
                             IF users[i].val.id = user_id THEN changed ELSE users[i]])

\* Every account with the id becomes what the first of them is changed to.
ChangeUser(user_id, change) ==
  LET users == AllValues
      j == SelectInSeq(users, LAMBDA u : u.val.id = user_id)
      changed == [users[j] EXCEPT !.val = change[@]]
  IN /\ Quiet
     /\ user_id # 1
     /\ j # 0
     /\ rebuild_user_tree([i \in DOMAIN users |->
                             IF users[i].val.id = user_id THEN changed ELSE users[i]])

\* Mutant: a new role wakes the account up.
update_user_role_wakes(user_id, new_role) ==
  /\ ChangeUser(user_id, [v \in Val |-> [v EXCEPT !.role = new_role, !.active = TRUE]])
  /\ UNCHANGED barred

update_user_role(user_id, new_role) ==
  /\ ChangeUser(user_id, [v \in Val |-> [v EXCEPT !.role = new_role]])
  /\ UNCHANGED barred

EmailsOf(user_id) == {u.key : u \in {v \in ToSet(AllValues) : v.val.id = user_id}}

deactivate_user(user_id) ==
  /\ ChangeUser(user_id, [v \in Val |-> [v EXCEPT !.active = FALSE]])
  /\ barred' = barred \cup EmailsOf(user_id)

Reinsert ==
  /\ rebuild # <<>>
  /\ Insert(Head(rebuild))
  /\ rebuild' = Tail(rebuild)
  /\ UNCHANGED <<next_user_id, barred>>

Proceed == Step /\ UNCHANGED <<next_user_id, rebuild, barred>>

\* Mutant: ids are counted from 1 again, as those of traces are.
Reopen_fromOne ==
  /\ Restart
  /\ rebuild' = <<>>
  /\ next_user_id' = 1
  /\ UNCHANGED barred

\* The process ends; the next one's AuthDB counts on from the ids it finds.
Reopen ==
  /\ Restart
  /\ rebuild' = <<>>
  /\ next_user_id' = 1 + Max({0} \cup {u.val.id : u \in ToSet(Values(disk', root_page_id'))})
  /\ UNCHANGED barred

DBNext ==
  \/ \E email \in Key : register_user(email)
  \/ \E user_id \in 1..MaxUserId, role \in {v.role : v \in Val} :
       update_user_role(user_id, role)
  \/ \E user_id \in 1..MaxUserId : deactivate_user(user_id)
  \/ Reinsert
  \/ Proceed
  \/ Reopen

DBSpec == DBInit /\ [][DBNext]_dbVars

-----------------------------------------------------------------------------
(* Properties *)

\* The accounts in the tree, in the running insert and still to be reinserted.
Held == Stored \cup todo \cup ToSet(rebuild)

AccountOf(u) == [email |-> u.key, id |-> u.val.id, role |-> u.val.role,
                 active |-> u.val.active]

Registered == {AccountOf(u) : u \in Held}

\* AuthDB keeps its promise through every page write of every rebuild: no
\* account but the one asked for changes, none is doubled, and none is lost
\* except by the end of the process.
Promise == INSTANCE Accounts WITH Email <- Key, accounts <- Registered
ImplementsAccounts == Promise!Spec

\* No two accounts in the tree share an id or an email, although a restart that
\* lost accounts gives their ids out again.
OneAccountEach == Promise!OneAccountEach

\* Whoever has id 1 is an active administrator, whatever the routes were asked.
SuperAdmin == Promise!SuperAdmin

\* No role change, and no rebuild wherever the process ends in it, lets a
\* deactivated email log in again; only a new registration does, for which a
\* restart must first have lost the account.
StaysDeactivated == Promise!StaysDeactivated

=============================================================================
