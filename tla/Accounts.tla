------------------------------ MODULE Accounts ------------------------------
(***************************************************************************)
(* What AuthDB promises about user accounts, with no B-tree, no rebuild    *)
(* and no file: a set of accounts that registration extends, that role     *)
(* changes and deactivation alter one by one, and that a new process may   *)
(* find only a part of.                                                    *)
(***************************************************************************)
EXTENDS Integers

CONSTANTS Email,      \* email hashes: what AuthDB tells accounts apart by
          MaxUserId   \* bound: no registration gives out a larger id

Role == 0..2
ROLE_USER  == 0
ROLE_ADMIN == 2

Account == [email: Email, id: Nat \ {0}, role: Role, active: BOOLEAN]

VARIABLES accounts,       \* every account of the database
          next_user_id,
          barred          \* history: emails deactivated and not registered anew since

vars == <<accounts, next_user_id, barred>>

Init == accounts = {} /\ next_user_id = 1 /\ barred = {}

\* The first user is the administrator.
NewAccount(email) ==
  [email |-> email, id |-> next_user_id, active |-> TRUE,
   role |-> IF next_user_id = 1 THEN ROLE_ADMIN ELSE ROLE_USER]

\* An email that has no account, or whose account a restart has lost, gets one.
Register(email) ==
  /\ next_user_id <= MaxUserId
  /\ \A u \in accounts : u.email # email
  /\ accounts' = accounts \cup {NewAccount(email)}
  /\ next_user_id' = next_user_id + 1
  /\ barred' = barred \ {email}

\* User 1 is out of reach of both changes.
SetRole(u, role) ==
  /\ u.id # 1
  /\ accounts' = (accounts \ {u}) \cup {[u EXCEPT !.role = role]}
  /\ UNCHANGED <<next_user_id, barred>>

Deactivate(u) ==
  /\ u.id # 1
  /\ accounts' = (accounts \ {u}) \cup {[u EXCEPT !.active = FALSE]}
  /\ barred' = barred \cup {u.email}
  /\ UNCHANGED next_user_id

\* A new process counts on from the largest id it finds.
Reopen ==
  /\ accounts' \in SUBSET accounts
  /\ next_user_id' \in {1} \cup {u.id + 1 : u \in accounts'}
  /\ \A u \in accounts' : u.id < next_user_id'
  /\ UNCHANGED barred

Next ==
  \/ Reopen
  \/ \E email \in Email : Register(email)
  \/ \E u \in accounts : Deactivate(u) \/ \E role \in Role : SetRole(u, role)

Spec == Init /\ [][Next]_vars

-----------------------------------------------------------------------------
(* Properties *)

TypeOK ==
  /\ accounts \subseteq Account
  /\ next_user_id \in Nat \ {0}
  /\ barred \subseteq Email

\* No two accounts have the same id or the same email, although ids are given
\* out again once a restart has lost the account that had them.
OneAccountEach ==
  \A u, v \in accounts : u.id = v.id \/ u.email = v.email => u = v

\* Every account's id is below the next one to be given out.
IdsCounted == \A u \in accounts : u.id < next_user_id

\* Whoever has id 1, the super admin, is an active administrator.
SuperAdmin == \A u \in accounts : u.id = 1 => u.role = ROLE_ADMIN /\ u.active

\* From its deactivation on, whatever roles are set, accounts rebuilt and
\* processes ended, an email has no active account until somebody registers it
\* again, and that is possible only where a restart has lost the account.
StaysDeactivated == \A u \in accounts : u.active => u.email \notin barred

\* Together they are inductive.
AccountsInv == TypeOK /\ OneAccountEach /\ IdsCounted /\ SuperAdmin /\ StaysDeactivated
=============================================================================
