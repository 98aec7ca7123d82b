--------------------------- MODULE AccountsProofs ---------------------------
(***************************************************************************)
(* Proofs about the user database, for every degree of its tree, set of    *)
(* emails and bound on pages and ids: what Accounts promises holds, and    *)
(* UserDB implements Accounts, page write by page write.                   *)
(***************************************************************************)
EXTENDS UserDB, TreeProofs

USE DEF Promise!Role, Promise!ROLE_USER, Promise!ROLE_ADMIN, Promise!Account

\* A new database has no accounts to go wrong.
LEMMA InitAccounts == Promise!Init => Promise!AccountsInv
BY DEF Promise!Init, Promise!AccountsInv, Promise!TypeOK, Promise!OneAccountEach,
       Promise!IdsCounted, Promise!SuperAdmin, Promise!StaysDeactivated

\* register_user: the new id is above all others and the email is new.
LEMMA RegisterAccounts ==
  ASSUME Promise!AccountsInv, NEW email \in Key, Promise!Register(email)
  PROVE  Promise!AccountsInv'
<1> DEFINE new == Promise!NewAccount(email)
<1>1. new \in Promise!Account
  BY DEF Promise!NewAccount, Promise!AccountsInv, Promise!TypeOK
<1>2. Promise!TypeOK'
  BY <1>1 DEF Promise!Register, Promise!AccountsInv, Promise!TypeOK
<1>3. new.id = next_user_id /\ new.email = email
      /\ (next_user_id = 1 => new.role = Promise!ROLE_ADMIN) /\ new.active
  BY DEF Promise!NewAccount
<1>4. next_user_id \in Nat /\ \A u \in Registered : u.id \in Nat /\ u.id < next_user_id
  BY DEF Promise!AccountsInv, Promise!TypeOK, Promise!IdsCounted
<1> HIDE DEF new
<1>5. Registered' = Registered \cup {new} /\ next_user_id' = next_user_id + 1
      /\ \A u \in Registered : u.email # email
  BY DEF Promise!Register, new
<1>6. Promise!OneAccountEach'
  <2>1. \A u \in Registered : u.id # new.id /\ u.email # new.email
    BY <1>3, <1>4, <1>5
  <2> QED BY <1>5, <2>1 DEF Promise!AccountsInv, Promise!OneAccountEach
<1>7. Promise!IdsCounted' /\ Promise!SuperAdmin'
  BY <1>3, <1>4, <1>5 DEF Promise!AccountsInv, Promise!IdsCounted, Promise!SuperAdmin
<1>8. Promise!StaysDeactivated'
  <2>1. barred' = barred \ {email}
    BY DEF Promise!Register
  <2> QED BY <1>3, <1>5, <2>1 DEF Promise!AccountsInv, Promise!StaysDeactivated
<1> QED BY <1>2, <1>6, <1>7, <1>8 DEF Promise!AccountsInv

\* update_user_role and deactivate_user: one account other than user 1 takes
\* the place of itself, with its id and email as before, and either is barred
\* from then on or no more active than it was.
LEMMA ChangeAccounts ==
  ASSUME Promise!AccountsInv, NEW u \in Registered, NEW v \in Promise!Account, u.id # 1,
         v.id = u.id, v.email = u.email,
         Registered' = (Registered \ {u}) \cup {v},
         next_user_id' = next_user_id,
         \/ barred' = barred /\ v.active = u.active
         \/ barred' = barred \cup {u.email} /\ ~v.active
  PROVE  Promise!AccountsInv'
<1>1. Promise!TypeOK' /\ Promise!IdsCounted'
  BY DEF Promise!AccountsInv, Promise!TypeOK, Promise!IdsCounted
<1>2. Promise!OneAccountEach'
  <2>1. \A w \in Registered \ {u} : w.id # v.id /\ w.email # v.email
    BY DEF Promise!AccountsInv, Promise!OneAccountEach
  <2> QED BY <2>1 DEF Promise!AccountsInv, Promise!OneAccountEach
<1>3. Promise!SuperAdmin'
  BY DEF Promise!AccountsInv, Promise!SuperAdmin
<1>4. Promise!StaysDeactivated'
  <2>1. \A w \in Registered \ {u} : w.email # u.email
    BY DEF Promise!AccountsInv, Promise!OneAccountEach
  <2> QED BY <2>1 DEF Promise!AccountsInv, Promise!StaysDeactivated
<1> QED BY <1>1, <1>2, <1>3, <1>4 DEF Promise!AccountsInv

\* A role change keeps the invariant.
LEMMA SetRoleAccounts ==
  ASSUME Promise!AccountsInv, NEW u \in Registered, NEW role \in Promise!Role,
         Promise!SetRole(u, role)
  PROVE  Promise!AccountsInv'
<1> DEFINE v == [u EXCEPT !.role = role]
<1>1. v \in Promise!Account /\ v.id = u.id /\ v.email = u.email /\ v.active = u.active
  BY DEF Promise!AccountsInv, Promise!TypeOK
<1> HIDE DEF v
<1>2. /\ u.id # 1 /\ Registered' = (Registered \ {u}) \cup {v}
      /\ next_user_id' = next_user_id /\ barred' = barred
  BY DEF Promise!SetRole, v
<1> QED BY <1>1, <1>2, ChangeAccounts

\* A deactivation keeps the invariant.
LEMMA DeactivateAccounts ==
  ASSUME Promise!AccountsInv, NEW u \in Registered, Promise!Deactivate(u)
  PROVE  Promise!AccountsInv'
<1> DEFINE v == [u EXCEPT !.active = FALSE]
<1>1. v \in Promise!Account /\ v.id = u.id /\ v.email = u.email /\ ~v.active
  BY DEF Promise!AccountsInv, Promise!TypeOK
<1> HIDE DEF v
<1>2. /\ u.id # 1 /\ Registered' = (Registered \ {u}) \cup {v}
      /\ next_user_id' = next_user_id /\ barred' = barred \cup {u.email}
  BY DEF Promise!Deactivate, v
<1> QED BY <1>1, <1>2, ChangeAccounts

\* A new process: what is left of the accounts is as good as all of them.
LEMMA ReopenAccounts ==
  ASSUME Promise!AccountsInv, Promise!Reopen
  PROVE  Promise!AccountsInv'
<1>1. Registered' \subseteq Registered /\ barred' = barred
  BY DEF Promise!Reopen
<1>2. Promise!TypeOK'
  <2>1. next_user_id' \in Nat \ {0}
    BY <1>1 DEF Promise!Reopen, Promise!AccountsInv, Promise!TypeOK
  <2> QED BY <1>1, <2>1 DEF Promise!AccountsInv, Promise!TypeOK
<1>3. Promise!OneAccountEach' /\ Promise!SuperAdmin' /\ Promise!StaysDeactivated'
  BY <1>1 DEF Promise!AccountsInv, Promise!OneAccountEach, Promise!SuperAdmin,
              Promise!StaysDeactivated
<1>4. Promise!IdsCounted'
  BY DEF Promise!Reopen, Promise!IdsCounted
<1> QED BY <1>2, <1>3, <1>4 DEF Promise!AccountsInv

\* The invariant of AuthDB's accounts, with its five parts.
THEOREM AccountsInvariant == Promise!Spec => []Promise!AccountsInv
<1>1. Promise!AccountsInv /\ [Promise!Next]_(Promise!vars) => Promise!AccountsInv'
  <2> SUFFICES ASSUME Promise!AccountsInv, [Promise!Next]_(Promise!vars)
               PROVE  Promise!AccountsInv'
    OBVIOUS
  <2>1. CASE Promise!Reopen
    BY <2>1, ReopenAccounts
  <2>2. ASSUME NEW email \in Key, Promise!Register(email) PROVE Promise!AccountsInv'
    BY <2>2, RegisterAccounts
  <2>3. ASSUME NEW u \in Registered, Promise!Deactivate(u) PROVE Promise!AccountsInv'
    BY <2>3, DeactivateAccounts
  <2>4. ASSUME NEW u \in Registered, NEW role \in Promise!Role, Promise!SetRole(u, role)
        PROVE  Promise!AccountsInv'
    BY <2>4, SetRoleAccounts
  <2>5. CASE UNCHANGED Promise!vars
    BY <2>5 DEF Promise!vars, Promise!AccountsInv, Promise!TypeOK, Promise!OneAccountEach,
                Promise!IdsCounted, Promise!SuperAdmin, Promise!StaysDeactivated
  <2> QED BY <2>1, <2>2, <2>3, <2>4, <2>5 DEF Promise!Next
<1> QED BY <1>1, InitAccounts, PTL DEF Promise!Spec

\* AuthDB::register_user gives no id and no email to two accounts, although
\* ids are counted from what a new process finds.
THEOREM PromiseUnique == Promise!Spec => []Promise!OneAccountEach
<1>1. Promise!AccountsInv => Promise!OneAccountEach
  BY DEF Promise!AccountsInv
<1> QED BY <1>1, AccountsInvariant, PTL

\* The guards of update_user_role and deactivate_user: whoever has id 1 stays
\* an active administrator.
THEOREM PromiseAdmin == Promise!Spec => []Promise!SuperAdmin
<1>1. Promise!AccountsInv => Promise!SuperAdmin
  BY DEF Promise!AccountsInv
<1> QED BY <1>1, AccountsInvariant, PTL

\* deactivate_user is not undone by a role change, a rebuild or the end of the
\* process: until an email is registered again it has no active account.
THEOREM PromiseLasts == Promise!Spec => []Promise!StaysDeactivated
<1>1. Promise!AccountsInv => Promise!StaysDeactivated
  BY DEF Promise!AccountsInv
<1> QED BY <1>1, AccountsInvariant, PTL

-----------------------------------------------------------------------------
(* The accounts that the tree and a running rebuild hold.                    *)

\* What rebuild_user_tree has still to insert fits beside what is in the tree:
\* no two of these accounts, and none of these and those, have the same key.
Ready ==
  /\ rebuild \in Seq(Entry)
  /\ \A i \in 1..Len(rebuild) : \A j \in 1..Len(rebuild) :
       i # j => rebuild[i].key # rebuild[j].key
  /\ \A i \in 1..Len(rebuild) : \A x \in Stored \cup todo : x.key # rebuild[i].key

\* The inductive invariant of the user database.
UserInv ==
  /\ IInv
  /\ RInv
  /\ todo = {} => at = 0
  /\ Ready
  /\ Promise!AccountsInv

\* What an entry of the user database is.
LEMMA ValProps ==
  /\ ROLE_USER \in Promise!Role /\ ROLE_ADMIN \in Promise!Role
  /\ \A v \in Val : /\ v.id \in 1..MaxUserId /\ v.role \in Promise!Role /\ v.active \in BOOLEAN
                    /\ v = [id |-> v.id, role |-> v.role, active |-> v.active]
                    /\ [v EXCEPT !.active = FALSE] \in Val
                    /\ \A w \in Val : [v EXCEPT !.role = w.role] \in Val
  /\ \A n \in 1..MaxUserId :
       /\ [id |-> n, active |-> TRUE, role |-> ROLE_ADMIN] \in Val
       /\ [id |-> n, active |-> TRUE, role |-> ROLE_USER] \in Val
<1>1. PICK roles \in SUBSET Role :
        /\ {ROLE_USER, ROLE_ADMIN} \subseteq roles
        /\ Val = [id: 1..MaxUserId, role: roles, active: BOOLEAN]
  BY UserValAssumption
<1>2. Role = Promise!Role
  BY DEF Role, ROLE_USER, ROLE_EDITOR, ROLE_ADMIN, Promise!Role
<1>3. ROLE_USER \in Promise!Role /\ ROLE_ADMIN \in Promise!Role
  BY DEF ROLE_USER, ROLE_ADMIN, Promise!Role
<1>4. ASSUME NEW v \in Val
      PROVE  /\ v.id \in 1..MaxUserId /\ v.role \in Promise!Role /\ v.active \in BOOLEAN
             /\ v = [id |-> v.id, role |-> v.role, active |-> v.active]
             /\ [v EXCEPT !.active = FALSE] \in Val
             /\ \A w \in Val : [v EXCEPT !.role = w.role] \in Val
  <2> HIDE DEF Promise!Role
  <2> QED BY <1>1, <1>2
<1>5. ASSUME NEW n \in 1..MaxUserId
      PROVE  /\ [id |-> n, active |-> TRUE, role |-> ROLE_ADMIN] \in Val
             /\ [id |-> n, active |-> TRUE, role |-> ROLE_USER] \in Val
  BY <1>1
<1> QED BY <1>3, <1>4, <1>5

\* An account is the entry it was read from.
LEMMA AccountProps ==
  /\ \A u : /\ AccountOf(u).email = u.key /\ AccountOf(u).id = u.val.id
            /\ AccountOf(u).role = u.val.role /\ AccountOf(u).active = u.val.active
  /\ \A u \in Entry : u.key \in Key /\ u.val \in Val /\ u = [key |-> u.key, val |-> u.val]
  /\ \A u \in Entry, v \in Entry : AccountOf(u) = AccountOf(v) => u = v
<1>1. \A u : /\ AccountOf(u).email = u.key /\ AccountOf(u).id = u.val.id
             /\ AccountOf(u).role = u.val.role /\ AccountOf(u).active = u.val.active
  BY DEF AccountOf
<1>2. \A u \in Entry : u.key \in Key /\ u.val \in Val /\ u = [key |-> u.key, val |-> u.val]
  BY DEF Entry
<1>3. ASSUME NEW u \in Entry, NEW v \in Entry, AccountOf(u) = AccountOf(v)
      PROVE  u = v
  <2>1. /\ u.key = v.key /\ u.val.id = v.val.id
        /\ u.val.role = v.val.role /\ u.val.active = v.val.active
    BY <1>1, <1>3
  <2>2. u.val = v.val
    BY <1>2, <2>1, ValProps
  <2> QED BY <1>2, <2>1, <2>2
<1> QED BY <1>1, <1>2, <1>3

\* A change of one field leaves the others.
LEMMA FieldChange ==
  /\ \A v \in Val : \A new :
       [v EXCEPT !.active = new] = [id |-> v.id, role |-> v.role, active |-> new]
  /\ \A u, new : [AccountOf(u) EXCEPT !.active = new]
                 = [email |-> u.key, id |-> u.val.id, role |-> u.val.role, active |-> new]
<1>1. ASSUME NEW v \in Val, NEW new
      PROVE  [v EXCEPT !.active = new] = [id |-> v.id, role |-> v.role, active |-> new]
  <2>1. v = [id |-> v.id, role |-> v.role, active |-> v.active]
    BY ValProps
  <2> QED BY <2>1
<1>2. ASSUME NEW u, NEW new
      PROVE  [AccountOf(u) EXCEPT !.active = new]
                 = [email |-> u.key, id |-> u.val.id, role |-> u.val.role, active |-> new]
  BY DEF AccountOf
<1> QED BY <1>1, <1>2

\* Held has entries, those of the tree alone when nothing runs.
LEMMA HeldProps ==
  ASSUME UserInv
  PROVE  /\ Held \subseteq Entry
         /\ Quiet => Held = Stored /\ todo = {} /\ writes = <<>> /\ rebuild = <<>>
<1>1. Stored \subseteq Entry
  BY PageZeroIs DEF UserInv, RInv, PageZeroFact
<1>2. todo \subseteq Entry
  BY DEF UserInv, IInv, TypeOK
<1>3. ToSet(rebuild) \subseteq Entry
  BY ToSetIs DEF UserInv, Ready
<1>4. ASSUME Quiet
      PROVE  Held = Stored /\ todo = {} /\ writes = <<>> /\ rebuild = <<>>
  <2>1. ToSet(<<>>) = {}
    BY DEF ToSet
  <2> QED BY <1>4, <2>1 DEF Quiet, Idle, Held
<1> QED BY <1>1, <1>2, <1>3, <1>4 DEF Held

\* The smallest position of a set of positions.
LEMMA MinIs ==
  ASSUME NEW S \in SUBSET Nat, S # {}
  PROVE  Min(S) \in S
<1>1. PICK x \in S : \A y \in S : x <= y
  BY Least
<1> QED BY <1>1 DEF Min

-----------------------------------------------------------------------------
(* The operations of AuthDB.                                                 *)

\* A new database.
LEMMA InitUsers ==
  ASSUME DBInit
  PROVE  UserInv /\ Promise!Init
<1>1. IInv /\ RInv /\ Stored = {}
  BY NewIs DEF DBInit, NewFact
<1>2. todo = {} /\ at = 0 /\ rebuild = <<>> /\ next_user_id = 1 /\ barred = {}
  BY DEF DBInit, Init
<1>3. Ready
  BY <1>2 DEF Ready
<1>4. Held = {}
  BY <1>1, <1>2 DEF Held, ToSet
<1>5. Promise!Init
  BY <1>2, <1>4 DEF Promise!Init, Registered
<1>6. Promise!AccountsInv
  BY <1>5, InitAccounts
<1> QED BY <1>1, <1>2, <1>3, <1>5, <1>6 DEF UserInv

\* register_user, up to the page writes of its insert.
LEMMA RegisterUser ==
  ASSUME UserInv, NEW email \in Key, register_user(email)
  PROVE  UserInv' /\ Promise!Register(email)
<1> DEFINE user == [key |-> email,
                    val |-> [id |-> next_user_id, active |-> TRUE,
                             role |-> IF next_user_id = 1 THEN ROLE_ADMIN ELSE ROLE_USER]]
<1>1. /\ Quiet /\ next_user_id <= MaxUserId /\ ~Known(email) /\ Insert(user)
      /\ next_user_id' = next_user_id + 1 /\ rebuild' = rebuild
      /\ barred' = barred \ {email}
  BY DEF register_user
<1>2. Held = Stored /\ todo = {} /\ writes = <<>> /\ rebuild = <<>> /\ Held \subseteq Entry
  BY <1>1, HeldProps
<1>3. next_user_id \in 1..MaxUserId
  BY <1>1, UserIdAssumption DEF UserInv, Promise!AccountsInv, Promise!TypeOK
<1>4. user \in Entry /\ user.key = email
  BY <1>3, ValProps DEF Entry
<1>5. Fresh(email)
  BY <1>1, <1>2, UnknownFresh DEF UserInv
<1>6. AccountOf(user) = Promise!NewAccount(email)
  BY DEF AccountOf, Promise!NewAccount, ROLE_USER, ROLE_ADMIN, Promise!ROLE_USER,
         Promise!ROLE_ADMIN
<1> HIDE DEF user
<1>7. IInv' /\ RInv' /\ Stored' = Stored /\ todo' = {user}
  BY <1>1, <1>4, <1>5, InsertBegins DEF UserInv
<1>8. Ready'
  BY <1>1, <1>2 DEF Ready
<1>9. Held' = Held \cup {user}
  <2>1. ToSet(rebuild') = {}
    BY <1>1, <1>2 DEF ToSet
  <2> QED BY <1>2, <1>7, <2>1 DEF Held
<1>10. Registered' = Registered \cup {Promise!NewAccount(email)}
  BY <1>6, <1>9 DEF Registered
<1>11. \A a \in Registered : a.email # email
  BY <1>2, <1>5, AccountProps DEF Fresh, Registered
<1>12. Promise!Register(email)
  BY <1>1, <1>10, <1>11 DEF Promise!Register
<1>13. Promise!AccountsInv'
  BY <1>12, RegisterAccounts DEF UserInv
<1> QED BY <1>7, <1>8, <1>12, <1>13 DEF UserInv

\* What rebuild_user_tree does to the tree for a change that keeps ids: the new
\* file is empty, and all accounts but the changed one are inserted as they are.
LEMMA ChangeKeeps ==
  ASSUME UserInv, NEW change, NEW user_id, ChangeUser(user_id, change),
         \A v \in Val : change[v] \in Val
  PROVE  /\ IInv' /\ RInv' /\ (todo' = {} => at' = 0) /\ Ready'
         /\ next_user_id' = next_user_id
         /\ \E u \in Held : /\ u.val.id # 1
                            /\ EmailsOf(user_id) = {u.key}
                            /\ Held' = (Held \ {u}) \cup {[key |-> u.key, val |-> change[u.val]]}
<1>1. PICK s : s = AllValues
  OBVIOUS
<1>2. Held = Stored /\ todo = {} /\ writes = <<>> /\ rebuild = <<>> /\ Held \subseteq Entry
  BY HeldProps DEF ChangeUser
<1>3. s \in Seq(Entry) /\ Ascending(1, s) /\ ToSet(s) = Held
  BY <1>1, <1>2, ReadersGet DEF UserInv
<1>4. /\ Len(s) \in Nat /\ DOMAIN s = 1..Len(s)
      /\ \A i \in 1..Len(s) : s[i] \in Entry /\ s[i] \in Held
      /\ \A x \in Held : \E i \in 1..Len(s) : s[i] = x
  <2>1. \A x : x \in ToSet(s) <=> \E i \in 1..Len(s) : s[i] = x
    BY <1>3, ToSetIs
  <2>2. Len(s) \in Nat /\ DOMAIN s = 1..Len(s) /\ \A i \in 1..Len(s) : s[i] \in Entry
    BY <1>3, ElementOfSeq
  <2> QED BY <1>3, <2>1, <2>2
<1>5. \A i \in 1..Len(s) : \A k \in 1..Len(s) : i # k => s[i].key # s[k].key
  <2> TAKE i \in 1..Len(s)
  <2> TAKE k \in 1..Len(s)
  <2>1. s[i].key \in Int /\ s[k].key \in Int
    BY <1>4, KeyAssumption DEF Entry
  <2>2. i < k => s[i].key < s[k].key
    BY <1>3, <1>4, <2>1 DEF Ascending
  <2>3. k < i => s[k].key < s[i].key
    BY <1>3, <1>4, <2>1 DEF Ascending
  <2> QED BY <1>4, <2>1, <2>2, <2>3
<1> DEFINE I == {i \in 1..Len(s) : s[i].val.id = user_id}
<1>6. PICK j : j = IF I # {} THEN Min(I) ELSE 0
  OBVIOUS
<1> DEFINE changed == [s[j] EXCEPT !.val = change[@]]
           new == [i \in DOMAIN s |-> IF s[i].val.id = user_id THEN changed ELSE s[i]]
<1>7. /\ Quiet /\ user_id # 1 /\ j # 0 /\ rebuild_user_tree(new)
  BY <1>1, <1>6 DEF ChangeUser, SelectInSeq
<1>8. j \in 1..Len(s) /\ s[j].val.id = user_id
  <2>1. I \in SUBSET Nat
    BY <1>4
  <2>2. I # {}
    <3> HIDE DEF I
    <3> QED BY <1>6, <1>7
  <2>3. j \in I
    <3> HIDE DEF I
    <3> QED BY <1>6, <2>1, <2>2, MinIs
  <2> QED BY <2>3
<1>9. \A i \in 1..Len(s) : s[i].val.id = user_id <=> i = j
  <2> SUFFICES ASSUME NEW i \in 1..Len(s), s[i].val.id = user_id PROVE i = j
    BY <1>8
  <2>1. AccountOf(s[i]) \in Registered /\ AccountOf(s[j]) \in Registered
    BY <1>4, <1>8 DEF Registered
  <2>2. AccountOf(s[i]).id = AccountOf(s[j]).id
    BY <1>8, AccountProps
  <2>3. AccountOf(s[i]) = AccountOf(s[j])
    BY <2>1, <2>2 DEF UserInv, Promise!AccountsInv, Promise!OneAccountEach
  <2>4. s[i].key = s[j].key
    BY <2>3, AccountProps
  <2> QED BY <1>5, <1>8, <2>4
<1>10. PICK u : u = s[j]
  OBVIOUS
<1>11. PICK w : w = [key |-> u.key, val |-> change[u.val]]
  OBVIOUS
<1>12. u \in Entry /\ u \in Held /\ u.val.id # 1 /\ u.val \in Val
  BY <1>4, <1>7, <1>8, <1>10, AccountProps
<1>13. w \in Entry /\ w.key = u.key
  BY <1>11, <1>12, AccountProps DEF Entry
<1>14. changed = w
  BY <1>10, <1>11, <1>12 DEF Entry
<1>15. PICK t : t = new
  OBVIOUS
<1>16. t = [i \in 1..Len(s) |-> IF i = j THEN w ELSE s[i]]
  BY <1>4, <1>9, <1>14, <1>15
<1>17. t \in Seq(Entry) /\ Len(t) = Len(s) /\ DOMAIN t = 1..Len(s)
  <2>1. \A i \in 1..Len(s) : (IF i = j THEN w ELSE s[i]) \in Entry
    BY <1>4, <1>13
  <2> QED BY <1>4, <1>16, <2>1
<1>18. \A i \in 1..Len(s) : t[i] = (IF i = j THEN w ELSE s[i]) /\ t[i].key = s[i].key
  BY <1>10, <1>13, <1>16
<1>19. rebuild_user_tree(t)
  BY <1>7, <1>15
<1> HIDE DEF new, changed, I
<1>20. Init' /\ rebuild' = t /\ next_user_id' = next_user_id
  BY <1>2, <1>19 DEF rebuild_user_tree, Init, UserInv
<1>21. IInv' /\ RInv' /\ Stored' = {} /\ todo' = {} /\ at' = 0
  <2>1. NewFact'
    BY NewIs, PTL
  <2> QED BY <1>20, <2>1 DEF NewFact, Init
<1>22. Ready'
  BY <1>5, <1>17, <1>18, <1>20, <1>21 DEF Ready
<1>23. Held' = (Held \ {u}) \cup {w}
  <2>1. Held' = ToSet(t)
    BY <1>20, <1>21 DEF Held
  <2>2. \A x : x \in ToSet(t) <=> \E i \in 1..Len(s) : t[i] = x
    BY <1>17, ToSetIs
  <2>3. ASSUME NEW x \in Held' PROVE x \in (Held \ {u}) \cup {w}
    <3>1. PICK i \in 1..Len(s) : t[i] = x
      BY <2>1, <2>2, <2>3
    <3>2. CASE i = j
      BY <1>18, <3>1, <3>2
    <3>3. CASE i # j
      <4>1. x = s[i] /\ s[i].key # s[j].key
        BY <1>5, <1>8, <1>18, <3>1, <3>3
      <4> QED BY <1>4, <1>10, <4>1
    <3> QED BY <3>2, <3>3
  <2>4. ASSUME NEW x \in Held \ {u} PROVE x \in Held'
    <3>1. PICK i \in 1..Len(s) : s[i] = x
      BY <1>4, <2>4
    <3>2. i # j
      BY <1>10, <3>1, <2>4
    <3>3. t[i] = x
      BY <1>18, <3>1, <3>2
    <3> QED BY <2>1, <2>2, <3>3
  <2>5. w \in Held'
    <3>1. t[j] = w
      BY <1>8, <1>18
    <3> QED BY <1>8, <2>1, <2>2, <3>1
  <2> QED BY <2>3, <2>4, <2>5
<1>24. EmailsOf(user_id) = {u.key}
  <2>1. \A x \in Held : x.val.id = user_id <=> x = u
    BY <1>4, <1>8, <1>9, <1>10
  <2>2. PICK H : H = Held
    OBVIOUS
  <2>3. ToSet(AllValues) = H /\ u \in H /\ \A x \in H : x.val.id = user_id <=> x = u
    BY <1>1, <1>3, <1>12, <2>1, <2>2
  <2>4. {x \in H : x.val.id = user_id} = {u}
    BY <2>3
  <2> QED BY <2>3, <2>4 DEF EmailsOf
<1> QED BY <1>11, <1>12, <1>20, <1>21, <1>22, <1>23, <1>24

\* The account of a changed entry takes the place of the account of the entry.
LEMMA RegisteredChange ==
  ASSUME UserInv, NEW u \in Held, NEW v, Held' = (Held \ {u}) \cup {v}
  PROVE  Registered' = (Registered \ {AccountOf(u)}) \cup {AccountOf(v)}
<1>1. Held \subseteq Entry
  BY HeldProps
<1>2. \A x \in Held : AccountOf(x) = AccountOf(u) => x = u
  BY <1>1, AccountProps
<1>3. ASSUME NEW a \in Registered' PROVE a \in (Registered \ {AccountOf(u)}) \cup {AccountOf(v)}
  <2>1. PICK x \in Held' : a = AccountOf(x)
    BY <1>3 DEF Registered
  <2> QED BY <1>2, <2>1 DEF Registered
<1>4. ASSUME NEW a \in Registered \ {AccountOf(u)} PROVE a \in Registered'
  <2>1. PICK x \in Held : a = AccountOf(x)
    BY <1>4 DEF Registered
  <2>2. x \in Held'
    BY <1>4, <2>1
  <2> QED BY <2>1, <2>2 DEF Registered
<1>5. AccountOf(v) \in Registered'
  BY DEF Registered
<1> QED BY <1>3, <1>4, <1>5

\* update_user_role, up to the inserts of its rebuild.
LEMMA UpdateUserRole ==
  ASSUME UserInv, NEW user_id, NEW role \in {v.role : v \in Val},
         update_user_role(user_id, role)
  PROVE  UserInv' /\ Promise!Next
<1>1. PICK change : change = [v \in Val |-> [v EXCEPT !.role = role]]
  OBVIOUS
<1>2. role \in Promise!Role
  BY ValProps
<1>3. \A v \in Val : change[v] \in Val /\ change[v] = [v EXCEPT !.role = role]
  BY <1>1, ValProps
<1>4. ChangeUser(user_id, change) /\ barred' = barred
  BY <1>1 DEF update_user_role
<1>5. PICK u \in Held : /\ u.val.id # 1
                        /\ Held' = (Held \ {u}) \cup {[key |-> u.key, val |-> change[u.val]]}
  BY <1>3, <1>4, ChangeKeeps
<1>6. IInv' /\ RInv' /\ (todo' = {} => at' = 0) /\ Ready' /\ next_user_id' = next_user_id
  BY <1>3, <1>4, ChangeKeeps
<1>7. PICK w : w = [key |-> u.key, val |-> change[u.val]]
  OBVIOUS
<1>8. AccountOf(w) = [AccountOf(u) EXCEPT !.role = role]
  <2>1. u.val \in Val /\ u.val = [id |-> u.val.id, role |-> u.val.role, active |-> u.val.active]
    BY HeldProps, AccountProps, ValProps
  <2>2. /\ w.key = u.key /\ w.val.id = u.val.id /\ w.val.role = role
        /\ w.val.active = u.val.active
    <3>1. w.val = [u.val EXCEPT !.role = role] /\ w.key = u.key
      BY <1>3, <1>7, <2>1
    <3>2. [u.val EXCEPT !.role = role] = [id |-> u.val.id, role |-> role, active |-> u.val.active]
      BY <2>1
    <3> QED BY <3>1, <3>2
  <2> QED BY <2>2 DEF AccountOf
<1>9. AccountOf(u) \in Registered /\ AccountOf(u).id # 1
  BY <1>5, AccountProps DEF Registered
<1>10. Registered' = (Registered \ {AccountOf(u)}) \cup {AccountOf(w)}
  BY <1>5, <1>7, RegisteredChange
<1>11. Promise!SetRole(AccountOf(u), role)
  BY <1>4, <1>6, <1>8, <1>9, <1>10 DEF Promise!SetRole
<1>12. Promise!AccountsInv'
  BY <1>2, <1>9, <1>11, SetRoleAccounts DEF UserInv
<1>13. Promise!Next
  BY <1>2, <1>9, <1>11 DEF Promise!Next
<1> QED BY <1>6, <1>12, <1>13 DEF UserInv

\* deactivate_user, up to the inserts of its rebuild.
LEMMA DeactivateUser ==
  ASSUME UserInv, NEW user_id, deactivate_user(user_id)
  PROVE  UserInv' /\ Promise!Next
<1>1. PICK change : change = [v \in Val |-> [v EXCEPT !.active = FALSE]]
  OBVIOUS
<1>2. \A v \in Val : change[v] \in Val /\ change[v] = [v EXCEPT !.active = FALSE]
  BY <1>1, ValProps
<1>3. /\ ChangeUser(user_id, change)
      /\ barred' = barred \cup EmailsOf(user_id)
  BY <1>1 DEF deactivate_user
<1>4. PICK u \in Held : /\ u.val.id # 1
                        /\ EmailsOf(user_id) = {u.key}
                        /\ Held' = (Held \ {u}) \cup {[key |-> u.key, val |-> change[u.val]]}
  BY <1>2, <1>3, ChangeKeeps
<1>5. IInv' /\ RInv' /\ (todo' = {} => at' = 0) /\ Ready' /\ next_user_id' = next_user_id
  BY <1>2, <1>3, ChangeKeeps
<1>6. PICK w : w = [key |-> u.key, val |-> change[u.val]]
  OBVIOUS
<1>7. AccountOf(w) = [AccountOf(u) EXCEPT !.active = FALSE]
  <2>1. PICK new : new = FALSE
    OBVIOUS
  <2>2. u.val \in Val
    BY HeldProps, AccountProps
  <2>3. change[u.val] = [u.val EXCEPT !.active = new]
    BY <1>2, <2>1, <2>2
  <2>4. w.key = u.key /\ w.val = [id |-> u.val.id, role |-> u.val.role, active |-> new]
    BY <1>6, <2>2, <2>3, FieldChange
  <2>5. AccountOf(w) = [email |-> u.key, id |-> u.val.id, role |-> u.val.role, active |-> new]
    BY <2>4 DEF AccountOf
  <2>6. AccountOf(w) = [AccountOf(u) EXCEPT !.active = new]
    BY <2>5, FieldChange
  <2> QED BY <2>1, <2>6
<1>8. AccountOf(u) \in Registered /\ AccountOf(u).id # 1
  BY <1>4, AccountProps DEF Registered
<1>9. Registered' = (Registered \ {AccountOf(u)}) \cup {AccountOf(w)}
  BY <1>4, <1>6, RegisteredChange
<1>10. Promise!Deactivate(AccountOf(u))
  <2>1. barred' = barred \cup {AccountOf(u).email}
    BY <1>3, <1>4, AccountProps
  <2> QED BY <1>5, <1>7, <1>8, <1>9, <2>1 DEF Promise!Deactivate
<1>11. Promise!AccountsInv'
  BY <1>8, <1>10, DeactivateAccounts DEF UserInv
<1>12. Promise!Next
  BY <1>8, <1>10 DEF Promise!Next
<1> QED BY <1>5, <1>11, <1>12 DEF UserInv

\* A rebuild inserts its next account, which nobody sees.
LEMMA ReinsertKeeps ==
  ASSUME UserInv, Reinsert
  PROVE  /\ IInv' /\ RInv' /\ (todo' = {} => at' = 0) /\ Ready'
         /\ Held' = Held /\ next_user_id' = next_user_id /\ barred' = barred
<1>1. PICK s : s = rebuild
  OBVIOUS
<1>2. PICK e : e = Head(s)
  OBVIOUS
<1>3. /\ s # <<>> /\ Insert(e) /\ rebuild' = Tail(s)
      /\ next_user_id' = next_user_id /\ barred' = barred
  BY <1>1, <1>2 DEF Reinsert
<1>4. /\ s \in Seq(Entry)
      /\ \A i \in 1..Len(s) : \A j \in 1..Len(s) : i # j => s[i].key # s[j].key
      /\ \A i \in 1..Len(s) : \A x \in Stored \cup todo : x.key # s[i].key
  BY <1>1 DEF UserInv, Ready
<1>5. /\ Len(s) \in Nat /\ 1 \in 1..Len(s) /\ e = s[1] /\ e \in Entry
      /\ Tail(s) \in Seq(Entry) /\ Len(Tail(s)) = Len(s) - 1
      /\ \A i \in 1..Len(s) - 1 : Tail(s)[i] = s[i + 1]
  BY <1>2, <1>3, <1>4
<1>6. Fresh(e.key)
  BY <1>4, <1>5 DEF Fresh
<1>7. IInv' /\ RInv' /\ Stored' = Stored /\ todo = {} /\ todo' = {e}
  BY <1>3, <1>5, <1>6, InsertBegins DEF UserInv
<1>8. PICK t : t = Tail(s)
  OBVIOUS
<1>9. /\ t \in Seq(Entry) /\ Len(t) = Len(s) - 1
      /\ \A i \in 1..Len(t) : i + 1 \in 1..Len(s) /\ i + 1 # 1 /\ t[i] = s[i + 1]
  BY <1>5, <1>8
<1>10. Ready'
  <2>1. \A i \in 1..Len(t) : \A j \in 1..Len(t) : i # j => t[i].key # t[j].key
    <3> TAKE i \in 1..Len(t)
    <3> TAKE j \in 1..Len(t)
    <3>1. i # j => i + 1 # j + 1
      OBVIOUS
    <3> QED BY <1>4, <1>9, <3>1
  <2>2. \A i \in 1..Len(t) : \A x \in Stored' \cup todo' : x.key # t[i].key
    <3> TAKE i \in 1..Len(t)
    <3> TAKE x \in Stored' \cup todo'
    <3>1. CASE x \in Stored
      BY <1>4, <1>9, <3>1
    <3>2. CASE x = e
      BY <1>4, <1>5, <1>9, <3>2
    <3> QED BY <1>7, <3>1, <3>2
  <2> QED BY <1>3, <1>8, <1>9, <2>1, <2>2 DEF Ready
<1>11. Held' = Held
  <2>1. \A x : x \in ToSet(s) <=> \E i \in 1..Len(s) : s[i] = x
    BY <1>4, ToSetIs
  <2>2. \A x : x \in ToSet(t) <=> \E i \in 1..Len(t) : t[i] = x
    BY <1>9, ToSetIs
  <2>3. ASSUME NEW x \in ToSet(s) PROVE x \in ToSet(t) \cup {e}
    <3>1. PICK i \in 1..Len(s) : s[i] = x
      BY <2>1, <2>3
    <3>2. CASE i = 1
      BY <1>5, <3>1, <3>2
    <3>3. CASE i # 1
      <4>1. i - 1 \in 1..Len(t) /\ (i - 1) + 1 = i
        BY <1>5, <1>9, <3>1, <3>3
      <4>2. t[i - 1] = x
        BY <1>9, <3>1, <4>1
      <4> QED BY <2>2, <4>1, <4>2
    <3> QED BY <3>2, <3>3
  <2>4. ToSet(t) \cup {e} \subseteq ToSet(s)
    BY <1>5, <1>9, <2>1, <2>2
  <2>5. ToSet(s) = ToSet(t) \cup {e}
    BY <2>3, <2>4
  <2> QED BY <1>1, <1>3, <1>7, <1>8, <2>5 DEF Held
<1> QED BY <1>3, <1>7, <1>10, <1>11

\* A page write or a visit of a node changes no account.
LEMMA ProceedKeeps ==
  ASSUME UserInv, Proceed
  PROVE  /\ IInv' /\ RInv' /\ (todo' = {} => at' = 0) /\ Ready'
         /\ Held' = Held /\ next_user_id' = next_user_id /\ barred' = barred
<1>1. Step /\ rebuild' = rebuild /\ next_user_id' = next_user_id /\ barred' = barred
  BY DEF Proceed
<1>2. IInv' /\ RInv' /\ Stored' \cup todo' = Stored \cup todo
  BY <1>1, StepKeeps DEF UserInv
<1>3. todo' = {} => at' = 0
  <2>1. CASE FlushPage
    BY <2>1 DEF FlushPage, UserInv
  <2>2. CASE Visit
    BY <2>2 DEF Visit, UpdateEntry, AddToLeaf, Descend, SplitFullChild, Place
  <2> QED BY <1>1, <2>1, <2>2 DEF Step
<1>4. Ready' /\ Held' = Held
  BY <1>1, <1>2 DEF UserInv, Ready, Held
<1> QED BY <1>1, <1>2, <1>3, <1>4

\* A new process has some of the accounts, and counts on from their ids.
LEMMA ReopenUsers ==
  ASSUME UserInv, Reopen
  PROVE  UserInv' /\ Promise!Reopen
<1>1. Restart /\ rebuild' = <<>> /\ barred' = barred
  BY DEF Reopen
<1>2. /\ IInv' /\ RInv' /\ todo' = {} /\ writes' = <<>> /\ at' = 0
      /\ Stored' \subseteq Stored \cup todo
  BY <1>1, RestartLeaves DEF UserInv
<1>3. Ready'
  BY <1>1, <1>2 DEF Ready
<1>4. Held' = Stored' /\ Held' \subseteq Held /\ Held \subseteq Entry
  BY <1>1, <1>2, HeldProps DEF Held, ToSet
<1>5. Registered' \subseteq Registered
  BY <1>4 DEF Registered
<1>6. Held' = ToSet(Values(disk', root_page_id'))
  <2>1. QuietFact'
    BY <1>2, QuietIs, PTL
  <2> QED BY <1>2, <1>4, <2>1 DEF QuietFact, AllValues
<1>7. PICK ids : ids = {0} \cup {u.val.id : u \in Held'}
  OBVIOUS
<1>8. next_user_id' = 1 + Max(ids)
  BY <1>6, <1>7 DEF Reopen
<1>9. ids \in SUBSET (0..MaxUserId) /\ ids # {}
  <2>1. 0 \in 0..MaxUserId
    BY UserIdAssumption
  <2>2. \A u \in Held' : u.val.id \in 1..MaxUserId
    BY <1>4, AccountProps, ValProps
  <2>3. \A n \in 1..MaxUserId : n \in 0..MaxUserId
    BY UserIdAssumption
  <2> QED BY <1>7, <2>1, <2>2, <2>3
<1>10. Max(ids) \in ids /\ \A x \in ids : x <= Max(ids)
  BY <1>9, MaxIs, UserIdAssumption
<1>11. \A a \in Registered' : a.id \in ids
  BY <1>7, AccountProps DEF Registered
<1>12. \A a \in Registered' : a.id < next_user_id'
  <2> TAKE a \in Registered'
  <2>1. a.id \in 0..MaxUserId /\ Max(ids) \in 0..MaxUserId /\ a.id <= Max(ids)
    BY <1>9, <1>10, <1>11
  <2> QED BY <1>8, <2>1, UserIdAssumption
<1>13. next_user_id' \in {1} \cup {a.id + 1 : a \in Registered'}
  <2>1. CASE Max(ids) = 0
    BY <1>8, <2>1
  <2>2. CASE Max(ids) # 0
    <3>1. PICK u \in Held' : Max(ids) = u.val.id
      BY <1>7, <1>10, <2>2
    <3>2. AccountOf(u) \in Registered' /\ AccountOf(u).id = Max(ids)
      BY <3>1, AccountProps DEF Registered
    <3>3. Max(ids) \in 0..MaxUserId
      BY <1>9, <1>10
    <3> QED BY <1>8, <3>2, <3>3
  <2> QED BY <2>1, <2>2
<1>14. Promise!Reopen
  BY <1>1, <1>5, <1>12, <1>13 DEF Promise!Reopen
<1>15. Promise!AccountsInv'
  BY <1>14, ReopenAccounts DEF UserInv
<1> QED BY <1>2, <1>3, <1>14, <1>15 DEF UserInv

\* The accounts are as before.
LEMMA SameAccounts ==
  ASSUME UserInv, Held' = Held, next_user_id' = next_user_id, barred' = barred,
         IInv', RInv', (todo' = {} => at' = 0), Ready'
  PROVE  UserInv' /\ UNCHANGED Promise!vars
<1>1. Registered' = Registered
  BY DEF Registered
<1>2. Promise!AccountsInv'
  BY <1>1 DEF UserInv, Promise!AccountsInv, Promise!TypeOK, Promise!OneAccountEach,
              Promise!IdsCounted, Promise!SuperAdmin, Promise!StaysDeactivated
<1> QED BY <1>1, <1>2 DEF UserInv, Promise!vars

\* Every step of AuthDB keeps the invariant and is a step of Accounts, or none.
LEMMA UserStep ==
  ASSUME UserInv, [DBNext]_dbVars
  PROVE  UserInv' /\ [Promise!Next]_(Promise!vars)
<1>1. ASSUME NEW email \in Key, register_user(email)
      PROVE  UserInv' /\ Promise!Next
  BY <1>1, RegisterUser DEF Promise!Next
<1>2. ASSUME NEW user_id, NEW role \in {v.role : v \in Val}, update_user_role(user_id, role)
      PROVE  UserInv' /\ Promise!Next
  BY <1>2, UpdateUserRole
<1>3. ASSUME NEW user_id, deactivate_user(user_id)
      PROVE  UserInv' /\ Promise!Next
  BY <1>3, DeactivateUser
<1>4. CASE Reinsert
  BY <1>4, ReinsertKeeps, SameAccounts
<1>5. CASE Proceed
  BY <1>5, ProceedKeeps, SameAccounts
<1>6. CASE Reopen
  BY <1>6, ReopenUsers DEF Promise!Next
<1>7. CASE UNCHANGED dbVars
  <2>1. /\ UNCHANGED vars /\ rebuild' = rebuild
        /\ next_user_id' = next_user_id /\ barred' = barred
    BY <1>7 DEF dbVars
  <2>2. UNCHANGED <<disk, writes, root_page_id, todo, at>>
    BY <2>1 DEF vars
  <2>3. Stored' = Stored
    BY <2>2, SameStored
  <2>4. IInv' /\ RInv'
    BY <2>1, StepIInv, StepRefines DEF UserInv
  <2>5. Ready' /\ Held' = Held /\ (todo' = {} => at' = 0)
    BY <2>1, <2>2, <2>3 DEF UserInv, Ready, Held
  <2> QED BY <2>1, <2>4, <2>5, SameAccounts
<1> QED BY <1>1, <1>2, <1>3, <1>4, <1>5, <1>6, <1>7 DEF DBNext

\* The invariant of the user database: its tree is whole, a rebuild can go on,
\* and the accounts of both are as Accounts has them.
THEOREM UserInvariant == DBSpec => []UserInv
<1>1. DBInit => UserInv
  BY InitUsers
<1>2. UserInv /\ [DBNext]_dbVars => UserInv'
  BY UserStep
<1> QED BY <1>1, <1>2, PTL DEF DBSpec

\* AuthDB keeps the promise of Accounts through every page write of every
\* insert and every rebuild_user_tree, wherever the process ends.
THEOREM UsersImplementAccounts == DBSpec => ImplementsAccounts
<1>1. DBInit => Promise!Init
  BY InitUsers
<1>2. UserInv /\ [DBNext]_dbVars => [Promise!Next]_(Promise!vars)
  BY UserStep
<1> QED BY <1>1, <1>2, UserInvariant, PTL DEF DBSpec, ImplementsAccounts, Promise!Spec

\* AuthDB::register_user gives no id and no email to two accounts, although
\* ids are counted from what a new process finds.
THEOREM AccountsUnique == DBSpec => []OneAccountEach
BY PromiseUnique, UsersImplementAccounts DEF ImplementsAccounts, OneAccountEach

\* The guards of update_user_role and deactivate_user: whoever has id 1 stays
\* an active administrator.
THEOREM SuperAdminSafe == DBSpec => []SuperAdmin
BY PromiseAdmin, UsersImplementAccounts DEF ImplementsAccounts, SuperAdmin

\* What deactivate_user does outlasts role changes, rebuilds and the ends of
\* processes: until an email is registered again it has no active account.
THEOREM DeactivationLasts == DBSpec => []StaysDeactivated
BY PromiseLasts, UsersImplementAccounts DEF ImplementsAccounts, StaysDeactivated
=============================================================================
