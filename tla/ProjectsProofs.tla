--------------------------- MODULE ProjectsProofs ---------------------------
(***************************************************************************)
(* Proofs about the project database, for every degree of its tree, set of *)
(* users and API keys and bound on pages and ids: what Projects promises   *)
(* holds, and ProjectDB implements Projects, page write by page write.     *)
(***************************************************************************)
EXTENDS ProjectDB, TreeProofs

USE DEF Promise!Project

\* A new database has no projects to go wrong.
LEMMA InitProjects == Promise!Init => Promise!ProjectsInv
BY DEF Promise!Init, Promise!ProjectsInv, Promise!TypeOK, Promise!OneKeyEach,
       Promise!RevokedIsDead, Promise!KeysIssued, Promise!IdsCounted

\* create_project: the new id is above all others and the key is unused.
LEMMA CreateProjects ==
  ASSUME Promise!ProjectsInv, NEW user_id \in User, NEW api_key \in ApiKey,
         Promise!Create(user_id, api_key)
  PROVE  Promise!ProjectsInv'
<1> DEFINE new == [id |-> next_project_id, user_id |-> user_id, api_key |-> api_key]
<1>1. new \in Promise!Project /\ new.id = next_project_id /\ new.api_key = api_key
  BY DEF Promise!ProjectsInv, Promise!TypeOK
<1>2. /\ Registered' = Registered \cup {new}
      /\ next_project_id' = next_project_id + 1
      /\ api_key \notin issued
      /\ issued' = issued \cup {api_key}
      /\ revoked' = revoked
  BY DEF Promise!Create
<1> HIDE DEF new
<1>3. Promise!TypeOK'
  BY <1>1, <1>2 DEF Promise!ProjectsInv, Promise!TypeOK
<1>4. next_project_id \in Nat /\ \A p \in Registered : p.id \in Nat /\ p.id < next_project_id
  BY DEF Promise!ProjectsInv, Promise!TypeOK, Promise!IdsCounted
<1>5. Promise!OneKeyEach'
  <2>1. \A p \in Registered : p.id # new.id /\ p.api_key # new.api_key
    BY <1>1, <1>2, <1>4 DEF Promise!ProjectsInv, Promise!KeysIssued
  <2> QED BY <1>2, <2>1 DEF Promise!ProjectsInv, Promise!OneKeyEach
<1>6. Promise!RevokedIsDead' /\ Promise!KeysIssued'
  BY <1>1, <1>2 DEF Promise!ProjectsInv, Promise!TypeOK, Promise!RevokedIsDead,
                    Promise!KeysIssued
<1>7. Promise!IdsCounted'
  BY <1>1, <1>2, <1>4 DEF Promise!IdsCounted
<1> QED BY <1>3, <1>5, <1>6, <1>7 DEF Promise!ProjectsInv

\* delete_project: no other project has the key that is revoked.
LEMMA DeleteProjects ==
  ASSUME Promise!ProjectsInv, NEW p \in Registered, Promise!Delete(p)
  PROVE  Promise!ProjectsInv'
<1>1. /\ Registered' = Registered \ {p}
      /\ revoked' = revoked \cup {p.api_key}
      /\ next_project_id' = next_project_id
      /\ issued' = issued
  BY DEF Promise!Delete
<1>2. Promise!TypeOK' /\ Promise!KeysIssued' /\ Promise!IdsCounted'
  BY <1>1 DEF Promise!ProjectsInv, Promise!TypeOK, Promise!KeysIssued, Promise!IdsCounted
<1>3. Promise!OneKeyEach'
  BY <1>1 DEF Promise!ProjectsInv, Promise!OneKeyEach
<1>4. Promise!RevokedIsDead'
  BY <1>1 DEF Promise!ProjectsInv, Promise!OneKeyEach, Promise!RevokedIsDead
<1> QED BY <1>2, <1>3, <1>4 DEF Promise!ProjectsInv

\* A new process: what is left of the projects is as good as all of them.
LEMMA ReopenProjects ==
  ASSUME Promise!ProjectsInv, Promise!Reopen
  PROVE  Promise!ProjectsInv'
<1>1. Registered' \subseteq Registered /\ issued' = issued /\ revoked' = revoked
  BY DEF Promise!Reopen
<1>2. Promise!TypeOK'
  <2>1. next_project_id' \in Nat \ {0}
    BY <1>1 DEF Promise!Reopen, Promise!ProjectsInv, Promise!TypeOK
  <2> QED BY <1>1, <2>1 DEF Promise!ProjectsInv, Promise!TypeOK
<1>3. Promise!OneKeyEach' /\ Promise!RevokedIsDead' /\ Promise!KeysIssued'
  BY <1>1 DEF Promise!ProjectsInv, Promise!OneKeyEach, Promise!RevokedIsDead,
              Promise!KeysIssued
<1>4. Promise!IdsCounted'
  BY DEF Promise!Reopen, Promise!IdsCounted
<1> QED BY <1>2, <1>3, <1>4 DEF Promise!ProjectsInv

\* The invariant of AuthDB's projects, with its five parts.
THEOREM ProjectsInvariant == Promise!Spec => []Promise!ProjectsInv
<1>1. Promise!ProjectsInv /\ [Promise!Next]_(Promise!vars) => Promise!ProjectsInv'
  <2> SUFFICES ASSUME Promise!ProjectsInv, [Promise!Next]_(Promise!vars)
               PROVE  Promise!ProjectsInv'
    OBVIOUS
  <2>1. CASE Promise!Reopen
    BY <2>1, ReopenProjects
  <2>2. ASSUME NEW user_id \in User, NEW api_key \in ApiKey, Promise!Create(user_id, api_key)
        PROVE  Promise!ProjectsInv'
    BY <2>2, CreateProjects
  <2>3. ASSUME NEW p \in Registered, Promise!Delete(p) PROVE Promise!ProjectsInv'
    BY <2>3, DeleteProjects
  <2>4. CASE UNCHANGED Promise!vars
    BY <2>4 DEF Promise!vars, Promise!ProjectsInv, Promise!TypeOK, Promise!OneKeyEach,
                Promise!RevokedIsDead, Promise!KeysIssued, Promise!IdsCounted
  <2> QED BY <2>1, <2>2, <2>3, <2>4 DEF Promise!Next
<1> QED BY <1>1, InitProjects, PTL DEF Promise!Spec

\* An API key speaks for one project, and a project has one key, although ids
\* are counted from what a new process finds.
THEOREM PromiseKeys == Promise!Spec => []Promise!OneKeyEach
<1>1. Promise!ProjectsInv => Promise!OneKeyEach
  BY DEF Promise!ProjectsInv
<1> QED BY <1>1, ProjectsInvariant, PTL

\* delete_project and create_project: the key of a deleted project is dead.
THEOREM PromiseRevoked == Promise!Spec => []Promise!RevokedIsDead
<1>1. Promise!ProjectsInv => Promise!RevokedIsDead
  BY DEF Promise!ProjectsInv
<1> QED BY <1>1, ProjectsInvariant, PTL

-----------------------------------------------------------------------------
(* The projects that the tree and a running rebuild hold.                    *)

\* The inductive invariant of the project database. The fourth part: whatever
\* page 0 of the file has, which is all that the end of the process may leave, is
\* a project there is, so that no project comes back.
ProjectInv ==
  /\ AnyInv
  /\ todo = {} => at = 0
  /\ rebuild \in Seq(Entry)
  /\ {ProjectOf(p) : p \in ToSet(disk[0].ents)} \subseteq Registered
  /\ Promise!ProjectsInv

\* What a project is, as an entry and as a promise.
LEMMA ProjectProps ==
  /\ \A p : /\ ProjectOf(p).id = p.key /\ ProjectOf(p).user_id = p.val.user_id
            /\ ProjectOf(p).api_key = p.val.api_key
  /\ \A p \in Entry : /\ p.key \in 1..MaxProjectId /\ p.val \in Val
                      /\ p = [key |-> p.key, val |-> p.val]
<1>1. \A p : /\ ProjectOf(p).id = p.key /\ ProjectOf(p).user_id = p.val.user_id
             /\ ProjectOf(p).api_key = p.val.api_key
  BY DEF ProjectOf
<1>2. \A p \in Entry : /\ p.key \in 1..MaxProjectId /\ p.val \in Val
                       /\ p = [key |-> p.key, val |-> p.val]
  <2>1. \A p \in Entry : p.key \in Key /\ p.val \in Val /\ p = [key |-> p.key, val |-> p.val]
    BY DEF Entry
  <2> QED BY <2>1, ProjectIdAssumption
<1> QED BY <1>1, <1>2

\* A project's new threshold leaves its id, its owner and its key.
LEMMA ThresholdChange ==
  ASSUME NEW p \in Entry, NEW threshold \in Threshold
  PROVE  /\ [p EXCEPT !.val.fast_threshold = threshold] \in Entry
         /\ ProjectOf([p EXCEPT !.val.fast_threshold = threshold]) = ProjectOf(p)
<1>1. p = [key |-> p.key, val |-> p.val] /\ p.key \in Key /\ p.val \in Val
  BY DEF Entry
<1>2. PICK v : v = p.val
  OBVIOUS
<1>3. PICK k : k = p.key
  OBVIOUS
<1>4. v \in [user_id: User, api_key: ApiKey, fast_threshold: Threshold]
  BY <1>1, <1>2, ProjectValAssumption
<1> DEFINE w == [user_id |-> v.user_id, api_key |-> v.api_key, fast_threshold |-> threshold]
<1>5. [v EXCEPT !.fast_threshold = threshold] = w
  BY <1>4
<1>6. w \in Val
  BY <1>4, ProjectValAssumption
<1>7. w.user_id = v.user_id /\ w.api_key = v.api_key
  OBVIOUS
<1> HIDE DEF w
<1>8. [p EXCEPT !.val.fast_threshold = threshold] = [key |-> k, val |-> w]
  BY <1>1, <1>2, <1>3, <1>5
<1>9. [key |-> k, val |-> w] \in Entry
  BY <1>1, <1>3, <1>6 DEF Entry
<1>10. ProjectOf([key |-> k, val |-> w]) = ProjectOf(p)
  BY <1>2, <1>3, <1>7 DEF ProjectOf
<1> QED BY <1>8, <1>9, <1>10

\* The entries of Held, those of the tree alone when nothing runs.
LEMMA HeldProps ==
  ASSUME ProjectInv
  PROVE  /\ Held \subseteq Entry /\ Stored \subseteq Entry
         /\ Quiet => Held = Stored /\ todo = {} /\ writes = <<>> /\ rebuild = <<>>
<1>1. Stored \subseteq Entry /\ todo \subseteq Entry
  BY AnyIs DEF ProjectInv, AnyFact
<1>2. ToSet(rebuild) \subseteq Entry
  BY ToSetIs DEF ProjectInv
<1>3. ASSUME Quiet
      PROVE  Held = Stored /\ todo = {} /\ writes = <<>> /\ rebuild = <<>>
  <2>1. ToSet(<<>>) = {}
    BY DEF ToSet
  <2> QED BY <1>3, <2>1 DEF Quiet, Idle, Held
<1> QED BY <1>1, <1>2, <1>3 DEF Held

\* Two entries of one id are entries of one project.
LEMMA SameProject ==
  ASSUME ProjectInv, NEW p \in Held, NEW q \in Held, p.key = q.key
  PROVE  ProjectOf(p) = ProjectOf(q)
<1>1. ProjectOf(p) \in Registered /\ ProjectOf(q) \in Registered
  BY DEF Registered
<1>2. ProjectOf(p).id = ProjectOf(q).id
  BY ProjectProps
<1> QED BY <1>1, <1>2 DEF ProjectInv, Promise!ProjectsInv, Promise!OneKeyEach

\* A step of the tree: the projects are the same, and what page 0 has is of them.
LEMMA SameProjects ==
  ASSUME ProjectInv, AnyInv', (todo' = {} => at' = 0), rebuild' \in Seq(Entry),
         Registered' = Registered,
         UNCHANGED <<next_project_id, issued, revoked>>,
         {ProjectOf(p) : p \in ToSet(disk'[0].ents)} \subseteq Registered
  PROVE  ProjectInv' /\ UNCHANGED Promise!vars
<1>1. Promise!ProjectsInv'
  BY DEF ProjectInv, Promise!ProjectsInv, Promise!TypeOK, Promise!OneKeyEach,
         Promise!RevokedIsDead, Promise!KeysIssued, Promise!IdsCounted
<1> QED BY <1>1 DEF ProjectInv, Promise!vars

-----------------------------------------------------------------------------
(* The operations of AuthDB.                                                 *)

\* A new database.
LEMMA InitProjectDB ==
  ASSUME DBInit
  PROVE  ProjectInv /\ Promise!Init
<1>1. AnyInv /\ Stored = {}
  BY AnyNew DEF DBInit, AnyNewFact
<1>2. /\ todo = {} /\ at = 0 /\ rebuild = <<>> /\ next_project_id = 1
      /\ issued = {} /\ revoked = {} /\ disk = NewFile
  BY DEF DBInit, Init
<1>3. Held = {}
  BY <1>1, <1>2 DEF Held, ToSet
<1>4. Registered = {}
  BY <1>3 DEF Registered
<1>5. Promise!Init
  BY <1>2, <1>4 DEF Promise!Init
<1>6. disk[0] = EmptyLeaf
  BY <1>2 DEF NewFile, FormatRoot, WritePage
<1>7. ToSet(disk[0].ents) = {}
  BY <1>6 DEF EmptyLeaf, ToSet
<1>8. {ProjectOf(p) : p \in ToSet(disk[0].ents)} \subseteq Registered
  BY <1>7
<1> QED BY <1>1, <1>2, <1>5, <1>8, InitProjects DEF ProjectInv

\* create_project, up to the page writes of its insert.
LEMMA CreateProject ==
  ASSUME ProjectInv, NEW user_id \in User, create_project(user_id)
  PROVE  ProjectInv' /\ Promise!Next
<1> DEFINE new(k) == [key |-> next_project_id,
                      val |-> [user_id |-> user_id, api_key |-> k, fast_threshold |-> 100]]
<1>1. PICK k \in ApiKey \ issued :
        /\ Quiet /\ new(k) \in Entry /\ Insert(new(k))
        /\ next_project_id' = next_project_id + 1 /\ issued' = issued \cup {k}
        /\ rebuild' = rebuild /\ revoked' = revoked
  BY DEF create_project
<1>2. PICK e : e = new(k)
  OBVIOUS
<1>3. /\ e \in Entry /\ e.key = next_project_id /\ e.val.user_id = user_id
      /\ e.val.api_key = k /\ Insert(e)
  BY <1>1, <1>2
<1> HIDE DEF new
<1>4. /\ AnyInv' /\ Stored' = Stored /\ todo = {} /\ todo' = {e} /\ disk' = disk
  BY <1>3, AnyInsert DEF ProjectInv
<1>5. Held' = Held \cup {e}
  BY <1>1, <1>4 DEF Held
<1> DEFINE project == [id |-> next_project_id, user_id |-> user_id, api_key |-> k]
<1>6. ProjectOf(e) = project
  BY <1>3 DEF ProjectOf
<1> HIDE DEF project
<1>7. Registered' = Registered \cup {project}
  BY <1>5, <1>6 DEF Registered
<1>8. next_project_id <= MaxProjectId
  BY <1>3, ProjectProps, ProjectIdAssumption
<1>9. Promise!Create(user_id, k)
  BY <1>1, <1>7, <1>8 DEF Promise!Create, project
<1>10. Promise!ProjectsInv'
  BY <1>1, <1>9, CreateProjects DEF ProjectInv
<1>11. ToSet(disk'[0].ents) = ToSet(disk[0].ents)
  BY <1>4
<1>12. {ProjectOf(p) : p \in ToSet(disk'[0].ents)} \subseteq Registered'
  BY <1>7, <1>11 DEF ProjectInv
<1> QED BY <1>1, <1>4, <1>9, <1>10, <1>12 DEF ProjectInv, Promise!Next

\* update_project_settings: the changed entry is of the same project.
LEMMA UpdateSettings ==
  ASSUME ProjectInv, NEW id \in Key, NEW threshold \in Threshold,
         update_project_settings(id, threshold)
  PROVE  ProjectInv' /\ UNCHANGED Promise!vars
<1>1. PICK results : results = Search(disk, root_page_id, id)
  OBVIOUS
<1>2. /\ Quiet /\ results # <<>>
      /\ Insert([results[1] EXCEPT !.val.fast_threshold = threshold])
      /\ UNCHANGED <<next_project_id, rebuild, issued, revoked>>
  BY <1>1 DEF update_project_settings
<1>3. Held = Stored /\ todo = {} /\ writes = <<>> /\ rebuild = <<>>
  BY <1>2, HeldProps
<1>4. results \in Seq(Entry) /\ \A x \in ToSet(results) : x \in Stored /\ x.key = id
  BY <1>1, <1>3, AnySearch DEF ProjectInv
<1>5. PICK p : p = results[1]
  OBVIOUS
<1>6. p \in Entry /\ p \in Held
  <2>1. 1 \in 1..Len(results)
    BY <1>2, <1>4
  <2>2. p \in ToSet(results)
    BY <1>4, <1>5, <2>1, ToSetIs
  <2> QED BY <1>3, <1>4, <2>2, HeldProps
<1>7. PICK e : e = [p EXCEPT !.val.fast_threshold = threshold]
  OBVIOUS
<1>8. e \in Entry /\ ProjectOf(e) = ProjectOf(p) /\ Insert(e)
  BY <1>2, <1>5, <1>6, <1>7, ThresholdChange
<1>9. /\ AnyInv' /\ Stored' = Stored /\ todo' = {e} /\ disk' = disk
  BY <1>8, AnyInsert DEF ProjectInv
<1>10. Held' = Held \cup {e}
  BY <1>2, <1>3, <1>9 DEF Held
<1>11. Registered' = Registered
  BY <1>6, <1>8, <1>10 DEF Registered
<1>12. ToSet(disk'[0].ents) = ToSet(disk[0].ents)
  BY <1>9
<1>13. rebuild' \in Seq(Entry) /\ todo' # {}
  BY <1>2, <1>9 DEF ProjectInv
<1>14. {ProjectOf(q) : q \in ToSet(disk'[0].ents)} \subseteq Registered
  BY <1>12 DEF ProjectInv
<1> QED BY <1>2, <1>9, <1>11, <1>13, <1>14, SameProjects

\* What delete_project keeps is what has another id.
LEMMA OthersIs ==
  ASSUME NEW s \in Seq(Entry), NEW id
  PROVE  /\ Others(s, id) \in Seq(Entry)
         /\ \A x : x \in ToSet(Others(s, id)) <=> x \in ToSet(s) /\ x.key # id
<1> DEFINE kept(u) == u = [i \in 0..Len(s) |->
             IF i = 0 THEN <<>> ELSE u[i - 1] \o IF s[i].key # id THEN <<s[i]>> ELSE <<>>]
<1>1. PICK I : I = {i \in 1..Len(s) : s[i].key # id}
  OBVIOUS
<1>2. Len(s) \in Nat /\ \A i \in 0..Len(s) : i # 0 => (i \in I <=> s[i].key # id)
  BY <1>1
<1>3. \A u : kept(u) <=> Picking(s, I, u)
  <2> TAKE u
  <2>1. [i \in 0..Len(s) |->
           IF i = 0 THEN <<>> ELSE u[i - 1] \o IF s[i].key # id THEN <<s[i]>> ELSE <<>>]
        = [i \in 0..Len(s) |->
             IF i = 0 THEN <<>> ELSE u[i - 1] \o IF i \in I THEN <<s[i]>> ELSE <<>>]
    BY <1>2
  <2> QED BY <2>1 DEF Picking
<1>4. PICK u0 : kept(u0)
  BY <1>3, PickingIs
<1>5. PICK u : kept(u) /\ Others(s, id) = u[Len(s)]
  BY <1>4 DEF Others
<1>6. Picking(s, I, u)
  BY <1>3, <1>5
<1> HIDE DEF kept
<1>7. /\ u[Len(s)] \in Seq(Entry)
      /\ \A x : x \in ToSet(u[Len(s)]) <=> \E i \in 1..Len(s) : i \in I /\ s[i] = x
  BY <1>6, PickingIs
<1>8. \A x : x \in ToSet(s) <=> \E i \in 1..Len(s) : s[i] = x
  BY ToSetIs
<1>9. \A x : x \in ToSet(u[Len(s)]) <=> x \in ToSet(s) /\ x.key # id
  BY <1>1, <1>7, <1>8
<1> QED BY <1>5, <1>7, <1>9

\* delete_project, up to the inserts into the new file: the project of every
\* entry with the id is the one that goes.
LEMMA DeleteProject ==
  ASSUME ProjectInv, NEW id \in Key, delete_project(id)
  PROVE  ProjectInv' /\ Promise!Next
<1>1. PICK s : s = AllValues
  OBVIOUS
<1>2. PICK others : others = Others(s, id)
  OBVIOUS
<1>3. /\ Quiet /\ Known(id) /\ rebuild_project_tree(others)
      /\ revoked' = revoked \cup {p.val.api_key : p \in {q \in ToSet(s) : q.key = id}}
      /\ UNCHANGED <<next_project_id, issued>>
  BY <1>1, <1>2 DEF delete_project
<1>4. Held = Stored /\ todo = {} /\ writes = <<>> /\ rebuild = <<>>
  BY <1>3, HeldProps
<1>5. s \in Seq(Entry) /\ ToSet(s) = Held
  BY <1>1, <1>4, AnyReaders DEF ProjectInv
<1>6. others \in Seq(Entry) /\ ToSet(others) = {x \in Held : x.key # id}
  BY <1>2, <1>5, OthersIs
<1>7. /\ disk' = NewFile /\ pages' = 1 /\ next_page_id' = 1 /\ root_page_id' = 0
      /\ rebuild' = others /\ todo' = {} /\ at' = 0 /\ writes' = <<>>
  BY <1>3, <1>4 DEF rebuild_project_tree, ProjectInv
<1>8. AnyInv' /\ Stored' = {}
  <2>1. Init'
    BY <1>7 DEF Init
  <2>2. AnyNewFact'
    BY AnyNew, PTL
  <2> QED BY <2>1, <2>2 DEF AnyNewFact
<1>9. Held' = {x \in Held : x.key # id}
  BY <1>6, <1>7, <1>8 DEF Held
<1>10. PICK gone \in Held : gone.key = id
  <2>1. PICK hits : hits = Search(disk, root_page_id, id)
    OBVIOUS
  <2>2. /\ hits # <<>> /\ hits \in Seq(Entry)
        /\ \A x \in ToSet(hits) : x \in Stored /\ x.key = id
    BY <1>3, <1>4, <2>1, AnySearch DEF Known, ProjectInv
  <2>3. hits[1] \in ToSet(hits)
    <3>1. 1 \in 1..Len(hits)
      BY <2>2
    <3> QED BY <2>2, <3>1, ToSetIs
  <2> QED BY <1>4, <2>2, <2>3
<1>11. PICK project : project = ProjectOf(gone)
  OBVIOUS
<1>12. project \in Registered /\ project.id = id
  BY <1>10, <1>11, ProjectProps DEF Registered
<1>13. \A x \in Held : x.key = id => ProjectOf(x) = project
  BY <1>10, <1>11, SameProject
<1>14. Registered' = Registered \ {project}
  <2>1. \A x \in Held' : x \in Held /\ ProjectOf(x).id # id
    BY <1>9, ProjectProps
  <2>2. Registered' \subseteq Registered \ {project}
    BY <1>12, <2>1 DEF Registered
  <2>3. ASSUME NEW a \in Registered \ {project} PROVE a \in Registered'
    <3>1. PICK x \in Held : a = ProjectOf(x)
      BY <2>3 DEF Registered
    <3>2. x.key # id
      BY <1>13, <2>3, <3>1
    <3> QED BY <1>9, <3>1, <3>2 DEF Registered
  <2> QED BY <2>2, <2>3
<1>15. revoked' = revoked \cup {project.api_key}
  <2>1. \A x \in Held : x.key = id => x.val.api_key = project.api_key
    BY <1>13, ProjectProps
  <2>2. {p.val.api_key : p \in {q \in Held : q.key = id}} = {project.api_key}
    BY <1>10, <2>1
  <2> QED BY <1>3, <1>5, <2>2
<1>16. Promise!Delete(project)
  BY <1>3, <1>14, <1>15 DEF Promise!Delete
<1>17. Promise!ProjectsInv'
  BY <1>12, <1>16, DeleteProjects DEF ProjectInv
<1>18. {ProjectOf(p) : p \in ToSet(disk'[0].ents)} \subseteq Registered'
  <2>1. disk'[0] = EmptyLeaf
    BY <1>7 DEF NewFile, FormatRoot, WritePage
  <2>2. ToSet(disk'[0].ents) = {}
    BY <2>1 DEF EmptyLeaf, ToSet
  <2> QED BY <2>2
<1>19. Promise!Next
  BY <1>12, <1>16 DEF Promise!Next
<1> QED BY <1>6, <1>7, <1>8, <1>17, <1>18, <1>19 DEF ProjectInv

\* A rebuild inserts its next project, which nobody sees.
LEMMA ReinsertProject ==
  ASSUME ProjectInv, Reinsert
  PROVE  ProjectInv' /\ UNCHANGED Promise!vars
<1>1. PICK s : s = rebuild
  OBVIOUS
<1>2. PICK e : e = Head(s)
  OBVIOUS
<1>3. PICK t : t = Tail(s)
  OBVIOUS
<1>4. /\ s # <<>> /\ s \in Seq(Entry) /\ Insert(e) /\ rebuild' = t
      /\ UNCHANGED <<next_project_id, issued, revoked>>
  BY <1>1, <1>2, <1>3 DEF Reinsert, ProjectInv
<1>5. /\ Len(s) \in Nat /\ 1 \in 1..Len(s) /\ e = s[1] /\ e \in Entry
      /\ t \in Seq(Entry) /\ Len(t) = Len(s) - 1
      /\ \A i \in 1..Len(t) : i + 1 \in 1..Len(s) /\ t[i] = s[i + 1]
  BY <1>2, <1>3, <1>4
<1>6. AnyInv' /\ Stored' = Stored /\ todo = {} /\ todo' = {e} /\ disk' = disk
  BY <1>4, <1>5, AnyInsert DEF ProjectInv
<1>7. ToSet(s) = ToSet(t) \cup {e}
  <2>1. \A x : x \in ToSet(s) <=> \E i \in 1..Len(s) : s[i] = x
    BY <1>4, ToSetIs
  <2>2. \A x : x \in ToSet(t) <=> \E i \in 1..Len(t) : t[i] = x
    BY <1>5, ToSetIs
  <2>3. ASSUME NEW x \in ToSet(s) PROVE x \in ToSet(t) \cup {e}
    <3>1. PICK i \in 1..Len(s) : s[i] = x
      BY <2>1, <2>3
    <3>2. CASE i = 1
      BY <1>5, <3>1, <3>2
    <3>3. CASE i # 1
      <4>1. i - 1 \in 1..Len(t) /\ (i - 1) + 1 = i
        BY <1>5, <3>1, <3>3
      <4>2. t[i - 1] = x
        BY <1>5, <3>1, <4>1
      <4> QED BY <2>2, <4>1, <4>2
    <3> QED BY <3>2, <3>3
  <2>4. ToSet(t) \cup {e} \subseteq ToSet(s)
    BY <1>5, <2>1, <2>2
  <2> QED BY <2>3, <2>4
<1>8. Held' = Held
  BY <1>1, <1>4, <1>6, <1>7 DEF Held
<1>9. Registered' = Registered
  BY <1>8 DEF Registered
<1>10. ToSet(disk'[0].ents) = ToSet(disk[0].ents) /\ todo' # {} /\ rebuild' \in Seq(Entry)
  BY <1>4, <1>5, <1>6
<1>11. {ProjectOf(p) : p \in ToSet(disk'[0].ents)} \subseteq Registered
  BY <1>10 DEF ProjectInv
<1> QED BY <1>4, <1>6, <1>9, <1>10, <1>11, SameProjects

\* A page write or a visit of a node changes no project: an entry it overwrites is
\* of the same one.
LEMMA ProceedProjects ==
  ASSUME ProjectInv, Proceed
  PROVE  ProjectInv' /\ UNCHANGED Promise!vars
<1>1. Step /\ UNCHANGED <<next_project_id, rebuild, issued, revoked>>
  BY DEF Proceed
<1>2. /\ AnyInv' /\ Stored' \cup todo' \subseteq Stored \cup todo
      /\ \A x \in Stored \cup todo : \E y \in Stored' \cup todo' : y.key = x.key
      /\ ToSet(disk'[0].ents) \subseteq ToSet(disk[0].ents) \cup Stored
  BY <1>1, AnyStep DEF ProjectInv, StepKept, KeysKept
<1>3. todo' = {} => at' = 0
  <2>1. CASE FlushPage
    BY <2>1 DEF FlushPage, ProjectInv
  <2>2. CASE Visit
    BY <2>2 DEF Visit, UpdateEntry, AddToLeaf, Descend, SplitFullChild, Place
  <2> QED BY <1>1, <2>1, <2>2 DEF Step
<1>4. Held' \subseteq Held /\ \A x \in Held : \E y \in Held' : y.key = x.key
  BY <1>1, <1>2 DEF Held
<1>5. Registered' = Registered
  <2>1. Registered' \subseteq Registered
    BY <1>4 DEF Registered
  <2>2. ASSUME NEW x \in Held PROVE ProjectOf(x) \in Registered'
    <3>1. PICK y \in Held' : y.key = x.key
      BY <1>4
    <3>2. ProjectOf(x) = ProjectOf(y)
      BY <1>4, <3>1, SameProject
    <3> QED BY <3>1, <3>2 DEF Registered
  <2> QED BY <2>1, <2>2 DEF Registered
<1>6. {ProjectOf(p) : p \in ToSet(disk'[0].ents)} \subseteq Registered
  <2>1. ASSUME NEW p \in ToSet(disk'[0].ents) PROVE ProjectOf(p) \in Registered
    <3>1. CASE p \in ToSet(disk[0].ents)
      BY <3>1 DEF ProjectInv
    <3>2. CASE p \in Stored
      BY <3>2 DEF Registered, Held
    <3> QED BY <1>2, <2>1, <3>1, <3>2
  <2> QED BY <2>1
<1>7. rebuild' \in Seq(Entry)
  BY <1>1 DEF ProjectInv
<1> QED BY <1>1, <1>2, <1>3, <1>5, <1>6, <1>7, SameProjects

\* A new process has the projects of page 0, and counts on from their ids.
LEMMA ReopenProjectDB ==
  ASSUME ProjectInv, Reopen
  PROVE  ProjectInv' /\ Promise!Next
<1>1. Restart /\ rebuild' = <<>> /\ issued' = issued /\ revoked' = revoked
  BY DEF Reopen
<1>2. /\ AnyInv' /\ Stored' = ToSet(disk[0].ents) /\ Stored' = ToSet(AllValues)'
      /\ todo' = {} /\ at' = 0 /\ disk' = disk
  BY <1>1, AnyRestart DEF ProjectInv
<1>3. Held' = Stored' /\ Held' = ToSet(Values(disk', root_page_id'))
  <2>1. ToSet(rebuild') = {}
    BY <1>1 DEF ToSet
  <2> QED BY <1>2, <2>1 DEF Held, AllValues
<1>4. Held' \subseteq Entry
  <2>1. AnyFact'
    BY AnyIs, PTL
  <2> QED BY <1>2, <1>3, <2>1 DEF AnyFact
<1>5. Registered' = {ProjectOf(p) : p \in ToSet(disk[0].ents)}
  BY <1>2, <1>3 DEF Registered
<1>6. Registered' \subseteq Registered
  BY <1>5 DEF ProjectInv
<1>7. PICK ids : ids = {0} \cup {p.key : p \in Held'}
  OBVIOUS
<1>8. next_project_id' = 1 + Max(ids)
  BY <1>3, <1>7 DEF Reopen
<1>9. ids \in SUBSET (0..MaxProjectId) /\ ids # {}
  <2>1. 0 \in 0..MaxProjectId /\ \A n \in 1..MaxProjectId : n \in 0..MaxProjectId
    BY ProjectIdAssumption
  <2>2. \A p \in Held' : p.key \in 1..MaxProjectId
    BY <1>4, ProjectProps
  <2> QED BY <1>7, <2>1, <2>2
<1>10. Max(ids) \in ids /\ \A x \in ids : x <= Max(ids)
  BY <1>9, MaxIs, ProjectIdAssumption
<1>11. \A a \in Registered' : a.id \in ids
  BY <1>7, ProjectProps DEF Registered
<1>12. \A a \in Registered' : a.id < next_project_id'
  <2> TAKE a \in Registered'
  <2>1. a.id \in 0..MaxProjectId /\ Max(ids) \in 0..MaxProjectId /\ a.id <= Max(ids)
    BY <1>9, <1>10, <1>11
  <2> QED BY <1>8, <2>1, ProjectIdAssumption
<1>13. next_project_id' \in {1} \cup {a.id + 1 : a \in Registered'}
  <2>1. CASE Max(ids) = 0
    BY <1>8, <2>1
  <2>2. CASE Max(ids) # 0
    <3>1. PICK p \in Held' : Max(ids) = p.key
      BY <1>7, <1>10, <2>2
    <3>2. ProjectOf(p) \in Registered' /\ ProjectOf(p).id = Max(ids)
      BY <3>1, ProjectProps DEF Registered
    <3>3. Max(ids) \in 0..MaxProjectId
      BY <1>9, <1>10
    <3> QED BY <1>8, <3>2, <3>3
  <2> QED BY <2>1, <2>2
<1>14. Promise!Reopen
  BY <1>1, <1>6, <1>12, <1>13 DEF Promise!Reopen
<1>15. Promise!ProjectsInv'
  BY <1>14, ReopenProjects DEF ProjectInv
<1>16. {ProjectOf(p) : p \in ToSet(disk'[0].ents)} \subseteq Registered'
  BY <1>2, <1>5
<1>17. rebuild' \in Seq(Entry)
  BY <1>1
<1> QED BY <1>2, <1>14, <1>15, <1>16, <1>17 DEF ProjectInv, Promise!Next

\* Every step of AuthDB keeps the invariant and is a step of Projects, or none.
LEMMA ProjectStep ==
  ASSUME ProjectInv, [DBNext]_dbVars
  PROVE  ProjectInv' /\ [Promise!Next]_(Promise!vars)
<1>1. ASSUME NEW user_id \in User, create_project(user_id)
      PROVE  ProjectInv' /\ Promise!Next
  BY <1>1, CreateProject
<1>2. ASSUME NEW id \in Key, NEW threshold \in Threshold,
             update_project_settings(id, threshold)
      PROVE  ProjectInv' /\ UNCHANGED Promise!vars
  BY <1>2, UpdateSettings
<1>3. ASSUME NEW id \in Key, delete_project(id)
      PROVE  ProjectInv' /\ Promise!Next
  BY <1>3, DeleteProject
<1>4. CASE Reinsert
  BY <1>4, ReinsertProject
<1>5. CASE Proceed
  BY <1>5, ProceedProjects
<1>6. CASE Reopen
  BY <1>6, ReopenProjectDB
<1>7. CASE UNCHANGED dbVars
  <2>1. UNCHANGED vars /\ UNCHANGED <<next_project_id, rebuild, issued, revoked>>
    BY <1>7 DEF dbVars
  <2>2. AnyInv' /\ Stored' = Stored
    BY <2>1, AnyStutter DEF ProjectInv
  <2>3. todo' = todo /\ at' = at /\ disk' = disk
    BY <2>1 DEF vars
  <2>4. Held' = Held
    BY <2>1, <2>2, <2>3 DEF Held
  <2>5. Registered' = Registered
    BY <2>4 DEF Registered
  <2>6. {ProjectOf(p) : p \in ToSet(disk'[0].ents)} \subseteq Registered
    BY <2>3 DEF ProjectInv
  <2>7. rebuild' \in Seq(Entry) /\ (todo' = {} => at' = 0)
    BY <2>1, <2>3 DEF ProjectInv
  <2> QED BY <2>1, <2>2, <2>5, <2>6, <2>7, SameProjects
<1> QED BY <1>1, <1>2, <1>3, <1>4, <1>5, <1>6, <1>7 DEF DBNext

\* The invariant of the project database: its tree is whole although it may have a
\* project twice, and its projects are as Projects has them.
THEOREM ProjectInvariant == DBSpec => []ProjectInv
<1>1. DBInit => ProjectInv
  BY InitProjectDB
<1>2. ProjectInv /\ [DBNext]_dbVars => ProjectInv'
  BY ProjectStep
<1> QED BY <1>1, <1>2, PTL DEF DBSpec

\* AuthDB keeps the promise of Projects through every page write of every insert,
\* update and rebuild_project_tree, wherever the process ends.
THEOREM DBImplementsProjects == DBSpec => ImplementsProjects
<1>1. DBInit => Promise!Init
  BY InitProjectDB
<1>2. ProjectInv /\ [DBNext]_dbVars => [Promise!Next]_(Promise!vars)
  BY ProjectStep
<1> QED BY <1>1, <1>2, ProjectInvariant, PTL DEF DBSpec, ImplementsProjects, Promise!Spec

\* An API key speaks for one project, and a project has one key, although ids
\* are counted from what a new process finds and an update can leave two entries.
THEOREM KeysUnique == DBSpec => []OneKeyEach
BY PromiseKeys, DBImplementsProjects DEF ImplementsProjects, OneKeyEach

\* delete_project: the key of a deleted project opens none, in this process or after
\* a restart in the middle of the rebuild.
THEOREM RevokedStaysDead == DBSpec => []RevokedIsDead
BY PromiseRevoked, DBImplementsProjects DEF ImplementsProjects, RevokedIsDead
=============================================================================
