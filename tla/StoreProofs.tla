----------------------------- MODULE StoreProofs -----------------------------
(***************************************************************************)
(* The theorems about Store.                                               *)
(***************************************************************************)
EXTENDS Store, Lemmas

-----------------------------------------------------------------------------
(* The operators. *)

\* The subtree of some folders holds them, and every folder whose parent it holds.
LEMMA SubtreesAreClosed ==
    ASSUME NEW S \in SUBSET DOMAIN folders
    PROVE  /\ Subtree(S) \subseteq DOMAIN folders /\ S \subseteq Subtree(S)
           /\ \A g \in DOMAIN folders : folders[g].parent \in Subtree(S) => g \in Subtree(S)
  BY DEF Subtree

\* A set of folders that is closed in that way holds the subtree of all it holds.
LEMMA SubtreesAreLeast ==
    ASSUME NEW S \in SUBSET DOMAIN folders, NEW D \in SUBSET DOMAIN folders, S \subseteq D,
           \A g \in DOMAIN folders : folders[g].parent \in D => g \in D
    PROVE  Subtree(S) \subseteq D
  BY DEF Subtree

\* More folders have a larger subtree.
LEMMA SubtreesGrow ==
    ASSUME NEW S \in SUBSET DOMAIN folders, NEW T \in SUBSET DOMAIN folders, S \subseteq T
    PROVE  Subtree(S) \subseteq Subtree(T)
<1>1. /\ Subtree(T) \subseteq DOMAIN folders /\ T \subseteq Subtree(T)
      /\ \A g \in DOMAIN folders : folders[g].parent \in Subtree(T) => g \in Subtree(T)
  BY SubtreesAreClosed
<1> QED
  BY <1>1, SubtreesAreLeast

\* Uprooted takes requests out of folders and does nothing else to them.
LEMMA UprootingOnlyUproots ==
    ASSUME NEW t \in Table(ReqIds, Req), NEW S, MaxFolder \in Nat
    PROVE  /\ Uprooted(t, S) \in Table(ReqIds, Req)
           /\ DOMAIN Uprooted(t, S) = DOMAIN t
           /\ \A r \in DOMAIN t :
                 /\ Uprooted(t, S)[r].col = t[r].col /\ Uprooted(t, S)[r].owner = t[r].owner
                 /\ \/ Uprooted(t, S)[r] = t[r] /\ t[r].folder \notin S
                    \/ Uprooted(t, S)[r].folder = 0 /\ t[r].folder \in S
<1>1. t \in [DOMAIN t -> Req] /\ DOMAIN t \subseteq ReqIds
  BY TablesAreFunctions
<1>2. ASSUME NEW r \in DOMAIN t
      PROVE  /\ [t[r] EXCEPT !.folder = 0] \in Req
             /\ [t[r] EXCEPT !.folder = 0].folder = 0
             /\ [t[r] EXCEPT !.folder = 0].col = t[r].col
             /\ [t[r] EXCEPT !.folder = 0].owner = t[r].owner
  <2>1. t[r] \in Req /\ 0 \in 0 .. MaxFolder
    BY <1>1
  <2> QED
    BY <2>1 DEF Req
<1>3. DOMAIN Uprooted(t, S) = DOMAIN t
  BY DEF Uprooted
<1>4. \A r \in DOMAIN t :
        Uprooted(t, S)[r] = IF t[r].folder \in S THEN [t[r] EXCEPT !.folder = 0] ELSE t[r]
  BY DEF Uprooted
<1>5. Uprooted(t, S) \in [DOMAIN t -> Req]
  BY <1>1, <1>2 DEF Uprooted
<1>6. Uprooted(t, S) \in Table(ReqIds, Req)
  BY <1>1, <1>3, <1>5, TablesAreFunctions
<1> QED
  BY <1>2, <1>3, <1>4, <1>6

-----------------------------------------------------------------------------
(* What a step leaves alone. *)

\* Job i is not the one at work.
Stays(i) ==
    /\ job'[i] \in Job
    /\ job'[i].pc = job[i].pc /\ job'[i].user = job[i].user
    /\ job'[i].col = job[i].col /\ job'[i].folder = job[i].folder
    /\ job'[i].req = job[i].req /\ job'[i].made = job[i].made
    /\ job[i].raced => job'[i].raced

\* No id that job i holds is given to a new row.
Undisturbed(i) ==
    /\ job[i].col \in DOMAIN cols' => job[i].col \in DOMAIN cols
    /\ job[i].folder \in DOMAIN folders' => job[i].folder \in DOMAIN folders
    /\ job[i].req \in DOMAIN reqs' => job[i].req \in DOMAIN reqs
    /\ job[i].made \cap DOMAIN folders' \subseteq DOMAIN folders

Watched(i) == job[i].pc # "idle" /\ (job[i].user \notin Admins \/ job[i].pc \in Imports)

Bystander(i) == Stays(i) /\ (Watched(i) /\ ~ job'[i].raced => Undisturbed(i))

\* A row that is there before and after is the same.
RowsStay ==
    /\ \A c \in DOMAIN cols \cap DOMAIN cols' : cols'[c].owner = cols[c].owner
    /\ \A f \in DOMAIN folders \cap DOMAIN folders' : folders'[f] = folders[f]
    /\ \A r \in DOMAIN reqs \cap DOMAIN reqs' : reqs'[r].owner = reqs[r].owner

TablesOK ==
    /\ alive \in SUBSET Users
    /\ cols \in Table(ColIds, Col)
    /\ folders \in Table(FolderIds, Folder)
    /\ reqs \in Table(ReqIds, Req)

\* Raced marks the jobs that hold the id, and changes nothing else in any job.
LEMMA RacedOnlyMarks ==
    ASSUME job \in [Jobs -> Job], NEW key \in {"col", "folder", "req"}, NEW id, NEW i \in Jobs
    PROVE  LET g == Raced(key, id)[i] IN
           /\ g \in Job
           /\ g.pc = job[i].pc /\ g.user = job[i].user /\ g.col = job[i].col
           /\ g.folder = job[i].folder /\ g.req = job[i].req /\ g.made = job[i].made
           /\ job[i].raced => g.raced
           /\ Watched(i) /\ ~ g.raced =>
                 /\ key = "col" => job[i].col # id
                 /\ key = "folder" => job[i].folder # id /\ id \notin job[i].made
                 /\ key = "req" => job[i].req # id
<1> DEFINE hit == /\ Watched(i)
                  /\ job[i][key] = id \/ (key = "folder" /\ id \in job[i].made)
           g == Raced(key, id)[i]
<1>1. g = IF hit THEN [job[i] EXCEPT !.raced = TRUE] ELSE job[i]
  BY DEF Raced, Watched
<1>2. job[i] \in Job
  OBVIOUS
<1>3. Watched(i) /\ ~ hit =>
                 /\ key = "col" => job[i].col # id
                 /\ key = "folder" => job[i].folder # id /\ id \notin job[i].made
                 /\ key = "req" => job[i].req # id
  BY <1>2 DEF Job
<1> HIDE DEF hit, g
<1>4. CASE hit
  <2>1. g = [job[i] EXCEPT !.raced = TRUE]
    BY <1>1, <1>4
  <2>2. g \in Job /\ g.raced
    BY <1>2, <2>1 DEF Job
  <2>3. /\ g.pc = job[i].pc /\ g.user = job[i].user /\ g.col = job[i].col
        /\ g.folder = job[i].folder /\ g.req = job[i].req /\ g.made = job[i].made
    BY <1>2, <2>1 DEF Job
  <2> QED
    BY <2>2, <2>3 DEF g
<1>5. CASE ~ hit
  <2>1. g = job[i]
    BY <1>1, <1>5
  <2> QED
    BY <1>2, <1>3, <1>5, <2>1 DEF g
<1> QED
  BY <1>4, <1>5

-----------------------------------------------------------------------------
(* What each kind of write does to the tables. *)

\* INSERT INTO collections.
LEMMA AddingACollection ==
    ASSUME TablesOK, TreeSound, NEW owner \in (alive \cup {Nobody}) \cap Owner,
           NewId(cols) <= MaxCol, cols' = Put(cols, NewId(cols), [owner |-> owner]),
           UNCHANGED <<alive, folders, reqs>>
    PROVE  /\ TablesOK' /\ TreeSound' /\ RowsStay
           /\ NewId(cols) \in ColIds /\ DOMAIN cols' = DOMAIN cols \cup {NewId(cols)}
           /\ cols'[NewId(cols)].owner = owner
<1> DEFINE id == NewId(cols)
           row == [owner |-> owner]
<1>1. MaxCol \in Nat /\ cols \in Table(1 .. MaxCol, Col)
  BY IdBoundsAssumption DEF TablesOK, ColIds
<1>2. id \in ColIds /\ id \notin DOMAIN cols
  BY <1>1, NewIdIsNew DEF ColIds
<1>3. row \in Col /\ row.owner = owner
  BY DEF Col
<1> HIDE DEF id, row
<1>4. cols \in Table(ColIds, Col)
  BY DEF TablesOK
<1>5. /\ Put(cols, id, row) \in Table(ColIds, Col)
      /\ DOMAIN Put(cols, id, row) = DOMAIN cols \cup {id}
      /\ \A c \in DOMAIN cols \ {id} : Put(cols, id, row)[c] = cols[c]
  BY <1>2, <1>3, <1>4, PutKeepsTheOthers
<1>6. Put(cols, id, row)[id] = row
  BY PutGivesTheRow
<1>7. cols' = Put(cols, id, row)
  BY DEF id, row
<1>8. /\ cols' \in Table(ColIds, Col) /\ DOMAIN cols' = DOMAIN cols \cup {id}
      /\ \A c \in DOMAIN cols : cols'[c] = cols[c]
      /\ cols'[id].owner = owner
  BY <1>2, <1>3, <1>5, <1>6, <1>7
<1>9. TablesOK'
  BY <1>8 DEF TablesOK
<1>10. TreeSound'
  BY <1>8 DEF TreeSound
<1>11. RowsStay
  BY <1>8 DEF RowsStay
<1> QED
  BY <1>2, <1>8, <1>9, <1>10, <1>11 DEF id

\* INSERT INTO folders.
LEMMA AddingAFolder ==
    ASSUME TablesOK, TreeSound, NEW c \in DOMAIN cols, NEW parent \in {0} \cup DOMAIN folders,
           NewId(folders) <= MaxFolder,
           folders' = Put(folders, NewId(folders), [col |-> c, parent |-> parent]),
           UNCHANGED <<alive, cols, reqs>>
    PROVE  /\ TablesOK' /\ TreeSound' /\ RowsStay
           /\ NewId(folders) \in FolderIds /\ NewId(folders) \notin DOMAIN folders
           /\ DOMAIN folders' = DOMAIN folders \cup {NewId(folders)}
           /\ \A f \in DOMAIN folders : folders'[f] = folders[f]
           /\ folders'[NewId(folders)] = [col |-> c, parent |-> parent]
<1> DEFINE id == NewId(folders)
           row == [col |-> c, parent |-> parent]
<1>1. MaxFolder \in Nat /\ folders \in Table(1 .. MaxFolder, Folder)
  BY IdBoundsAssumption DEF TablesOK, FolderIds
<1>2. /\ id \in FolderIds /\ id \notin DOMAIN folders
      /\ \A f \in DOMAIN folders : f < id
  BY <1>1, NewIdIsNew DEF FolderIds
<1>3. row \in Folder /\ row.col = c /\ row.parent = parent
  <2>1. c \in ColIds /\ parent \in 0 .. MaxFolder
    <3>1. DOMAIN cols \subseteq ColIds /\ DOMAIN folders \subseteq FolderIds
      BY TablesAreFunctions DEF TablesOK
    <3> QED
      BY <1>1, <3>1 DEF FolderIds
  <2> QED
    BY <2>1 DEF Folder
<1>4. parent < id
  BY <1>1, <1>2 DEF FolderIds
<1> HIDE DEF id, row
<1>5. folders \in Table(FolderIds, Folder)
  BY DEF TablesOK
<1>6. /\ Put(folders, id, row) \in Table(FolderIds, Folder)
      /\ DOMAIN Put(folders, id, row) = DOMAIN folders \cup {id}
      /\ \A f \in DOMAIN folders \ {id} : Put(folders, id, row)[f] = folders[f]
  BY <1>2, <1>3, <1>5, PutKeepsTheOthers
<1>7. Put(folders, id, row)[id] = row
  BY PutGivesTheRow
<1>8. folders' = Put(folders, id, row)
  BY DEF id, row
<1>9. /\ folders' \in Table(FolderIds, Folder) /\ DOMAIN folders' = DOMAIN folders \cup {id}
      /\ \A f \in DOMAIN folders : folders'[f] = folders[f]
      /\ folders'[id] = row
  BY <1>2, <1>6, <1>7, <1>8
<1>10. TablesOK'
  BY <1>9 DEF TablesOK
<1>11. TreeSound'
  <2>1. \A f \in DOMAIN folders' :
          /\ folders'[f].col \in DOMAIN cols
          /\ folders'[f].parent \in {0} \cup DOMAIN folders'
          /\ folders'[f].parent < f
    BY <1>3, <1>4, <1>9 DEF TreeSound
  <2>2. \A r \in DOMAIN reqs : reqs[r].folder \in {0} \cup DOMAIN folders'
    BY <1>9 DEF TreeSound
  <2> QED
    BY <2>1, <2>2 DEF TreeSound
<1>12. RowsStay
  BY <1>9 DEF RowsStay
<1> QED
  BY <1>2, <1>9, <1>10, <1>11, <1>12 DEF id, row

\* INSERT INTO requests.
LEMMA AddingARequest ==
    ASSUME TablesOK, TreeSound, NEW c \in DOMAIN cols, NEW f \in {0} \cup DOMAIN folders,
           NEW owner \in (alive \cup {Nobody}) \cap Owner, NewId(reqs) <= MaxReq,
           reqs' = Put(reqs, NewId(reqs), [col |-> c, folder |-> f, owner |-> owner]),
           UNCHANGED <<alive, cols, folders>>
    PROVE  /\ TablesOK' /\ TreeSound' /\ RowsStay
           /\ NewId(reqs) \in ReqIds /\ NewId(reqs) \notin DOMAIN reqs
           /\ DOMAIN reqs' = DOMAIN reqs \cup {NewId(reqs)}
           /\ \A r \in DOMAIN reqs : reqs'[r] = reqs[r]
           /\ reqs'[NewId(reqs)] = [col |-> c, folder |-> f, owner |-> owner]
<1> DEFINE id == NewId(reqs)
           row == [col |-> c, folder |-> f, owner |-> owner]
<1>1. MaxReq \in Nat /\ reqs \in Table(1 .. MaxReq, Req)
  BY IdBoundsAssumption DEF TablesOK, ReqIds
<1>2. id \in ReqIds /\ id \notin DOMAIN reqs
  BY <1>1, NewIdIsNew DEF ReqIds
<1>3. row \in Req /\ row.col = c /\ row.folder = f /\ row.owner = owner
  <2>1. c \in ColIds /\ f \in 0 .. MaxFolder
    <3>1. DOMAIN cols \subseteq ColIds /\ DOMAIN folders \subseteq FolderIds
      BY TablesAreFunctions DEF TablesOK
    <3> QED
      BY <3>1, IdBoundsAssumption DEF FolderIds
  <2> QED
    BY <2>1 DEF Req
<1> HIDE DEF id, row
<1>4. reqs \in Table(ReqIds, Req)
  BY DEF TablesOK
<1>5. /\ Put(reqs, id, row) \in Table(ReqIds, Req)
      /\ DOMAIN Put(reqs, id, row) = DOMAIN reqs \cup {id}
      /\ \A r \in DOMAIN reqs \ {id} : Put(reqs, id, row)[r] = reqs[r]
  BY <1>2, <1>3, <1>4, PutKeepsTheOthers
<1>6. Put(reqs, id, row)[id] = row
  BY PutGivesTheRow
<1>7. reqs' = Put(reqs, id, row)
  BY DEF id, row
<1>8. /\ reqs' \in Table(ReqIds, Req) /\ DOMAIN reqs' = DOMAIN reqs \cup {id}
      /\ \A r \in DOMAIN reqs : reqs'[r] = reqs[r]
      /\ reqs'[id] = row
  BY <1>2, <1>5, <1>6, <1>7
<1>9. TablesOK'
  BY <1>8 DEF TablesOK
<1>10. TreeSound'
  BY <1>3, <1>8 DEF TreeSound
<1>11. RowsStay
  BY <1>8 DEF RowsStay
<1> QED
  BY <1>2, <1>8, <1>9, <1>10, <1>11 DEF id, row

\* DELETE with its cascades: the collections C and the folders G go, with every
\* folder below one of G, and so do the requests that t does not have.
LEMMA Cascading ==
    ASSUME TablesOK, TreeSound, NEW C, NEW G \in SUBSET DOMAIN folders, NEW Q,
           NEW t \in Table(ReqIds, Req),
           \A g \in DOMAIN folders : folders[g].parent \in G => g \in G,
           \A f \in DOMAIN folders : folders[f].col \in C => f \in G,
           \A r \in DOMAIN reqs : reqs[r].col \in C => r \in Q,
           cols' \in Table(ColIds, Col), DOMAIN cols' = DOMAIN cols \ C,
           \A c \in DOMAIN cols' : cols'[c] = cols[c],
           DOMAIN t = DOMAIN reqs \ Q, \A r \in DOMAIN t : t[r] = reqs[r],
           folders' = Without(folders, G), reqs' = Uprooted(t, G), UNCHANGED alive
    PROVE  /\ TablesOK' /\ TreeSound' /\ RowsStay
           /\ DOMAIN folders' = DOMAIN folders \ G /\ DOMAIN reqs' = DOMAIN reqs \ Q
           /\ \A f \in DOMAIN folders' : folders'[f] = folders[f]
           /\ \A r \in DOMAIN reqs' :
                 /\ reqs'[r].col = reqs[r].col /\ reqs'[r].owner = reqs[r].owner
                 /\ reqs'[r] = reqs[r] \/ reqs[r].folder \in G
<1>1. folders \in Table(FolderIds, Folder) /\ MaxFolder \in Nat
  BY IdBoundsAssumption DEF TablesOK
<1>2. /\ folders' \in Table(FolderIds, Folder)
      /\ DOMAIN folders' = DOMAIN folders \ G
      /\ \A f \in DOMAIN folders \ G : folders'[f] = folders[f]
  <2>1. /\ Without(folders, G) \in Table(FolderIds, Folder)
        /\ DOMAIN Without(folders, G) = DOMAIN folders \ G
        /\ \A f \in DOMAIN folders \ G : Without(folders, G)[f] = folders[f]
    BY <1>1, TablesAreFunctions DEF Without
  <2> QED
    BY <2>1
<1>3. /\ Uprooted(t, G) \in Table(ReqIds, Req)
      /\ DOMAIN Uprooted(t, G) = DOMAIN t
      /\ \A r \in DOMAIN t :
            /\ Uprooted(t, G)[r].col = t[r].col /\ Uprooted(t, G)[r].owner = t[r].owner
            /\ \/ Uprooted(t, G)[r] = t[r] /\ t[r].folder \notin G
               \/ Uprooted(t, G)[r].folder = 0 /\ t[r].folder \in G
  BY <1>1, UprootingOnlyUproots
<1>4. /\ reqs' \in Table(ReqIds, Req) /\ DOMAIN reqs' = DOMAIN reqs \ Q
      /\ \A r \in DOMAIN reqs' :
            /\ reqs'[r].col = reqs[r].col /\ reqs'[r].owner = reqs[r].owner
            /\ \/ reqs'[r] = reqs[r] /\ reqs[r].folder \notin G
               \/ reqs'[r].folder = 0 /\ reqs[r].folder \in G
  BY <1>3
<1>5. TablesOK'
  BY <1>2, <1>4 DEF TablesOK
<1>6. \A c \in DOMAIN cols' : cols'[c].owner \in alive' \cup {Nobody}
  BY DEF TreeSound
<1>7. \A f \in DOMAIN folders' :
        /\ folders'[f].col \in DOMAIN cols'
        /\ folders'[f].parent \in {0} \cup DOMAIN folders'
        /\ folders'[f].parent < f
  BY <1>2 DEF TreeSound
<1>8. \A r \in DOMAIN reqs' :
        /\ reqs'[r].col \in DOMAIN cols'
        /\ reqs'[r].folder \in {0} \cup DOMAIN folders'
        /\ reqs'[r].owner \in alive' \cup {Nobody}
  <2> SUFFICES ASSUME NEW r \in DOMAIN reqs'
               PROVE  /\ reqs'[r].col \in DOMAIN cols'
                      /\ reqs'[r].folder \in {0} \cup DOMAIN folders'
                      /\ reqs'[r].owner \in alive' \cup {Nobody}
    OBVIOUS
  <2>1. /\ r \in DOMAIN reqs /\ reqs[r].col \in DOMAIN cols \ C
        /\ reqs[r].folder \in {0} \cup DOMAIN folders
        /\ reqs[r].owner \in alive \cup {Nobody}
    BY <1>4 DEF TreeSound
  <2>2. reqs'[r].folder \in {0} \cup DOMAIN folders'
    BY <1>2, <1>4, <2>1
  <2> QED
    BY <1>4, <2>1, <2>2
<1>9. TreeSound'
  BY <1>6, <1>7, <1>8 DEF TreeSound
<1>10. RowsStay
  BY <1>2, <1>4 DEF RowsStay
<1> QED
  BY <1>2, <1>4, <1>5, <1>9, <1>10

\* DELETE FROM collections.
LEMMA DroppingACollection ==
    ASSUME TablesOK, TreeSound, NEW c, DropCollection(c), UNCHANGED alive
    PROVE  /\ TablesOK' /\ TreeSound' /\ RowsStay
           /\ DOMAIN cols' = DOMAIN cols \ {c}
           /\ DOMAIN folders \ DOMAIN folders'
                 = Subtree({f \in DOMAIN folders : folders[f].col = c})
           /\ DOMAIN folders' \subseteq DOMAIN folders /\ DOMAIN reqs' \subseteq DOMAIN reqs
           /\ \A r \in DOMAIN reqs :
                 \/ r \in DOMAIN reqs' /\ reqs'[r] = reqs[r]
                 \/ reqs[r].col = c
                 \/ reqs[r].folder \in DOMAIN folders \ DOMAIN folders'
           /\ \A r \in DOMAIN reqs' : reqs'[r].col = reqs[r].col
<1> DEFINE G == Subtree({f \in DOMAIN folders : folders[f].col = c})
           Q == {r \in DOMAIN reqs : reqs[r].col = c}
           t == Without(reqs, Q)
<1>1. /\ G \subseteq DOMAIN folders
      /\ \A f \in DOMAIN folders : folders[f].col \in {c} => f \in G
      /\ \A g \in DOMAIN folders : folders[g].parent \in G => g \in G
  BY SubtreesAreClosed
<1>2. \A r \in DOMAIN reqs : reqs[r].col \in {c} => r \in Q
  OBVIOUS
<1>3. cols' = Without(cols, {c}) /\ folders' = Without(folders, G) /\ reqs' = Uprooted(t, G)
  BY DEF DropCollection
<1>4. Q \subseteq {r \in DOMAIN reqs : reqs[r].col = c}
  OBVIOUS
<1> HIDE DEF G, Q
<1>5. reqs \in Table(ReqIds, Req) /\ cols \in Table(ColIds, Col)
  BY DEF TablesOK
<1>6. /\ t \in Table(ReqIds, Req) /\ DOMAIN t = DOMAIN reqs \ Q
      /\ \A r \in DOMAIN t : t[r] = reqs[r]
  BY <1>5, WithoutKeepsTheOthers
<1>7. /\ cols' \in Table(ColIds, Col) /\ DOMAIN cols' = DOMAIN cols \ {c}
      /\ \A d \in DOMAIN cols' : cols'[d] = cols[d]
  <2>1. /\ Without(cols, {c}) \in Table(ColIds, Col)
        /\ DOMAIN Without(cols, {c}) = DOMAIN cols \ {c}
        /\ \A d \in DOMAIN cols \ {c} : Without(cols, {c})[d] = cols[d]
    BY <1>5, TablesAreFunctions DEF Without
  <2> QED
    BY <1>3, <2>1
<1> HIDE DEF t
<1>8. /\ TablesOK' /\ TreeSound' /\ RowsStay
      /\ DOMAIN folders' = DOMAIN folders \ G /\ DOMAIN reqs' = DOMAIN reqs \ Q
      /\ \A f \in DOMAIN folders' : folders'[f] = folders[f]
      /\ \A r \in DOMAIN reqs' :
            /\ reqs'[r].col = reqs[r].col /\ reqs'[r].owner = reqs[r].owner
            /\ reqs'[r] = reqs[r] \/ reqs[r].folder \in G
  BY <1>1, <1>2, <1>3, <1>6, <1>7, Cascading
<1>9. DOMAIN folders \ DOMAIN folders' = G
  BY <1>1, <1>8
<1> QED
  BY <1>4, <1>7, <1>8, <1>9 DEF G

\* DELETE FROM folders.
LEMMA DroppingAFolder ==
    ASSUME TablesOK, TreeSound, NEW f, DropFolder(f), UNCHANGED alive
    PROVE  /\ TablesOK' /\ TreeSound' /\ RowsStay
           /\ DOMAIN folders \ DOMAIN folders' = Subtree({f} \cap DOMAIN folders)
           /\ DOMAIN folders' \subseteq DOMAIN folders /\ DOMAIN reqs' = DOMAIN reqs
           /\ \A r \in DOMAIN reqs :
                 \/ reqs'[r] = reqs[r]
                 \/ reqs[r].folder \in DOMAIN folders \ DOMAIN folders'
           /\ \A r \in DOMAIN reqs : reqs'[r].col = reqs[r].col
<1> DEFINE G == Subtree({f} \cap DOMAIN folders)
           none == {}
           t == reqs
<1>1. /\ G \subseteq DOMAIN folders
      /\ \A g \in DOMAIN folders : folders[g].parent \in G => g \in G
  BY SubtreesAreClosed
<1>2. cols' = cols /\ folders' = Without(folders, G) /\ reqs' = Uprooted(t, G)
  BY DEF DropFolder
<1>3. t \in Table(ReqIds, Req) /\ cols \in Table(ColIds, Col)
  BY DEF TablesOK
<1>4. /\ cols' \in Table(ColIds, Col) /\ DOMAIN cols' = DOMAIN cols \ none
      /\ \A c \in DOMAIN cols' : cols'[c] = cols[c]
      /\ DOMAIN t = DOMAIN reqs \ none /\ \A r \in DOMAIN t : t[r] = reqs[r]
      /\ \A e \in DOMAIN folders : folders[e].col \in none => e \in G
      /\ \A r \in DOMAIN reqs : reqs[r].col \in none => r \in none
  BY <1>2, <1>3
<1> HIDE DEF G, none, t
<1>5. /\ TablesOK' /\ TreeSound' /\ RowsStay
      /\ DOMAIN folders' = DOMAIN folders \ G /\ DOMAIN reqs' = DOMAIN reqs \ none
      /\ \A e \in DOMAIN folders' : folders'[e] = folders[e]
      /\ \A r \in DOMAIN reqs' :
            /\ reqs'[r].col = reqs[r].col /\ reqs'[r].owner = reqs[r].owner
            /\ reqs'[r] = reqs[r] \/ reqs[r].folder \in G
  BY <1>1, <1>2, <1>3, <1>4, Cascading, ZenonT(40)
<1>6. DOMAIN folders \ DOMAIN folders' = G
  BY <1>1, <1>5
<1> QED
  BY <1>4, <1>5, <1>6 DEF G, none

\* UPDATE requests SET collection_id, folder_id.
LEMMA MovingARequest ==
    ASSUME TablesOK, TreeSound, NEW r \in DOMAIN reqs, NEW c \in DOMAIN cols,
           NEW f \in {0} \cup DOMAIN folders,
           reqs' = [reqs EXCEPT ![r].col = c, ![r].folder = f],
           UNCHANGED <<alive, cols, folders>>
    PROVE  /\ TablesOK' /\ TreeSound' /\ RowsStay
           /\ DOMAIN reqs' = DOMAIN reqs /\ reqs'[r].col = c
           /\ \A q \in DOMAIN reqs \ {r} : reqs'[q] = reqs[q]
<1> DEFINE moved == [reqs[r] EXCEPT !.col = c, !.folder = f]
<1>1. reqs \in [DOMAIN reqs -> Req] /\ DOMAIN reqs \subseteq ReqIds
  BY TablesAreFunctions DEF TablesOK
<1>2. c \in ColIds /\ f \in 0 .. MaxFolder
  <2>1. DOMAIN cols \subseteq ColIds /\ DOMAIN folders \subseteq FolderIds
    BY TablesAreFunctions DEF TablesOK
  <2> QED
    BY <2>1, IdBoundsAssumption DEF FolderIds
<1>3. /\ moved \in Req /\ moved.col = c /\ moved.folder = f
      /\ moved.owner = reqs[r].owner
  BY <1>1, <1>2 DEF Req
<1>4. reqs' = [reqs EXCEPT ![r] = moved]
  BY <1>1 DEF Req
<1> HIDE DEF moved
<1>5. /\ reqs' \in [DOMAIN reqs -> Req] /\ DOMAIN reqs' = DOMAIN reqs
      /\ reqs'[r] = moved /\ \A q \in DOMAIN reqs \ {r} : reqs'[q] = reqs[q]
  BY <1>1, <1>3, <1>4
<1>6. reqs' \in Table(ReqIds, Req)
  <2>1. reqs' \in [DOMAIN reqs' -> Req] /\ DOMAIN reqs' \subseteq ReqIds
    BY <1>1, <1>5
  <2> QED
    BY ONLY <2>1, TablesAreFunctions
<1>7. TablesOK'
  BY <1>6 DEF TablesOK
<1>8. \A q \in DOMAIN reqs' :
        /\ reqs'[q].col \in DOMAIN cols
        /\ reqs'[q].folder \in {0} \cup DOMAIN folders
        /\ reqs'[q].owner \in alive \cup {Nobody}
        /\ reqs'[q].owner = reqs[q].owner
  BY <1>3, <1>5 DEF TreeSound
<1>9. TreeSound'
  BY <1>8 DEF TreeSound
<1>10. RowsStay
  BY <1>8 DEF RowsStay
<1> QED
  BY <1>3, <1>5, <1>7, <1>9, <1>10

\* DELETE FROM requests.
LEMMA DroppingARequest ==
    ASSUME TablesOK, TreeSound, NEW r, reqs' = Without(reqs, {r}),
           UNCHANGED <<alive, cols, folders>>
    PROVE  /\ TablesOK' /\ TreeSound' /\ RowsStay /\ DOMAIN reqs' \subseteq DOMAIN reqs
<1>1. /\ reqs' \in Table(ReqIds, Req) /\ DOMAIN reqs' \subseteq DOMAIN reqs
      /\ \A q \in DOMAIN reqs' : reqs'[q] = reqs[q]
  <2>1. reqs \in [DOMAIN reqs -> Req] /\ DOMAIN reqs \subseteq ReqIds
    BY TablesAreFunctions DEF TablesOK
  <2>2. /\ DOMAIN Without(reqs, {r}) = DOMAIN reqs \ {r}
        /\ \A q \in DOMAIN reqs \ {r} : Without(reqs, {r})[q] = reqs[q]
    BY DEF Without
  <2>3. Without(reqs, {r}) \in [DOMAIN Without(reqs, {r}) -> Req]
    BY <2>1, <2>2 DEF Without
  <2>4. Without(reqs, {r}) \in Table(ReqIds, Req)
    BY <2>1, <2>2, <2>3, TablesAreFunctions
  <2> QED
    BY <2>2, <2>4
<1>2. TablesOK'
  BY <1>1 DEF TablesOK
<1>3. TreeSound'
  BY <1>1 DEF TreeSound
<1>4. RowsStay
  BY <1>1 DEF RowsStay
<1> QED
  BY <1>1, <1>2, <1>3, <1>4

\* deleteUser: what they owned belongs to nobody.
LEMMA OrphaningRows ==
    ASSUME TablesOK, TreeSound, NEW u \in Users, DeleteUser(u)
    PROVE  /\ TablesOK' /\ TreeSound'
           /\ DOMAIN cols' = DOMAIN cols /\ DOMAIN reqs' = DOMAIN reqs
           /\ \A c \in DOMAIN cols : cols[c].owner # u => cols'[c] = cols[c]
           /\ \A r \in DOMAIN reqs : reqs[r].owner # u => reqs'[r] = reqs[r]
<1>1. /\ DOMAIN cols' = DOMAIN cols /\ DOMAIN reqs' = DOMAIN reqs
      /\ UNCHANGED folders /\ alive' = alive \ {u}
      /\ \A c \in DOMAIN cols :
            cols'[c] = IF cols[c].owner = u THEN [owner |-> Nobody] ELSE cols[c]
      /\ \A r \in DOMAIN reqs :
            reqs'[r] = IF reqs[r].owner = u THEN [reqs[r] EXCEPT !.owner = Nobody] ELSE reqs[r]
      /\ cols' \in [DOMAIN cols -> {cols'[c] : c \in DOMAIN cols}]
      /\ reqs' \in [DOMAIN reqs -> {reqs'[r] : r \in DOMAIN reqs}]
  BY DEF DeleteUser
<1>2. /\ cols \in [DOMAIN cols -> Col] /\ DOMAIN cols \subseteq ColIds
      /\ reqs \in [DOMAIN reqs -> Req] /\ DOMAIN reqs \subseteq ReqIds
  BY TablesAreFunctions DEF TablesOK
<1>3. \A c \in DOMAIN cols : cols'[c] \in Col
  BY <1>1, <1>2 DEF Col, Owner
<1>4. \A c \in DOMAIN cols :
         cols'[c].owner \in {Nobody, cols[c].owner} /\ cols'[c].owner # u
  BY <1>1, UsersAssumption
<1>5. ASSUME NEW r \in DOMAIN reqs
      PROVE  /\ reqs'[r] \in Req /\ reqs'[r].col = reqs[r].col
             /\ reqs'[r].folder = reqs[r].folder
             /\ reqs'[r].owner \in {Nobody, reqs[r].owner} /\ reqs'[r].owner # u
  <2>1. reqs[r] \in Req
    BY <1>2
  <2>2. /\ [reqs[r] EXCEPT !.owner = Nobody] \in Req
        /\ [reqs[r] EXCEPT !.owner = Nobody].col = reqs[r].col
        /\ [reqs[r] EXCEPT !.owner = Nobody].folder = reqs[r].folder
        /\ [reqs[r] EXCEPT !.owner = Nobody].owner = Nobody
    BY <2>1 DEF Req, Owner
  <2> QED
    BY <1>1, <2>1, <2>2, UsersAssumption
<1>6. cols' \in Table(ColIds, Col)
  <2>1. cols' \in [DOMAIN cols' -> Col]
    BY <1>1, <1>3
  <2> QED
    BY <1>1, <1>2, <2>1, TablesAreFunctions
<1>7. reqs' \in Table(ReqIds, Req)
  <2>1. reqs' \in [DOMAIN reqs' -> Req]
    BY <1>1, <1>5
  <2> QED
    BY <1>1, <1>2, <2>1, TablesAreFunctions
<1>8. TablesOK'
  BY <1>1, <1>6, <1>7 DEF TablesOK
<1>9. TreeSound'
  <2>1. \A c \in DOMAIN cols' : cols'[c].owner \in alive' \cup {Nobody}
    BY <1>1, <1>4 DEF TreeSound
  <2>2. \A r \in DOMAIN reqs' :
          /\ reqs'[r].col \in DOMAIN cols'
          /\ reqs'[r].folder \in {0} \cup DOMAIN folders'
          /\ reqs'[r].owner \in alive' \cup {Nobody}
    BY <1>1, <1>5 DEF TreeSound
  <2> QED
    BY <1>1, <2>1, <2>2 DEF TreeSound
<1> QED
  BY <1>1, <1>8, <1>9

-----------------------------------------------------------------------------
(* The handlers between their statements. *)

Safe(i) ==
    /\ ~ job[i].raced /\ job[i].user \in alive \ Admins => Holds(job[i])
    /\ job[i].made # {} => job[i].pc \in Imports

StandsAlone(i) ==
    ~ job[i].raced =>
        \A f \in job[i].made \cap DOMAIN folders :
            folders[f].col = job[i].col /\ folders[f].parent \in {0} \cup job[i].made

\* What is inductive: StoreInv and what an import makes, table by table and job by job.
Sound ==
    /\ TablesOK /\ job \in [Jobs -> Job] /\ TreeSound
    /\ \A i \in Jobs : Safe(i) /\ StandsAlone(i)

LEMMA SoundIsTheInvariants == Sound <=> StoreInv /\ \A i \in Jobs : StandsAlone(i)
  BY DEF Sound, StoreInv, TypeOK, TablesOK, JobsHoldTheirRows, Safe

\* A row that goes takes no id away from anybody: the jobs that are not at work stand by.
LEMMA OthersStandBy ==
    ASSUME job \in [Jobs -> Job], NEW A,
           \A i \in Jobs \ A : job'[i] = job[i],
           DOMAIN cols' \subseteq DOMAIN cols, DOMAIN folders' \subseteq DOMAIN folders,
           DOMAIN reqs' \subseteq DOMAIN reqs
    PROVE  \A i \in Jobs \ A : Bystander(i)
  BY DEF Bystander, Stays, Undisturbed

\* And an INSERT marks those whose ids it gives out.
LEMMA OthersAreMarked ==
    ASSUME job \in [Jobs -> Job], NEW A, NEW key \in {"col", "folder", "req"}, NEW id,
           \A i \in Jobs \ A : job'[i] = Raced(key, id)[i],
           DOMAIN cols' \subseteq DOMAIN cols \cup (IF key = "col" THEN {id} ELSE {}),
           DOMAIN folders' \subseteq DOMAIN folders \cup (IF key = "folder" THEN {id} ELSE {}),
           DOMAIN reqs' \subseteq DOMAIN reqs \cup (IF key = "req" THEN {id} ELSE {})
    PROVE  \A i \in Jobs \ A : Bystander(i)
<1> SUFFICES ASSUME NEW i \in Jobs \ A PROVE Bystander(i)
  OBVIOUS
<1>1. LET g == job'[i] IN
      /\ g \in Job
      /\ g.pc = job[i].pc /\ g.user = job[i].user /\ g.col = job[i].col
      /\ g.folder = job[i].folder /\ g.req = job[i].req /\ g.made = job[i].made
      /\ job[i].raced => g.raced
      /\ Watched(i) /\ ~ g.raced =>
            /\ key = "col" => job[i].col # id
            /\ key = "folder" => job[i].folder # id /\ id \notin job[i].made
            /\ key = "req" => job[i].req # id
  BY RacedOnlyMarks
<1>2. Stays(i)
  BY <1>1 DEF Stays
<1>3. Watched(i) /\ ~ job'[i].raced => Undisturbed(i)
  BY <1>1 DEF Undisturbed
<1> QED
  BY <1>2, <1>3 DEF Bystander

\* A job that stands by keeps what it holds.
LEMMA BystandersStaySafe ==
    ASSUME Sound, TablesOK', TreeSound', RowsStay, UNCHANGED alive,
           NEW i \in Jobs, Bystander(i)
    PROVE  job'[i] \in Job /\ Safe(i)' /\ StandsAlone(i)'
<1>1. /\ job[i] \in Job /\ Safe(i) /\ StandsAlone(i) /\ TreeSound
      /\ Stays(i) /\ (Watched(i) /\ ~ job'[i].raced => Undisturbed(i))
  BY DEF Sound, Bystander
<1>2. ASSUME ~ job'[i].raced, job[i].user \in alive \ Admins PROVE Holds(job[i])'
  <2>1. CASE job[i].pc = "idle"
    BY <1>1, <2>1 DEF Holds, Stays, Imports
  <2>2. CASE job[i].pc # "idle"
    <3>1. Undisturbed(i) /\ Holds(job[i])
      BY <1>1, <1>2, <2>2 DEF Watched, Safe, Stays
    <3>2. job[i].col \in DOMAIN cols' => job[i].col \in DOMAIN cols
                                         /\ cols'[job[i].col].owner = cols[job[i].col].owner
      BY <3>1 DEF Undisturbed, RowsStay
    <3>3. job[i].req \in DOMAIN reqs' => job[i].req \in DOMAIN reqs
                                         /\ reqs'[job[i].req].owner = reqs[job[i].req].owner
      BY <3>1 DEF Undisturbed, RowsStay
    <3>4. ASSUME job[i].folder \in DOMAIN folders'
          PROVE  /\ job[i].folder \in DOMAIN folders
                 /\ cols'[folders'[job[i].folder].col].owner = cols[folders[job[i].folder].col].owner
      <4>1. /\ job[i].folder \in DOMAIN folders
            /\ folders'[job[i].folder].col = folders[job[i].folder].col
        BY <3>1, <3>4 DEF Undisturbed, RowsStay
      <4>2. folders[job[i].folder].col \in DOMAIN cols \cap DOMAIN cols'
        BY <1>1, <3>4, <4>1 DEF TreeSound
      <4> QED
        BY <4>1, <4>2 DEF RowsStay
    <3> DEFINE f == job[i].folder
    <3>5. job'[i].folder = f /\ (f \in DOMAIN folders' =>
             f \in DOMAIN folders /\ cols'[folders'[f].col].owner = cols[folders[f].col].owner)
      BY <1>1, <3>4 DEF Stays
    <3>6. job[i].pc = "deleteFolder" /\ f \in DOMAIN folders => cols[folders[f].col].owner = job[i].user
      BY <3>1 DEF Holds
    <3> HIDE DEF f
    <3>7. job'[i].pc = "deleteFolder" /\ job'[i].folder \in DOMAIN folders'
             => cols'[folders'[job'[i].folder].col].owner = job'[i].user
      BY <1>1, <3>5, <3>6 DEF Stays
    <3>8. job'[i].col \in DOMAIN cols' =>
            /\ job'[i].pc \in {"deleteCollection", "createFolder", "findFolder", "checkTarget"} \cup Imports
                  => cols'[job'[i].col].owner = job'[i].user
            /\ job'[i].pc \in {"createRequest", "checkFolder", "update"}
                  => cols'[job'[i].col].owner \in {Nobody, job'[i].user}
      BY <1>1, <3>1, <3>2 DEF Stays, Holds
    <3>9. job'[i].pc \in {"checkRequest", "checkTarget", "checkFolder", "update"}
            /\ job'[i].req \in DOMAIN reqs'
               => reqs'[job'[i].req].owner = job'[i].user
      BY <1>1, <3>1, <3>3 DEF Stays, Holds
    <3> QED
      BY <3>7, <3>8, <3>9 DEF Holds, Imports
  <2> QED
    BY <2>1, <2>2
<1>3. Safe(i)'
  BY <1>1, <1>2 DEF Safe, Stays, Imports
<1>4. StandsAlone(i)'
  <2> SUFFICES ASSUME ~ job'[i].raced, NEW f \in job'[i].made \cap DOMAIN folders'
               PROVE  /\ folders'[f].col = job'[i].col
                      /\ folders'[f].parent \in {0} \cup job'[i].made
    BY DEF StandsAlone
  <2>1. job[i].pc \in Imports
    BY <1>1 DEF Safe, Stays
  <2>2. Undisturbed(i)
    BY <1>1, <2>1 DEF Watched, Imports
  <2>3. f \in job[i].made \cap DOMAIN folders /\ folders'[f] = folders[f]
    BY <1>1, <2>2 DEF Undisturbed, Stays, RowsStay
  <2> QED
    BY <1>1, <2>3 DEF StandsAlone, Stays
<1> QED
  BY <1>1, <1>3, <1>4 DEF Stays

\* A job that is done holds nothing.
LEMMA IdleIsSafe ==
    ASSUME NEW j \in Jobs, job'[j] = Idle
    PROVE  job'[j] \in Job /\ Safe(j)' /\ StandsAlone(j)'
<1>1. Idle \in Job
  <2>1. 0 \in 0 .. MaxCol /\ 0 \in 0 .. MaxFolder /\ 0 \in 0 .. MaxReq
    BY IdBoundsAssumption
  <2> QED
    BY <2>1 DEF Idle, Job, Owner
<1>2. Holds(job[j])'
  BY DEF Holds, Idle, Imports
<1>3. Safe(j)' /\ StandsAlone(j)'
  BY <1>2 DEF Safe, StandsAlone, Idle
<1> QED
  BY <1>1, <1>3

\* A step of one job, put together.
LEMMA SoundStep ==
    ASSUME Sound, TablesOK', TreeSound', RowsStay, UNCHANGED alive, NEW A,
           job' = [i \in Jobs |-> job'[i]],
           \A i \in Jobs \ A : Bystander(i),
           \A i \in A : job'[i] \in Job /\ Safe(i)' /\ StandsAlone(i)'
    PROVE  Sound'
<1>1. \A i \in Jobs : job'[i] \in Job /\ Safe(i)' /\ StandsAlone(i)'
  BY BystandersStaySafe
<1>2. job' \in [Jobs -> Job]
  BY <1>1
<1> QED
  BY <1>1, <1>2 DEF Sound

-----------------------------------------------------------------------------
(* The handlers, one by one. *)

\* A statement that only reads.
LEMMA ReadingStep ==
    ASSUME Sound, UNCHANGED <<alive, cols, folders, reqs>>, NEW j \in Jobs,
           job' = [job EXCEPT ![j] = job'[j]],
           job'[j] \in Job, Safe(j)', StandsAlone(j)'
    PROVE  Sound'
<1>1. job \in [Jobs -> Job] /\ TablesOK /\ TreeSound
  BY DEF Sound
<1>2. TablesOK' /\ TreeSound' /\ RowsStay
  BY <1>1 DEF TablesOK, TreeSound, RowsStay
<1>3. job' = [i \in Jobs |-> job'[i]] /\ \A i \in Jobs \ {j} : job'[i] = job[i]
  BY <1>1
<1> DEFINE A == {j}
<1>4. \A i \in A : job'[i] \in Job /\ Safe(i)' /\ StandsAlone(i)'
  OBVIOUS
<1> HIDE DEF A
<1>5. \A i \in Jobs \ A : Bystander(i)
  BY <1>1, <1>3, OthersStandBy DEF A
<1> QED
  BY <1>2, <1>3, <1>4, <1>5, SoundStep

\* The first statement of deleteCollection, createFolder and DeleteFolder.
LEMMA BeginManageKeeps ==
    ASSUME Sound, NEW j \in Jobs, NEW u \in Users, NEW c \in ColIds,
           NEW pc \in {"deleteCollection", "createFolder", "findFolder"},
           BeginManage(j, u, c, pc)
    PROVE  Sound'
<1> DEFINE g == [Idle EXCEPT !.pc = pc, !.user = u, !.col = c]
<1>1. /\ job' = [job EXCEPT ![j] = g] /\ UNCHANGED <<alive, cols, folders, reqs>>
      /\ c \in DOMAIN cols /\ (u \in Admins \/ cols[c].owner = u)
  BY DEF BeginManage, Begin, CanManage, IsAdmin
<1>2. /\ g \in Job /\ g.pc = pc /\ g.user = u /\ g.col = c /\ g.made = {}
  <2>1. c \in 0 .. MaxCol /\ 0 \in 0 .. MaxFolder /\ 0 \in 0 .. MaxReq
    BY IdBoundsAssumption DEF ColIds
  <2> QED
    BY <2>1 DEF Idle, Job, Owner
<1> HIDE DEF g
<1>3. job \in [Jobs -> Job]
  BY DEF Sound
<1>4. job'[j] = g /\ job' = [job EXCEPT ![j] = job'[j]]
  BY <1>1, <1>3
<1>5. u \notin Admins => Holds(job[j])'
  BY <1>1, <1>2, <1>4 DEF Holds, Imports
<1>6. Safe(j)' /\ StandsAlone(j)'
  BY <1>2, <1>4, <1>5 DEF Safe, StandsAlone
<1> QED
  BY <1>1, <1>2, <1>4, <1>6, ReadingStep

LEMMA BeginCreateRequestKeeps ==
    ASSUME Sound, NEW j \in Jobs, NEW u \in Users, NEW c \in ColIds, BeginCreateRequest(j, u, c)
    PROVE  Sound'
<1> DEFINE g == [Idle EXCEPT !.pc = "createRequest", !.user = u, !.col = c]
<1>1. /\ job' = [job EXCEPT ![j] = g] /\ UNCHANGED <<alive, cols, folders, reqs>>
      /\ c \in DOMAIN cols /\ (u \in Admins \/ cols[c].owner \in {Nobody, u})
  BY DEF BeginCreateRequest, Begin, CanView, IsAdmin
<1>2. /\ g \in Job /\ g.pc = "createRequest" /\ g.user = u /\ g.col = c /\ g.made = {}
  <2>1. c \in 0 .. MaxCol /\ 0 \in 0 .. MaxFolder /\ 0 \in 0 .. MaxReq
    BY IdBoundsAssumption DEF ColIds
  <2> QED
    BY <2>1 DEF Idle, Job, Owner
<1> HIDE DEF g
<1>3. job \in [Jobs -> Job]
  BY DEF Sound
<1>4. job'[j] = g /\ job' = [job EXCEPT ![j] = job'[j]]
  BY <1>1, <1>3
<1>5. u \notin Admins => Holds(job[j])'
  BY <1>1, <1>2, <1>4 DEF Holds, Imports
<1>6. Safe(j)' /\ StandsAlone(j)'
  BY <1>2, <1>4, <1>5 DEF Safe, StandsAlone
<1> QED
  BY <1>1, <1>2, <1>4, <1>6, ReadingStep

LEMMA BeginUpdateKeeps ==
    ASSUME Sound, NEW j \in Jobs, NEW u \in Users, NEW r \in ReqIds, BeginUpdate(j, u, r)
    PROVE  Sound'
<1> DEFINE c == reqs[r].col
           g == [Idle EXCEPT !.pc = "checkRequest", !.user = u, !.req = r, !.col = c]
<1>1. /\ job' = [job EXCEPT ![j] = g] /\ UNCHANGED <<alive, cols, folders, reqs>>
      /\ r \in DOMAIN reqs /\ (u \in Admins \/ reqs[r].owner = u)
  BY DEF BeginUpdate, Begin, IsAdmin
<1>2. c \in 0 .. MaxCol /\ r \in 0 .. MaxReq /\ 0 \in 0 .. MaxFolder
  <2>1. c \in DOMAIN cols
    BY <1>1 DEF Sound, TreeSound
  <2>2. DOMAIN cols \subseteq ColIds
    BY TablesAreFunctions DEF Sound, TablesOK
  <2> QED
    BY <2>1, <2>2, IdBoundsAssumption DEF ColIds, ReqIds
<1> HIDE DEF c
<1>3. g \in Job /\ g.pc = "checkRequest" /\ g.user = u /\ g.req = r /\ g.made = {}
  BY <1>2 DEF Idle, Job, Owner
<1> HIDE DEF g
<1>4. job \in [Jobs -> Job]
  BY DEF Sound
<1>5. job'[j] = g /\ job' = [job EXCEPT ![j] = job'[j]]
  BY <1>1, <1>4
<1>6. u \notin Admins => Holds(job[j])'
  BY <1>1, <1>3, <1>5 DEF Holds, Imports
<1>7. Safe(j)' /\ StandsAlone(j)'
  BY <1>3, <1>5, <1>6 DEF Safe, StandsAlone
<1> QED
  BY <1>1, <1>3, <1>5, <1>7, ReadingStep

\* folderOf: a folder of the user's collection is below the user's collection.
LEMMA FindFolderKeeps ==
    ASSUME Sound, NEW j \in Jobs, NEW f \in 0 .. MaxFolder, FindFolder(j, f)
    PROVE  Sound'
<1> DEFINE g == [job[j] EXCEPT !.pc = "deleteFolder", !.folder = f, !.col = 0]
<1>1. job[j] \in Job /\ job \in [Jobs -> Job] /\ Safe(j) /\ TreeSound
  BY DEF Sound
<1>2. /\ job[j].pc = "findFolder" /\ UNCHANGED <<alive, cols, folders, reqs>>
      /\ f \in DOMAIN folders /\ folders[f].col = job[j].col
  BY DEF FindFolder, At
<1>3. job' = [job EXCEPT ![j] = g]
  BY <1>1 DEF FindFolder, Job
<1>4. /\ g \in Job /\ g.pc = "deleteFolder" /\ g.folder = f /\ g.col = 0
      /\ g.user = job[j].user /\ g.made = job[j].made /\ g.raced = job[j].raced
  <2>1. 0 \in 0 .. MaxCol
    BY IdBoundsAssumption
  <2> QED
    BY <1>1, <2>1 DEF Job
<1> HIDE DEF g
<1>5. job'[j] = g /\ job' = [job EXCEPT ![j] = job'[j]]
  BY <1>1, <1>3
<1>6. 0 \notin DOMAIN cols /\ job[j].made = {}
  <2>1. DOMAIN cols \subseteq ColIds
    BY TablesAreFunctions DEF Sound, TablesOK
  <2> QED
    BY <1>1, <1>2, <2>1 DEF ColIds, Safe, Imports
<1>7. ASSUME ~ job[j].raced, job[j].user \in alive \ Admins PROVE Holds(job[j])'
  <2>1. Holds(job[j]) /\ job[j].col \in DOMAIN cols
    BY <1>1, <1>2, <1>7 DEF Safe, TreeSound
  <2>2. cols[folders[f].col].owner = job[j].user
    BY <1>2, <2>1 DEF Holds
  <2> QED
    BY <1>2, <1>4, <1>5, <1>6, <2>2 DEF Holds
<1>8. Safe(j)' /\ StandsAlone(j)'
  BY <1>2, <1>4, <1>5, <1>6, <1>7 DEF Safe, StandsAlone
<1> QED
  BY <1>2, <1>4, <1>5, <1>8, ReadingStep

\* CanManageRequest: the user goes on with a request and a collection of theirs.
LEMMA CheckRequestKeeps ==
    ASSUME Sound, NEW j \in Jobs, CheckRequest(j)
    PROVE  Sound'
<1> DEFINE g == [job[j] EXCEPT !.pc = "checkTarget"]
<1>1. job[j] \in Job /\ job \in [Jobs -> Job] /\ Safe(j)
  BY DEF Sound
<1>2. /\ job[j].pc = "checkRequest" /\ UNCHANGED <<alive, cols, folders, reqs>>
      /\ job[j].user \in Admins \/ cols[job[j].col].owner = job[j].user
      /\ job' = [job EXCEPT ![j] = g]
  BY DEF CheckRequest, At, CanManage, IsAdmin
<1>3. /\ g \in Job /\ g.pc = "checkTarget" /\ g.col = job[j].col /\ g.req = job[j].req
      /\ g.user = job[j].user /\ g.made = job[j].made /\ g.raced = job[j].raced
  BY <1>1 DEF Job
<1> HIDE DEF g
<1>4. job'[j] = g /\ job' = [job EXCEPT ![j] = job'[j]] /\ job[j].made = {}
  BY <1>1, <1>2 DEF Safe, Imports
<1>5. ASSUME ~ job[j].raced, job[j].user \in alive \ Admins PROVE Holds(job[j])'
  <2>1. job[j].req \in DOMAIN reqs => reqs[job[j].req].owner = job[j].user
    BY <1>1, <1>2, <1>5 DEF Safe, Holds
  <2> QED
    BY <1>2, <1>3, <1>4, <1>5, <2>1 DEF Holds
<1>6. Safe(j)' /\ StandsAlone(j)'
  BY <1>2, <1>3, <1>4, <1>5 DEF Safe, StandsAlone
<1> QED
  BY <1>2, <1>3, <1>4, <1>6, ReadingStep

\* The target collection is the request's own, which is the user's, or one the
\* user can view.
LEMMA CheckTargetKeeps ==
    ASSUME Sound, NEW j \in Jobs, NEW c \in ColIds, CheckTarget(j, c)
    PROVE  Sound'
<1> DEFINE g == [job[j] EXCEPT !.pc = "checkFolder", !.col = c]
<1>1. job[j] \in Job /\ job \in [Jobs -> Job] /\ Safe(j)
  BY DEF Sound
<1>2. /\ job[j].pc = "checkTarget" /\ UNCHANGED <<alive, cols, folders, reqs>>
      /\ c = job[j].col \/ job[j].user \in Admins \/ cols[c].owner \in {Nobody, job[j].user}
  BY DEF CheckTarget, At, CanView, IsAdmin
<1>3. job' = [job EXCEPT ![j] = g]
  BY <1>1 DEF CheckTarget, Job
<1>4. /\ g \in Job /\ g.pc = "checkFolder" /\ g.col = c /\ g.req = job[j].req
      /\ g.user = job[j].user /\ g.made = job[j].made /\ g.raced = job[j].raced
  <2>1. c \in 0 .. MaxCol
    BY IdBoundsAssumption DEF ColIds
  <2> QED
    BY <1>1, <2>1 DEF Job
<1> HIDE DEF g
<1>5. job'[j] = g /\ job' = [job EXCEPT ![j] = job'[j]] /\ job[j].made = {}
  BY <1>1, <1>2, <1>3 DEF Safe, Imports
<1>6. ASSUME ~ job[j].raced, job[j].user \in alive \ Admins PROVE Holds(job[j])'
  <2>1. /\ job[j].req \in DOMAIN reqs => reqs[job[j].req].owner = job[j].user
        /\ job[j].col \in DOMAIN cols => cols[job[j].col].owner = job[j].user
    BY <1>1, <1>2, <1>6 DEF Safe, Holds
  <2>2. c \in DOMAIN cols => cols[c].owner \in {Nobody, job[j].user}
    BY <1>2, <1>6, <2>1
  <2> QED
    BY <1>2, <1>4, <1>5, <2>1, <2>2 DEF Holds, Imports
<1>7. Safe(j)' /\ StandsAlone(j)'
  BY <1>2, <1>4, <1>5, <1>6 DEF Safe, StandsAlone
<1> QED
  BY <1>2, <1>4, <1>5, <1>7, ReadingStep

LEMMA CheckFolderKeeps ==
    ASSUME Sound, NEW j \in Jobs, NEW f \in 0 .. MaxFolder, CheckFolder(j, f)
    PROVE  Sound'
<1> DEFINE g == [job[j] EXCEPT !.pc = "update", !.folder = f]
<1>1. job[j] \in Job /\ job \in [Jobs -> Job] /\ Safe(j)
  BY DEF Sound
<1>2. job[j].pc = "checkFolder" /\ UNCHANGED <<alive, cols, folders, reqs>>
  BY DEF CheckFolder, At
<1>3. job' = [job EXCEPT ![j] = g]
  BY <1>1 DEF CheckFolder, Job
<1>4. /\ g \in Job /\ g.pc = "update" /\ g.col = job[j].col /\ g.req = job[j].req
      /\ g.user = job[j].user /\ g.made = job[j].made /\ g.raced = job[j].raced
  BY <1>1 DEF Job
<1> HIDE DEF g
<1>5. job'[j] = g /\ job' = [job EXCEPT ![j] = job'[j]] /\ job[j].made = {}
  BY <1>1, <1>2, <1>3 DEF Safe, Imports
<1>6. ASSUME ~ job[j].raced, job[j].user \in alive \ Admins PROVE Holds(job[j])'
  <2>1. /\ job[j].req \in DOMAIN reqs => reqs[job[j].req].owner = job[j].user
        /\ job[j].col \in DOMAIN cols => cols[job[j].col].owner \in {Nobody, job[j].user}
    BY <1>1, <1>2, <1>6 DEF Safe, Holds
  <2> QED
    BY <1>2, <1>4, <1>5, <2>1 DEF Holds, Imports
<1>7. Safe(j)' /\ StandsAlone(j)'
  BY <1>2, <1>4, <1>5, <1>6 DEF Safe, StandsAlone
<1> QED
  BY <1>2, <1>4, <1>5, <1>7, ReadingStep

\* A handler's last statement, when it is not an INSERT.
LEMMA LastStep ==
    ASSUME Sound, TablesOK', TreeSound', RowsStay, UNCHANGED alive, NEW j \in Jobs, Finish(j),
           DOMAIN cols' \subseteq DOMAIN cols, DOMAIN folders' \subseteq DOMAIN folders,
           DOMAIN reqs' \subseteq DOMAIN reqs
    PROVE  Sound'
<1>1. job \in [Jobs -> Job]
  BY DEF Sound
<1>2. /\ job' = [i \in Jobs |-> job'[i]] /\ job'[j] = Idle
      /\ \A i \in Jobs \ {j} : job'[i] = job[i]
  BY <1>1 DEF Finish
<1>3. job'[j] \in Job /\ Safe(j)' /\ StandsAlone(j)'
  BY <1>2, IdleIsSafe
<1> DEFINE A == {j}
<1>4. \A i \in A : job'[i] \in Job /\ Safe(i)' /\ StandsAlone(i)'
  BY <1>3
<1> HIDE DEF A
<1>5. \A i \in Jobs \ A : Bystander(i)
  BY <1>1, <1>2, OthersStandBy DEF A
<1> QED
  BY <1>2, <1>4, <1>5, SoundStep

LEMMA GiveUpKeeps ==
    ASSUME Sound, NEW j \in Jobs, GiveUp(j) PROVE Sound'
<1>1. Finish(j) /\ UNCHANGED <<alive, cols, folders, reqs>>
  BY DEF GiveUp
<1>2. TablesOK' /\ TreeSound' /\ RowsStay
  BY <1>1 DEF Sound, TablesOK, TreeSound, RowsStay
<1> QED
  BY <1>1, <1>2, LastStep

LEMMA DeletesKeep ==
    ASSUME Sound, NEW j \in Jobs, DeleteCollection(j) \/ DeleteFolder(j) PROVE Sound'
<1>1. TablesOK /\ TreeSound
  BY DEF Sound
<1>2. CASE DeleteCollection(j)
  <2>1. DropCollection(job[j].col) /\ Finish(j) /\ UNCHANGED alive
    BY <1>2 DEF DeleteCollection
  <2>2. /\ TablesOK' /\ TreeSound' /\ RowsStay /\ DOMAIN cols' = DOMAIN cols \ {job[j].col}
        /\ DOMAIN folders' \subseteq DOMAIN folders /\ DOMAIN reqs' \subseteq DOMAIN reqs
    BY <1>1, <2>1, DroppingACollection
  <2> QED
    BY <2>1, <2>2, LastStep
<1>3. CASE DeleteFolder(j)
  <2>1. DropFolder(job[j].folder) /\ Finish(j) /\ UNCHANGED <<alive, cols>>
    BY <1>3 DEF DeleteFolder, DropFolder
  <2>2. /\ TablesOK' /\ TreeSound' /\ RowsStay
        /\ DOMAIN folders' \subseteq DOMAIN folders /\ DOMAIN reqs' = DOMAIN reqs
    BY <1>1, <2>1, DroppingAFolder
  <2> QED
    BY <2>1, <2>2, LastStep
<1> QED
  BY <1>2, <1>3

LEMMA UpdateRequestKeeps ==
    ASSUME Sound, NEW j \in Jobs, UpdateRequest(j) PROVE Sound'
<1>1. TablesOK /\ TreeSound
  BY DEF Sound
<1> DEFINE r == job[j].req
           c == job[j].col
           f == job[j].folder
<1>2. /\ r \in DOMAIN reqs /\ c \in DOMAIN cols /\ f \in {0} \cup DOMAIN folders
      /\ reqs' = [reqs EXCEPT ![r].col = c, ![r].folder = f]
      /\ Finish(j) /\ UNCHANGED <<alive, cols, folders>>
  BY DEF UpdateRequest
<1> HIDE DEF r, c, f
<1>3. TablesOK' /\ TreeSound' /\ RowsStay /\ DOMAIN reqs' = DOMAIN reqs
  BY <1>1, <1>2, MovingARequest
<1> QED
  BY <1>2, <1>3, LastStep

\* A handler's INSERT.
LEMMA InsertingStep ==
    ASSUME Sound, TablesOK', TreeSound', RowsStay, UNCHANGED alive, NEW j \in Jobs, NEW next,
           NEW key \in {"col", "folder", "req"}, NEW id, job' = Racing(j, next, key, id),
           DOMAIN cols' \subseteq DOMAIN cols \cup (IF key = "col" THEN {id} ELSE {}),
           DOMAIN folders' \subseteq DOMAIN folders \cup (IF key = "folder" THEN {id} ELSE {}),
           DOMAIN reqs' \subseteq DOMAIN reqs \cup (IF key = "req" THEN {id} ELSE {}),
           job'[j] \in Job, Safe(j)', StandsAlone(j)'
    PROVE  Sound'
<1>1. job \in [Jobs -> Job]
  BY DEF Sound
<1>2. /\ job' = [i \in Jobs |-> job'[i]]
      /\ \A i \in Jobs \ {j} : job'[i] = Raced(key, id)[i]
  BY DEF Racing, Raced
<1> DEFINE A == {j}
<1>3. \A i \in A : job'[i] \in Job /\ Safe(i)' /\ StandsAlone(i)'
  OBVIOUS
<1>4. \A i \in Jobs \ A : job'[i] = Raced(key, id)[i]
  BY <1>2
<1> HIDE DEF A
<1>5. \A i \in Jobs \ A : Bystander(i)
  BY <1>1, <1>4, OthersAreMarked
<1> QED
  BY <1>2, <1>3, <1>5, SoundStep

LEMMA RacingMovesOn ==
    ASSUME NEW j \in Jobs, NEW next, NEW key, NEW id
    PROVE  Racing(j, next, key, id)[j] = next
  BY DEF Racing, Raced

LEMMA CreateCollectionKeeps ==
    ASSUME Sound, NEW u \in Users, NEW owner \in Owner, CreateCollection(u, owner)
    PROVE  Sound'
<1> DEFINE id == NewId(cols)
<1>1. /\ TablesOK /\ TreeSound /\ job \in [Jobs -> Job]
      /\ owner \in (alive \cup {Nobody}) \cap Owner /\ NewId(cols) <= MaxCol
      /\ cols' = Put(cols, NewId(cols), [owner |-> owner])
      /\ job' = Raced("col", id) /\ UNCHANGED <<alive, folders, reqs>>
  BY DEF Sound, CreateCollection
<1>2. TablesOK' /\ TreeSound' /\ RowsStay /\ DOMAIN cols' = DOMAIN cols \cup {id}
  BY <1>1, AddingACollection
<1> HIDE DEF id
<1> DEFINE A == {}
<1>3. /\ job' = [i \in Jobs |-> job'[i]] /\ \A i \in Jobs \ A : job'[i] = Raced("col", id)[i]
      /\ \A i \in A : job'[i] \in Job /\ Safe(i)' /\ StandsAlone(i)'
  BY <1>1 DEF Raced
<1> HIDE DEF A
<1>4. \A i \in Jobs \ A : Bystander(i)
  BY <1>1, <1>2, <1>3, OthersAreMarked
<1> QED
  BY <1>1, <1>2, <1>3, <1>4, SoundStep

LEMMA CreateFolderKeeps ==
    ASSUME Sound, NEW j \in Jobs, NEW parent \in 0 .. MaxFolder, CreateFolder(j, parent)
    PROVE  Sound'
<1> DEFINE id == NewId(folders)
           c == job[j].col
<1>1. /\ TablesOK /\ TreeSound /\ c \in DOMAIN cols /\ parent \in {0} \cup DOMAIN folders
      /\ NewId(folders) <= MaxFolder
      /\ folders' = Put(folders, NewId(folders), [col |-> c, parent |-> parent])
      /\ job' = Racing(j, Idle, "folder", id) /\ UNCHANGED <<alive, cols, reqs>>
  BY DEF Sound, CreateFolder
<1> HIDE DEF c
<1>2. TablesOK' /\ TreeSound' /\ RowsStay /\ DOMAIN folders' = DOMAIN folders \cup {id}
  BY <1>1, AddingAFolder
<1> HIDE DEF id
<1>3. job'[j] = Idle
  BY <1>1, RacingMovesOn
<1>4. job'[j] \in Job /\ Safe(j)' /\ StandsAlone(j)'
  BY <1>3, IdleIsSafe
<1> QED
  BY <1>1, <1>2, <1>4, InsertingStep

LEMMA CreateRequestKeeps ==
    ASSUME Sound, NEW j \in Jobs, NEW f \in 0 .. MaxFolder, CreateRequest(j, f)
    PROVE  Sound'
<1> DEFINE id == NewId(reqs)
           c == job[j].col
           owner == IF IsAdmin(job[j].user) THEN Nobody ELSE job[j].user
<1>1. /\ TablesOK /\ TreeSound /\ c \in DOMAIN cols /\ f \in {0} \cup DOMAIN folders
      /\ owner \in alive \cup {Nobody} /\ NewId(reqs) <= MaxReq
      /\ reqs' = Put(reqs, NewId(reqs), [col |-> c, folder |-> f, owner |-> owner])
      /\ job' = Racing(j, Idle, "req", id) /\ UNCHANGED <<alive, cols, folders>>
  BY DEF Sound, CreateRequest
<1> HIDE DEF c, owner
<1>2. owner \in (alive \cup {Nobody}) \cap Owner
  BY <1>1 DEF TablesOK, Owner
<1>3. TablesOK' /\ TreeSound' /\ RowsStay /\ DOMAIN reqs' = DOMAIN reqs \cup {id}
  BY <1>1, <1>2, AddingARequest
<1> HIDE DEF id
<1>4. job'[j] = Idle
  BY <1>1, RacingMovesOn
<1>5. job'[j] \in Job /\ Safe(j)' /\ StandsAlone(j)'
  BY <1>4, IdleIsSafe
<1> QED
  BY <1>1, <1>3, <1>5, InsertingStep

\* The collection of an import is its owner's.
LEMMA BeginImportKeeps ==
    ASSUME Sound, NEW j \in Jobs, job[j].pc = "idle", NEW u \in Users, NEW owner \in Owner,
           BeginImport(j, u, owner)
    PROVE  Sound'
<1> DEFINE id == NewId(cols)
           next == [Idle EXCEPT !.pc = "importFolders", !.user = owner, !.col = id]
<1>1. /\ TablesOK /\ TreeSound /\ owner \in (alive \cup {Nobody}) \cap Owner
      /\ NewId(cols) <= MaxCol
      /\ cols' = Put(cols, NewId(cols), [owner |-> owner])
      /\ job' = Racing(j, next, "col", id) /\ UNCHANGED <<alive, folders, reqs>>
  BY DEF Sound, BeginImport
<1>2. /\ TablesOK' /\ TreeSound' /\ RowsStay /\ id \in ColIds
      /\ DOMAIN cols' = DOMAIN cols \cup {id} /\ cols'[id].owner = owner
  BY <1>1, AddingACollection
<1> HIDE DEF id
<1>3. /\ next \in Job /\ next.pc = "importFolders" /\ next.user = owner /\ next.col = id
      /\ next.made = {}
  <2>1. id \in 0 .. MaxCol /\ 0 \in 0 .. MaxFolder /\ 0 \in 0 .. MaxReq
    BY <1>2, IdBoundsAssumption DEF ColIds
  <2> QED
    BY <2>1 DEF Idle, Job
<1> HIDE DEF next
<1>4. job'[j] = next
  BY <1>1, RacingMovesOn
<1>5. Holds(job[j])'
  BY <1>2, <1>3, <1>4 DEF Holds
<1>6. Safe(j)' /\ StandsAlone(j)'
  BY <1>3, <1>4, <1>5 DEF Safe, StandsAlone, Imports
<1> QED
  BY <1>1, <1>2, <1>3, <1>4, <1>6, InsertingStep

\* The new folder is in the import's collection, under a folder of the import.
LEMMA ImportFolderKeeps ==
    ASSUME Sound, NEW j \in Jobs, NEW parent \in 0 .. MaxFolder, ImportFolder(j, parent)
    PROVE  Sound'
<1> DEFINE id == NewId(folders)
           c == job[j].col
           next == [job[j] EXCEPT !.made = @ \cup {id}]
<1>1. /\ TablesOK /\ TreeSound /\ c \in DOMAIN cols
      /\ parent \in {0} \cup (job[j].made \cap DOMAIN folders)
      /\ NewId(folders) <= MaxFolder
      /\ folders' = Put(folders, NewId(folders), [col |-> c, parent |-> parent])
      /\ job' = Racing(j, next, "folder", id) /\ UNCHANGED <<alive, cols, reqs>>
      /\ job[j].pc = "importFolders"
      /\ job[j] \in Job /\ Safe(j) /\ StandsAlone(j)
  BY DEF Sound, ImportFolder, At
<1> HIDE DEF c
<1>2. /\ TablesOK' /\ TreeSound' /\ RowsStay
      /\ id \in FolderIds /\ DOMAIN folders' = DOMAIN folders \cup {id}
      /\ \A f \in DOMAIN folders : folders'[f] = folders[f]
      /\ folders'[id] = [col |-> c, parent |-> parent]
  BY <1>1, AddingAFolder
<1> HIDE DEF id
<1>3. /\ next \in Job /\ next.pc = "importFolders" /\ next.user = job[j].user /\ next.col = c
      /\ next.made = job[j].made \cup {id} /\ next.raced = job[j].raced
  BY <1>1, <1>2 DEF Job, c
<1> HIDE DEF next
<1>4. job'[j] = next
  BY <1>1, RacingMovesOn
<1>5. ASSUME ~ job[j].raced, job[j].user \in alive \ Admins PROVE Holds(job[j])'
  <2>1. cols[c].owner = job[j].user
    BY <1>1, <1>5 DEF Safe, Holds, Imports, c
  <2> QED
    BY <1>1, <1>3, <1>4, <2>1 DEF Holds
<1>6. Safe(j)'
  BY <1>1, <1>3, <1>4, <1>5 DEF Safe, Imports
<1>7. StandsAlone(j)'
  <2> SUFFICES ASSUME ~ next.raced, NEW f \in next.made \cap DOMAIN folders'
               PROVE  folders'[f].col = c /\ folders'[f].parent \in {0} \cup next.made
    BY <1>3, <1>4 DEF StandsAlone
  <2>1. CASE f = id
    BY <1>1, <1>2, <1>3, <2>1
  <2>2. CASE f # id
    BY <1>1, <1>2, <1>3, <2>2 DEF StandsAlone, c
  <2> QED
    BY <2>1, <2>2
<1> QED
  BY <1>1, <1>2, <1>3, <1>4, <1>6, <1>7, InsertingStep

LEMMA ImportRequestKeeps ==
    ASSUME Sound, NEW j \in Jobs, NEW f \in 0 .. MaxFolder, ImportRequest(j, f)
    PROVE  Sound'
<1> DEFINE id == NewId(reqs)
           c == job[j].col
           owner == job[j].user
           last == [job[j] EXCEPT !.pc = "importRequests"]
<1>1. /\ TablesOK /\ TreeSound /\ c \in DOMAIN cols
      /\ f \in {0} \cup (job[j].made \cap DOMAIN folders)
      /\ owner \in (alive \cup {Nobody}) \cap Owner /\ NewId(reqs) <= MaxReq
      /\ reqs' = Put(reqs, NewId(reqs), [col |-> c, folder |-> f, owner |-> owner])
      /\ UNCHANGED <<alive, cols, folders>>
      /\ job[j].pc \in Imports /\ job[j] \in Job /\ Safe(j) /\ StandsAlone(j)
  BY DEF Sound, ImportRequest, TablesOK, Owner
<1>2. PICK next \in {Idle, last} : job' = Racing(j, next, "req", id)
  BY DEF ImportRequest
<1> HIDE DEF c, owner
<1>3. TablesOK' /\ TreeSound' /\ RowsStay /\ DOMAIN reqs' = DOMAIN reqs \cup {id}
  BY <1>1, AddingARequest
<1> HIDE DEF id
<1>4. job'[j] = next
  BY <1>2, RacingMovesOn
<1>5. ASSUME next = last PROVE job'[j] \in Job /\ Safe(j)' /\ StandsAlone(j)'
  <2>1. /\ last \in Job /\ last.pc \in Imports /\ last.user = owner /\ last.col = c
        /\ last.pc = "importRequests"
        /\ last.made = job[j].made /\ last.raced = job[j].raced
    BY <1>1 DEF Job, Imports, c, owner
  <2> HIDE DEF last
  <2>2. ASSUME ~ job[j].raced, job[j].user \in alive \ Admins PROVE Holds(job[j])'
    <3>1. cols[c].owner = owner
      BY <1>1, <2>2 DEF Safe, Holds, Imports, c, owner
    <3> QED
      BY <1>1, <1>4, <1>5, <2>1, <3>1 DEF Holds
  <2>3. Safe(j)'
    BY <1>1, <1>4, <1>5, <2>1, <2>2 DEF Safe, owner
  <2>4. StandsAlone(j)'
    BY <1>1, <1>4, <1>5, <2>1 DEF StandsAlone, c
  <2> QED
    BY <1>4, <1>5, <2>1, <2>3, <2>4
<1>6. job'[j] \in Job /\ Safe(j)' /\ StandsAlone(j)'
  <2>1. CASE next = Idle
    BY <1>4, <2>1, IdleIsSafe
  <2>2. CASE next = last
    BY <1>5, <2>2
  <2> QED
    BY <2>1, <2>2
<1> QED
  BY <1>1, <1>2, <1>3, <1>6, InsertingStep

LEMMA DeleteRequestKeeps ==
    ASSUME Sound, NEW u \in Users, NEW r \in ReqIds, DeleteRequest(u, r) PROVE Sound'
<1>1. /\ TablesOK /\ TreeSound /\ job \in [Jobs -> Job]
      /\ reqs' = Without(reqs, {r}) /\ UNCHANGED <<alive, cols, folders, job>>
  BY DEF Sound, DeleteRequest
<1>2. TablesOK' /\ TreeSound' /\ RowsStay /\ DOMAIN reqs' \subseteq DOMAIN reqs
  BY <1>1, DroppingARequest
<1> DEFINE A == {}
<1>3. /\ job' = [i \in Jobs |-> job'[i]] /\ \A i \in Jobs \ A : job'[i] = job[i]
      /\ \A i \in A : job'[i] \in Job /\ Safe(i)' /\ StandsAlone(i)'
  BY <1>1
<1> HIDE DEF A
<1>4. \A i \in Jobs \ A : Bystander(i)
  BY <1>1, <1>2, <1>3, OthersStandBy
<1> QED
  BY <1>1, <1>2, <1>3, <1>4, SoundStep

\* A handler of somebody else is not affected by the rows of u that become nobody's.
LEMMA DeleteUserKeeps ==
    ASSUME Sound, NEW u \in Users, DeleteUser(u) PROVE Sound'
<1>1. /\ TablesOK /\ TreeSound /\ job \in [Jobs -> Job]
      /\ alive' = alive \ {u} /\ UNCHANGED <<folders, job>>
  BY DEF Sound, DeleteUser
<1>2. /\ TablesOK' /\ TreeSound'
      /\ DOMAIN cols' = DOMAIN cols /\ DOMAIN reqs' = DOMAIN reqs
      /\ \A c \in DOMAIN cols : cols[c].owner # u => cols'[c] = cols[c]
      /\ \A r \in DOMAIN reqs : reqs[r].owner # u => reqs'[r] = reqs[r]
  BY <1>1, OrphaningRows
<1>3. ASSUME NEW i \in Jobs, ~ job[i].raced, job[i].user \in alive' \ Admins
      PROVE  Holds(job[i])'
  <2>1. Holds(job[i]) /\ job[i].user # u /\ u # Nobody
    BY <1>1, <1>3, UsersAssumption DEF Sound, Safe
  <2> DEFINE c == job[i].col
             f == job[i].folder
             r == job[i].req
             d == folders[f].col
  <2>2. c \in DOMAIN cols' =>
           /\ job[i].pc \in {"deleteCollection", "createFolder", "findFolder", "checkTarget"} \cup Imports
                => cols'[c].owner = job[i].user
           /\ job[i].pc \in {"createRequest", "checkFolder", "update"}
                => cols'[c].owner \in {Nobody, job[i].user}
    BY <1>2, <2>1 DEF Holds
  <2>3. job[i].pc = "deleteFolder" /\ f \in DOMAIN folders' => cols'[d].owner = job[i].user
    <3> SUFFICES ASSUME job[i].pc = "deleteFolder", f \in DOMAIN folders
                 PROVE  cols'[d].owner = job[i].user
      BY <1>1
    <3>1. d \in DOMAIN cols /\ cols[d].owner = job[i].user
      BY <1>1, <2>1 DEF Holds, TreeSound
    <3> HIDE DEF d
    <3> QED
      BY <1>2, <2>1, <3>1
  <2>4. job[i].pc \in {"checkRequest", "checkTarget", "checkFolder", "update"} /\ r \in DOMAIN reqs'
           => reqs'[r].owner = job[i].user
    BY <1>2, <2>1 DEF Holds
  <2> QED
    BY <1>1, <2>2, <2>3, <2>4 DEF Holds, Imports
<1>4. \A i \in Jobs : Safe(i)'
  BY <1>1, <1>3 DEF Sound, Safe
<1>5. \A i \in Jobs : StandsAlone(i)'
  BY <1>1 DEF Sound, StandsAlone
<1> QED
  BY <1>1, <1>2, <1>4, <1>5 DEF Sound

-----------------------------------------------------------------------------
(* Two imports at once. *)

\* No two of them fill one collection or map one folder.
ImportsApart ==
    \A i \in Jobs : \A j \in Jobs \ {i} : ImportsUndisturbed(i) /\ ImportsUndisturbed(j) =>
        job[i].col # job[j].col /\ job[i].made \cap job[j].made = {}

\* Job i goes on with the import that it was at, if it is at one.
Kept(i) ==
    ImportsUndisturbed(i)' =>
        ImportsUndisturbed(i) /\ job'[i].col = job[i].col /\ job'[i].made = job[i].made

LEMMA KeptAreApart ==
    ASSUME ImportsApart, \A i \in Jobs : Kept(i)
    PROVE  ImportsApart'
  BY DEF ImportsApart, Kept

\* A job that is handed an INSERT's new id is marked; one that is not goes on.
LEMMA MarkedAreKept ==
    ASSUME job \in [Jobs -> Job], NEW key \in {"col", "folder", "req"}, NEW id, NEW i \in Jobs,
           job'[i] = Raced(key, id)[i]
    PROVE  /\ Kept(i)
           /\ ImportsUndisturbed(i)' =>
                 /\ key = "col" => job[i].col # id
                 /\ key = "folder" => id \notin job[i].made
<1>1. LET g == job'[i] IN
      /\ g.pc = job[i].pc /\ g.col = job[i].col /\ g.made = job[i].made
      /\ job[i].raced => g.raced
      /\ Watched(i) /\ ~ g.raced =>
            /\ key = "col" => job[i].col # id
            /\ key = "folder" => job[i].folder # id /\ id \notin job[i].made
  BY RacedOnlyMarks
<1>2. ImportsUndisturbed(i)' => Watched(i)
  BY <1>1 DEF ImportsUndisturbed, Watched, Imports
<1> QED
  BY <1>1, <1>2 DEF Kept, ImportsUndisturbed

\* A job that a step takes out of an import, or to a handler that is none.
LEMMA LeavingIsKept ==
    ASSUME job \in [Jobs -> Job], ImportsApart, NEW j \in Jobs, NEW next,
           next.pc \notin Imports,
           \/ job' = [job EXCEPT ![j] = next]
           \/ \E key \in {"col", "folder", "req"} : \E id : job' = Racing(j, next, key, id)
    PROVE  ImportsApart'
<1>1. CASE job' = [job EXCEPT ![j] = next]
  <2>1. \A i \in Jobs : Kept(i)
    BY <1>1 DEF Kept, ImportsUndisturbed
  <2> QED
    BY <2>1, KeptAreApart
<1>2. ASSUME NEW key \in {"col", "folder", "req"}, NEW id, job' = Racing(j, next, key, id)
      PROVE  ImportsApart'
  <2>1. job'[j] = next /\ \A i \in Jobs \ {j} : job'[i] = Raced(key, id)[i]
    BY <1>2, RacingMovesOn DEF Racing, Raced
  <2>2. Kept(j)
    BY <2>1 DEF Kept, ImportsUndisturbed
  <2>3. \A i \in Jobs \ {j} : Kept(i)
    BY <2>1, MarkedAreKept
  <2> QED
    BY <2>2, <2>3, KeptAreApart
<1> QED
  BY <1>1, <1>2

\* The import that begins has made nothing, in a collection that nobody fills.
LEMMA BeginningApart ==
    ASSUME Sound, ImportsApart, NEW j \in Jobs, NEW u \in Users, NEW owner \in Owner,
           BeginImport(j, u, owner)
    PROVE  ImportsApart'
<1> DEFINE id == NewId(cols)
           next == [Idle EXCEPT !.pc = "importFolders", !.user = owner, !.col = id]
<1>1. job \in [Jobs -> Job] /\ job' = Racing(j, next, "col", id)
  BY DEF Sound, BeginImport
<1>2. next.col = id /\ next.made = {}
  BY DEF Idle
<1> HIDE DEF id, next
<1>3. job'[j] = next /\ \A i \in Jobs \ {j} : job'[i] = Raced("col", id)[i]
  BY <1>1, RacingMovesOn DEF Racing, Raced
<1>4. \A i \in Jobs \ {j} : Kept(i) /\ (ImportsUndisturbed(i)' => job[i].col # id)
  BY <1>1, <1>3, MarkedAreKept
<1> QED
  BY <1>2, <1>3, <1>4 DEF ImportsApart, Kept

\* The folder that an import makes is in no other import's map.
LEMMA MakingApart ==
    ASSUME Sound, ImportsApart, NEW j \in Jobs, NEW parent, ImportFolder(j, parent)
    PROVE  ImportsApart'
<1> DEFINE id == NewId(folders)
           next == [job[j] EXCEPT !.made = @ \cup {id}]
<1>1. /\ job \in [Jobs -> Job] /\ job' = Racing(j, next, "folder", id)
      /\ job[j].pc \in Imports
  BY DEF Sound, ImportFolder, At, Imports
<1>2. next.col = job[j].col /\ next.made = job[j].made \cup {id} /\ next.raced = job[j].raced
  BY <1>1 DEF Job
<1> HIDE DEF id, next
<1>3. job'[j] = next /\ \A i \in Jobs \ {j} : job'[i] = Raced("folder", id)[i]
  BY <1>1, RacingMovesOn DEF Racing, Raced
<1>4. ImportsUndisturbed(j)' => ImportsUndisturbed(j)
  BY <1>1, <1>2, <1>3 DEF ImportsUndisturbed
<1>5. \A i \in Jobs \ {j} : Kept(i) /\ (ImportsUndisturbed(i)' => id \notin job[i].made)
  BY <1>1, <1>3, MarkedAreKept
<1> QED
  BY <1>2, <1>3, <1>4, <1>5 DEF ImportsApart, Kept

\* A request, and the end of an import.
LEMMA FillingApart ==
    ASSUME Sound, ImportsApart, NEW j \in Jobs, NEW folder, ImportRequest(j, folder)
    PROVE  ImportsApart'
<1> DEFINE id == NewId(reqs)
           last == [job[j] EXCEPT !.pc = "importRequests"]
<1>1. job \in [Jobs -> Job] /\ job[j].pc \in Imports
  BY DEF Sound, ImportRequest
<1>2. PICK next \in {Idle, last} : job' = Racing(j, next, "req", id)
  BY DEF ImportRequest
<1> HIDE DEF id
<1>3. job'[j] = next /\ \A i \in Jobs \ {j} : job'[i] = Raced("req", id)[i]
  BY <1>2, RacingMovesOn DEF Racing, Raced
<1>4. Kept(j)
  <2>1. CASE next = Idle
    BY <1>3, <2>1 DEF Kept, ImportsUndisturbed, Idle, Imports
  <2>2. CASE next = last
    <3>1. last.col = job[j].col /\ last.made = job[j].made /\ last.raced = job[j].raced
      BY <1>1 DEF Job
    <3> HIDE DEF last
    <3> QED
      BY <1>1, <1>3, <2>2, <3>1 DEF Kept, ImportsUndisturbed
  <2> QED
    BY <2>1, <2>2
<1>5. \A i \in Jobs \ {j} : Kept(i)
  BY <1>1, <1>3, MarkedAreKept
<1> QED
  BY <1>4, <1>5, KeptAreApart

\* Every step keeps two imports apart.
LEMMA ApartStays == Sound /\ ImportsApart /\ [Next]_vars => ImportsApart'
<1> SUFFICES ASSUME Sound, ImportsApart, [Next]_vars PROVE ImportsApart'
  OBVIOUS
<1>0. job \in [Jobs -> Job] /\ Idle.pc \notin Imports
  BY DEF Sound, Idle, Imports
<1>1. ASSUME NEW j \in Jobs, JobBegins(j) PROVE ImportsApart'
  <2>1. ASSUME NEW next, next.pc \notin Imports, Begin(j, next) PROVE ImportsApart'
    BY <1>0, <2>1, LeavingIsKept DEF Begin
  <2>2. ASSUME NEW u \in Users, NEW c \in ColIds,
               NEW pc \in {"deleteCollection", "createFolder", "findFolder"},
               BeginManage(j, u, c, pc)
        PROVE  ImportsApart'
    <3> DEFINE next == [Idle EXCEPT !.pc = pc, !.user = u, !.col = c]
    <3>1. next.pc \notin Imports
      BY DEF Idle, Imports
    <3>2. Begin(j, next)
      BY <2>2 DEF BeginManage
    <3> HIDE DEF next
    <3> QED
      BY <2>1, <3>1, <3>2
  <2>3. ASSUME NEW u \in Users, NEW c \in ColIds, BeginCreateRequest(j, u, c) PROVE ImportsApart'
    <3> DEFINE next == [Idle EXCEPT !.pc = "createRequest", !.user = u, !.col = c]
    <3>1. next.pc \notin Imports
      BY DEF Idle, Imports
    <3>2. Begin(j, next)
      BY <2>3 DEF BeginCreateRequest
    <3> HIDE DEF next
    <3> QED
      BY <2>1, <3>1, <3>2
  <2>4. ASSUME NEW u \in Users, NEW r \in ReqIds, BeginUpdate(j, u, r) PROVE ImportsApart'
    <3> DEFINE next == [Idle EXCEPT !.pc = "checkRequest", !.user = u, !.req = r,
                                    !.col = reqs[r].col]
    <3>1. next.pc \notin Imports
      BY DEF Idle, Imports
    <3>2. Begin(j, next)
      BY <2>4 DEF BeginUpdate
    <3> HIDE DEF next
    <3> QED
      BY <2>1, <3>1, <3>2
  <2>5. ASSUME NEW u \in Users, NEW owner \in Owner, BeginImport(j, u, owner) PROVE ImportsApart'
    BY <2>5, BeginningApart
  <2> QED
    BY <1>1, <2>2, <2>3, <2>4, <2>5 DEF JobBegins
<1>2. ASSUME NEW j \in Jobs, JobStep(j) PROVE ImportsApart'
  <2>1. CASE DeleteCollection(j) \/ DeleteFolder(j) \/ UpdateRequest(j) \/ GiveUp(j)
    <3>1. job' = [job EXCEPT ![j] = Idle]
      BY <2>1 DEF DeleteCollection, DeleteFolder, UpdateRequest, GiveUp, Finish
    <3> QED
      BY <1>0, <3>1, LeavingIsKept
  <2>2. ASSUME NEW f \in 0 .. MaxFolder, CreateFolder(j, f) \/ CreateRequest(j, f)
        PROVE  ImportsApart'
    <3>1. \/ job' = Racing(j, Idle, "folder", NewId(folders))
          \/ job' = Racing(j, Idle, "req", NewId(reqs))
      BY <2>2 DEF CreateFolder, CreateRequest
    <3> QED
      BY <1>0, <3>1, LeavingIsKept
  <2>3. ASSUME NEW f \in 0 .. MaxFolder, FindFolder(j, f) \/ CheckFolder(j, f)
        PROVE  ImportsApart'
    <3>1. \A i \in Jobs \ {j} : job'[i] = job[i]
      BY <1>0, <2>3 DEF FindFolder, CheckFolder
    <3>2. job'[j].pc \in {"deleteFolder", "update", "checkTarget", "checkFolder"}
      BY <1>0, <2>3 DEF FindFolder, CheckFolder, Job
    <3>3. \A i \in Jobs : Kept(i)
      BY <3>1, <3>2 DEF Kept, ImportsUndisturbed, Imports
    <3> QED
      BY <3>3, KeptAreApart
  <2>4. ASSUME CheckRequest(j) \/ \E c \in ColIds : CheckTarget(j, c) PROVE ImportsApart'
    <3>1. \A i \in Jobs \ {j} : job'[i] = job[i]
      BY <1>0, <2>4 DEF CheckRequest, CheckTarget
    <3>2. job'[j].pc \in {"deleteFolder", "update", "checkTarget", "checkFolder"}
      BY <1>0, <2>4 DEF CheckRequest, CheckTarget, Job
    <3>3. \A i \in Jobs : Kept(i)
      BY <3>1, <3>2 DEF Kept, ImportsUndisturbed, Imports
    <3> QED
      BY <3>3, KeptAreApart
  <2>5. ASSUME NEW f \in 0 .. MaxFolder, ImportFolder(j, f) \/ ImportRequest(j, f)
        PROVE  ImportsApart'
    BY <2>5, MakingApart, FillingApart
  <2> QED
    BY <1>2, <2>1, <2>2, <2>3, <2>4, <2>5 DEF JobStep
<1>3. ASSUME NEW u \in Users, NEW owner \in Owner, CreateCollection(u, owner) PROVE ImportsApart'
  <2>1. \A i \in Jobs : job'[i] = Raced("col", NewId(cols))[i]
    BY <1>3 DEF CreateCollection
  <2>2. \A i \in Jobs : Kept(i)
    BY <1>0, <2>1, MarkedAreKept
  <2> QED
    BY <2>2, KeptAreApart
<1>4. ASSUME \/ UNCHANGED vars
             \/ \E u \in Users : DeleteUser(u) \/ \E r \in ReqIds : DeleteRequest(u, r)
      PROVE  ImportsApart'
  <2>1. job' = job
    BY <1>4 DEF vars, DeleteUser, DeleteRequest
  <2>2. \A i \in Jobs : Kept(i)
    BY <2>1 DEF Kept, ImportsUndisturbed
  <2> QED
    BY <2>2, KeptAreApart
<1> QED
  BY <1>1, <1>2, <1>3, <1>4 DEF Next

-----------------------------------------------------------------------------
(* The invariants. *)

LEMMA SoundStays == Sound /\ [Next]_vars => Sound'
<1> SUFFICES ASSUME Sound, [Next]_vars PROVE Sound'
  OBVIOUS
<1>1. ASSUME NEW j \in Jobs, JobBegins(j) PROVE Sound'
  <2>1. PICK u \in Users :
          \/ \E c \in ColIds, pc \in {"deleteCollection", "createFolder", "findFolder"} :
                BeginManage(j, u, c, pc)
          \/ \E c \in ColIds : BeginCreateRequest(j, u, c)
          \/ \E r \in ReqIds : BeginUpdate(j, u, r)
          \/ \E owner \in Owner : BeginImport(j, u, owner)
    BY <1>1 DEF JobBegins
  <2>2. job[j].pc = "idle"
    BY <1>1 DEF JobBegins, At
  <2>3. CASE \E c \in ColIds, pc \in {"deleteCollection", "createFolder", "findFolder"} :
                BeginManage(j, u, c, pc)
    BY <2>3, BeginManageKeeps
  <2>4. CASE \E c \in ColIds : BeginCreateRequest(j, u, c)
    BY <2>4, BeginCreateRequestKeeps
  <2>5. CASE \E r \in ReqIds : BeginUpdate(j, u, r)
    BY <2>5, BeginUpdateKeeps
  <2>6. CASE \E owner \in Owner : BeginImport(j, u, owner)
    BY <2>2, <2>6, BeginImportKeeps
  <2> QED
    BY <2>1, <2>3, <2>4, <2>5, <2>6
<1>2. ASSUME NEW j \in Jobs, JobStep(j) PROVE Sound'
  <2>1. CASE DeleteCollection(j) \/ DeleteFolder(j)
    BY <2>1, DeletesKeep
  <2>2. ASSUME NEW f \in 0 .. MaxFolder,
               \/ CreateFolder(j, f) \/ FindFolder(j, f) \/ CreateRequest(j, f)
               \/ CheckFolder(j, f) \/ ImportFolder(j, f) \/ ImportRequest(j, f)
        PROVE  Sound'
    BY <2>2, CreateFolderKeeps, FindFolderKeeps, CreateRequestKeeps, CheckFolderKeeps,
       ImportFolderKeeps, ImportRequestKeeps
  <2>3. CASE CheckRequest(j)
    BY <2>3, CheckRequestKeeps
  <2>4. CASE \E c \in ColIds : CheckTarget(j, c)
    BY <2>4, CheckTargetKeeps
  <2>5. CASE UpdateRequest(j)
    BY <2>5, UpdateRequestKeeps
  <2>6. CASE GiveUp(j)
    BY <2>6, GiveUpKeeps
  <2> QED
    BY <1>2, <2>1, <2>2, <2>3, <2>4, <2>5, <2>6 DEF JobStep
<1>3. ASSUME NEW u \in Users, NEW owner \in Owner, CreateCollection(u, owner) PROVE Sound'
  BY <1>3, CreateCollectionKeeps
<1>4. ASSUME NEW u \in Users, DeleteUser(u) \/ \E r \in ReqIds : DeleteRequest(u, r) PROVE Sound'
  BY <1>4, DeleteUserKeeps, DeleteRequestKeeps
<1>5. CASE UNCHANGED vars
  BY <1>5 DEF vars, Sound, TablesOK, TreeSound, Safe, StandsAlone, Holds
<1> QED
  BY <1>1, <1>2, <1>3, <1>4, <1>5 DEF Next

LEMMA SoundInit == Init => Sound
<1> SUFFICES ASSUME Init PROVE Sound
  OBVIOUS
<1>1. alive = Users /\ cols = <<>> /\ folders = <<>> /\ reqs = <<>>
  BY DEF Init
<1>2. TablesOK
  BY <1>1, NoRowsAreATable DEF TablesOK
<1>3. TreeSound
  BY <1>1 DEF TreeSound
<1>4. Idle \in Job
  <2>1. 0 \in 0 .. MaxCol /\ 0 \in 0 .. MaxFolder /\ 0 \in 0 .. MaxReq
    BY IdBoundsAssumption
  <2> QED
    BY <2>1 DEF Idle, Job, Owner
<1>5. job \in [Jobs -> Job] /\ \A i \in Jobs : job[i] = Idle
  BY <1>4 DEF Init
<1>6. \A i \in Jobs : Safe(i) /\ StandsAlone(i)
  BY <1>5 DEF Safe, StandsAlone, Idle, Holds, Imports
<1> QED
  BY <1>2, <1>3, <1>5, <1>6 DEF Sound

LEMMA StoreIsSound == Spec => []Sound
  BY SoundInit, SoundStays, PTL DEF Spec

\* The foreign keys hold through every cascade, no folder is its own ancestor, and
\* what a handler has checked for an ordinary user stays so until it writes.
THEOREM StoreInvariance == Spec => []StoreInv
  BY StoreIsSound, SoundIsTheInvariants, PTL

\* An import is a copy of its document in a collection of its own, and imports that
\* run at once share neither a collection nor a folder, for any number of them.
THEOREM StoreImportsStandAlone == Spec => []ImportsStandAlone
<1>1. Init => ImportsApart
  <2> SUFFICES ASSUME Init PROVE ImportsApart
    OBVIOUS
  <2>1. \A i \in Jobs : ~ ImportsUndisturbed(i)
    BY DEF Init, Idle, ImportsUndisturbed, Imports
  <2> QED
    BY <2>1 DEF ImportsApart
<1>2. Sound /\ ImportsApart => ImportsStandAlone
  BY DEF Sound, ImportsApart, ImportsStandAlone, StandsAlone, ImportsUndisturbed
<1> QED
  BY <1>1, <1>2, StoreIsSound, ApartStays, PTL DEF Spec

-----------------------------------------------------------------------------
(* What a handler may write. *)

\* A step is one job's: the others stay where they are.
LEMMA OneJobMoves ==
    ASSUME Sound, NEW i \in Jobs, JobBegins(i) \/ JobStep(i), NEW j \in Jobs \ {i}
    PROVE  job'[j].pc = job[j].pc
<1>1. job \in [Jobs -> Job]
  BY DEF Sound
<1>2. ASSUME NEW next, NEW key \in {"col", "folder", "req"}, NEW id, job' = Racing(i, next, key, id)
      PROVE  job'[j].pc = job[j].pc
  <2>1. job'[j] = Raced(key, id)[j]
    BY <1>2 DEF Racing, Raced
  <2> QED
    BY <1>1, <2>1, RacedOnlyMarks
<1>3. ASSUME NEW next, job' = [job EXCEPT ![i] = next] PROVE job'[j].pc = job[j].pc
  BY <1>1, <1>3
<1>4. ASSUME NEW u \in Users, NEW owner \in Owner, BeginImport(i, u, owner)
      PROVE  job'[j].pc = job[j].pc
  BY <1>2, <1>4 DEF BeginImport
<1>5. ASSUME NEW u \in Users,
             \/ \E c \in ColIds, pc \in {"deleteCollection", "createFolder", "findFolder"} :
                   BeginManage(i, u, c, pc)
             \/ \E c \in ColIds : BeginCreateRequest(i, u, c)
             \/ \E r \in ReqIds : BeginUpdate(i, u, r)
      PROVE  job'[j].pc = job[j].pc
  BY <1>3, <1>5 DEF BeginManage, BeginCreateRequest, BeginUpdate, Begin
<1>6. ASSUME NEW f \in 0 .. MaxFolder,
             CreateFolder(i, f) \/ CreateRequest(i, f) \/ ImportFolder(i, f) \/ ImportRequest(i, f)
      PROVE  job'[j].pc = job[j].pc
  BY <1>2, <1>6 DEF CreateFolder, CreateRequest, ImportFolder, ImportRequest
<1>7. ASSUME NEW f \in 0 .. MaxFolder, FindFolder(i, f) \/ CheckFolder(i, f)
      PROVE  job'[j].pc = job[j].pc
  BY <1>1, <1>7 DEF FindFolder, CheckFolder
<1>8. ASSUME \/ DeleteCollection(i) \/ DeleteFolder(i) \/ UpdateRequest(i) \/ GiveUp(i)
      PROVE  job'[j].pc = job[j].pc
  BY <1>1, <1>8 DEF DeleteCollection, DeleteFolder, UpdateRequest, GiveUp, Finish
<1>9. ASSUME CheckRequest(i) \/ \E c \in ColIds : CheckTarget(i, c)
      PROVE  job'[j].pc = job[j].pc
  BY <1>1, <1>9 DEF CheckRequest, CheckTarget
<1>10. JobBegins(i) => job'[j].pc = job[j].pc
  BY <1>4, <1>5 DEF JobBegins
<1>11. JobStep(i) => job'[j].pc = job[j].pc
  BY <1>6, <1>7, <1>8, <1>9 DEF JobStep
<1> QED
  BY <1>10, <1>11

\* So the last statement of j's handler is j's, and one of these.
LEMMA WritesAreTheJobsOwn ==
    ASSUME Sound, [Next]_vars, NEW j \in Jobs, NEW u \in Users, Writes(j, u)
    PROVE  \/ GiveUp(j) \/ DeleteCollection(j) \/ DeleteFolder(j) \/ UpdateRequest(j)
           \/ \E f \in 0 .. MaxFolder : CreateFolder(j, f) \/ CreateRequest(j, f) \/ ImportRequest(j, f)
<1>1. job \in [Jobs -> Job]
  BY DEF Sound
<1>2. /\ job[j].pc # "idle" /\ job'[j].pc = "idle"
      /\ job[j].pc \notin {"findFolder", "checkRequest", "checkTarget", "checkFolder"}
  BY DEF Writes
<1>3. ASSUME NEW v \in Users, NEW owner \in Owner, CreateCollection(v, owner) PROVE FALSE
  <2>1. job'[j] = Raced("col", NewId(cols))[j]
    BY <1>3 DEF CreateCollection
  <2>2. job'[j].pc = job[j].pc
    BY <1>1, <2>1, RacedOnlyMarks
  <2> QED
    BY <1>2, <2>2
<1>4. ASSUME NEW v \in Users, DeleteUser(v) \/ \E r \in ReqIds : DeleteRequest(v, r) PROVE FALSE
  BY <1>2, <1>4 DEF DeleteUser, DeleteRequest
<1>5. ~ UNCHANGED vars
  BY <1>2 DEF vars
<1>6. PICK i \in Jobs : JobBegins(i) \/ JobStep(i)
  BY <1>3, <1>4, <1>5 DEF Next
<1>7. i = j /\ JobStep(j)
  <2>1. i = j
    BY <1>2, <1>6, OneJobMoves
  <2> QED
    BY <1>2, <1>6, <2>1 DEF JobBegins, At
<1>8. ASSUME NEW f \in 0 .. MaxFolder, ImportFolder(j, f) PROVE FALSE
  <2> DEFINE id == NewId(folders)
             next == [job[j] EXCEPT !.made = @ \cup {id}]
  <2>1. job' = Racing(j, next, "folder", id) /\ job[j].pc = "importFolders"
    BY <1>8 DEF ImportFolder, At
  <2> HIDE DEF id
  <2>2. next.pc = "importFolders"
    BY <1>1, <2>1 DEF Job
  <2> HIDE DEF next
  <2>3. job'[j] = next
    BY <2>1, RacingMovesOn
  <2> QED
    BY <1>2, <2>2, <2>3
<1>9. ASSUME NEW f \in 0 .. MaxFolder, FindFolder(j, f) \/ CheckFolder(j, f) PROVE FALSE
  BY <1>2, <1>9 DEF FindFolder, CheckFolder, At
<1>10. ~ CheckRequest(j) /\ ~ \E c \in ColIds : CheckTarget(j, c)
  BY <1>2 DEF CheckRequest, CheckTarget, At
<1> QED
  BY <1>7, <1>8, <1>9, <1>10 DEF JobStep

\* The INSERT of a request, by createRequest or by an import: it goes into a
\* collection that the user can view.
LEMMA NewRequestsAreSeen ==
    ASSUME Sound, NEW j \in Jobs, NEW u \in Users, Writes(j, u), NEW f \in 0 .. MaxFolder,
           CreateRequest(j, f) \/ ImportRequest(j, f)
    PROVE  /\ UNCHANGED <<cols, folders>>
           /\ \A r \in DOMAIN reqs : r \in DOMAIN reqs' /\ reqs'[r] = reqs[r]
           /\ \A r \in DOMAIN reqs' \ DOMAIN reqs :
                 cols[reqs'[r].col].owner \in {Nobody, u} /\ reqs'[r].owner \in {Nobody, u}
<1> DEFINE c == job[j].col
           owner == IF /\ job[j].pc \notin Imports
                       /\ IsAdmin(job[j].user) THEN Nobody ELSE job[j].user
<1>1. /\ TablesOK /\ TreeSound /\ Holds(job[j]) /\ job[j].user = u
  BY DEF Sound, Safe, Writes
<1>2. /\ c \in DOMAIN cols /\ f \in {0} \cup DOMAIN folders
      /\ owner \in alive \cup {Nobody} /\ NewId(reqs) <= MaxReq
      /\ reqs' = Put(reqs, NewId(reqs), [col |-> c, folder |-> f, owner |-> owner])
      /\ UNCHANGED <<alive, cols, folders>>
      /\ job[j].pc \in {"createRequest"} \cup Imports
  <2>1. CASE CreateRequest(j, f)
    <3>1. job[j].pc \notin Imports
      BY <2>1 DEF CreateRequest, At, Imports
    <3> QED
      BY <2>1, <3>1 DEF CreateRequest, At
  <2>2. CASE ImportRequest(j, f)
    BY <2>2 DEF ImportRequest
  <2> QED
    BY <2>1, <2>2
<1>3. owner \in {Nobody, u} /\ cols[c].owner \in {Nobody, u}
  BY <1>1, <1>2 DEF Holds, Imports
<1> HIDE DEF c, owner
<1>4. owner \in (alive \cup {Nobody}) \cap Owner
  BY <1>1, <1>2 DEF TablesOK, Owner
<1>5. /\ DOMAIN reqs' = DOMAIN reqs \cup {NewId(reqs)}
      /\ \A r \in DOMAIN reqs : reqs'[r] = reqs[r]
      /\ reqs'[NewId(reqs)] = [col |-> c, folder |-> f, owner |-> owner]
  BY <1>1, <1>2, <1>4, AddingARequest
<1> QED
  BY <1>2, <1>3, <1>5

\* The UPDATE of a request of the user's moves that request, and moves it into a
\* collection that the user can view.
LEMMA MovedRequestsAreSeen ==
    ASSUME Sound, NEW j \in Jobs, NEW u \in Users, Writes(j, u), UpdateRequest(j)
    PROVE  /\ UNCHANGED <<cols, folders>> /\ DOMAIN reqs' = DOMAIN reqs
           /\ \A r \in DOMAIN reqs :
                 \/ reqs'[r] = reqs[r]
                 \/ reqs[r].owner = u /\ cols[reqs'[r].col].owner \in {Nobody, u}
<1> DEFINE r == job[j].req
           c == job[j].col
           f == job[j].folder
<1>1. /\ TablesOK /\ TreeSound /\ Holds(job[j]) /\ job[j].user = u /\ job[j].pc = "update"
  BY DEF Sound, Safe, Writes, UpdateRequest, At
<1>2. /\ r \in DOMAIN reqs /\ c \in DOMAIN cols /\ f \in {0} \cup DOMAIN folders
      /\ reqs' = [reqs EXCEPT ![r].col = c, ![r].folder = f]
      /\ UNCHANGED <<alive, cols, folders>>
  BY DEF UpdateRequest
<1>3. reqs[r].owner = u /\ cols[c].owner \in {Nobody, u}
  BY <1>1, <1>2 DEF Holds
<1> HIDE DEF r, c, f
<1>4. /\ DOMAIN reqs' = DOMAIN reqs /\ reqs'[r].col = c
      /\ \A q \in DOMAIN reqs \ {r} : reqs'[q] = reqs[q]
  BY <1>1, <1>2, MovingARequest
<1> QED
  BY <1>2, <1>3, <1>4

\* A DELETE takes what is the user's, and what is below a folder in a collection of
\* the user's.
LEMMA DeletesStayHome ==
    ASSUME Sound, NEW j \in Jobs, NEW u \in Users, Writes(j, u),
           DeleteCollection(j) \/ DeleteFolder(j)
    PROVE  LET below == Subtree({f \in DOMAIN folders : Mine(u, folders[f].col)})
           IN  /\ \A c \in DOMAIN cols \ DOMAIN cols' : Mine(u, c)
               /\ DOMAIN folders \ DOMAIN folders' \subseteq below
               /\ \A r \in DOMAIN reqs :
                    \/ r \in DOMAIN reqs' /\ reqs'[r] = reqs[r]
                    \/ Mine(u, reqs[r].col)
                    \/ reqs[r].folder \in below
               /\ \A r \in DOMAIN reqs' : r \in DOMAIN reqs /\ reqs'[r].col = reqs[r].col
<1> DEFINE mine == {f \in DOMAIN folders : Mine(u, folders[f].col)}
<1>1. /\ TablesOK /\ TreeSound /\ Holds(job[j]) /\ job[j].user = u
  BY DEF Sound, Safe, Writes
<1>2. CASE DeleteCollection(j)
  <2> DEFINE c == job[j].col
             lost == {f \in DOMAIN folders : folders[f].col = c}
  <2>1. DropCollection(c) /\ UNCHANGED alive /\ job[j].pc = "deleteCollection"
    BY <1>2 DEF DeleteCollection, At
  <2>2. c \in DOMAIN cols => Mine(u, c)
    BY <1>1, <2>1 DEF Holds, Mine
  <2> HIDE DEF c
  <2>3. /\ DOMAIN cols' = DOMAIN cols \ {c}
        /\ DOMAIN folders \ DOMAIN folders' = Subtree(lost)
        /\ DOMAIN reqs' \subseteq DOMAIN reqs
        /\ \A r \in DOMAIN reqs :
              \/ r \in DOMAIN reqs' /\ reqs'[r] = reqs[r]
              \/ reqs[r].col = c
              \/ reqs[r].folder \in DOMAIN folders \ DOMAIN folders'
        /\ \A r \in DOMAIN reqs' : reqs'[r].col = reqs[r].col
    BY <1>1, <2>1, DroppingACollection
  <2>4. lost \subseteq mine /\ mine \subseteq DOMAIN folders
    BY <1>1, <2>2 DEF TreeSound
  <2>5. \A r \in DOMAIN reqs : reqs[r].col = c => Mine(u, reqs[r].col)
    BY <1>1, <2>2 DEF TreeSound
  <2> HIDE DEF lost, mine
  <2>6. Subtree(lost) \subseteq Subtree(mine)
    BY <2>4, SubtreesGrow
  <2> QED
    BY <2>2, <2>3, <2>5, <2>6 DEF mine
<1>3. CASE DeleteFolder(j)
  <2> DEFINE f == job[j].folder
             lost == {f} \cap DOMAIN folders
  <2>1. DropFolder(f) /\ UNCHANGED <<alive, cols>> /\ job[j].pc = "deleteFolder"
    BY <1>3 DEF DeleteFolder, DropFolder, At
  <2>2. f \in DOMAIN folders => Mine(u, folders[f].col)
    BY <1>1, <2>1 DEF Holds, Mine
  <2> HIDE DEF f
  <2>3. /\ DOMAIN folders \ DOMAIN folders' = Subtree(lost)
        /\ DOMAIN reqs' = DOMAIN reqs
        /\ \A r \in DOMAIN reqs :
              \/ reqs'[r] = reqs[r]
              \/ reqs[r].folder \in DOMAIN folders \ DOMAIN folders'
        /\ \A r \in DOMAIN reqs : reqs'[r].col = reqs[r].col
    BY <1>1, <2>1, DroppingAFolder
  <2>4. lost \subseteq mine /\ mine \subseteq DOMAIN folders
    BY <2>2
  <2> HIDE DEF lost, mine
  <2>5. Subtree(lost) \subseteq Subtree(mine)
    BY <2>4, SubtreesGrow
  <2> QED
    BY <2>1, <2>3, <2>5 DEF mine
<1> QED
  BY <1>2, <1>3

LEMMA WritesStayHome ==
    ASSUME Sound, [Next]_vars, NEW j \in Jobs, NEW u \in Users, Writes(j, u)
    PROVE  LET below == Subtree({f \in DOMAIN folders : Mine(u, folders[f].col)})
           IN  /\ \A c \in DOMAIN cols \ DOMAIN cols' : Mine(u, c)
               /\ DOMAIN folders \ DOMAIN folders' \subseteq below
               /\ \A r \in DOMAIN reqs :
                    \/ r \in DOMAIN reqs' /\ reqs'[r] = reqs[r]
                    \/ reqs[r].owner = u
                    \/ Mine(u, reqs[r].col)
                    \/ reqs[r].folder \in below
<1>1. CASE GiveUp(j)
  BY <1>1 DEF GiveUp
<1>2. CASE DeleteCollection(j) \/ DeleteFolder(j)
  BY <1>2, DeletesStayHome
<1>3. CASE UpdateRequest(j)
  BY <1>3, MovedRequestsAreSeen
<1>4. ASSUME NEW f \in 0 .. MaxFolder, CreateFolder(j, f)
      PROVE  UNCHANGED <<cols, reqs>> /\ DOMAIN folders \subseteq DOMAIN folders'
  BY <1>4 DEF CreateFolder, Put
<1>5. ASSUME NEW f \in 0 .. MaxFolder, CreateRequest(j, f) \/ ImportRequest(j, f)
      PROVE  /\ UNCHANGED <<cols, folders>>
             /\ \A r \in DOMAIN reqs : r \in DOMAIN reqs' /\ reqs'[r] = reqs[r]
  BY <1>5, NewRequestsAreSeen
<1> QED
  BY <1>1, <1>2, <1>3, <1>4, <1>5, WritesAreTheJobsOwn

LEMMA WritesKeepSight ==
    ASSUME Sound, [Next]_vars, NEW j \in Jobs, NEW u \in Users, Writes(j, u)
    PROVE  \A r \in DOMAIN reqs' :
              reqs'[r].owner = u /\ (r \in DOMAIN reqs => reqs'[r].col # reqs[r].col)
                  => CanUseRequest(u, reqs'[r], reqs'[r].col)
<1> SUFFICES ASSUME NEW r \in DOMAIN reqs', reqs'[r].owner = u,
                    r \in DOMAIN reqs => reqs'[r].col # reqs[r].col
             PROVE  cols[reqs'[r].col].owner \in {Nobody, u}
  BY DEF CanUseRequest, CanView
<1>1. CASE GiveUp(j)
  BY <1>1 DEF GiveUp
<1>2. CASE DeleteCollection(j) \/ DeleteFolder(j)
  BY <1>2, DeletesStayHome
<1>3. CASE UpdateRequest(j)
  BY <1>3, MovedRequestsAreSeen
<1>4. ASSUME NEW f \in 0 .. MaxFolder, CreateFolder(j, f) PROVE UNCHANGED reqs
  BY <1>4 DEF CreateFolder
<1>5. ASSUME NEW f \in 0 .. MaxFolder, CreateRequest(j, f) \/ ImportRequest(j, f)
      PROVE  cols[reqs'[r].col].owner \in {Nobody, u}
  BY <1>5, NewRequestsAreSeen
<1> QED
  BY <1>1, <1>2, <1>3, <1>4, <1>5, WritesAreTheJobsOwn

\* What a handler deletes or changes for an ordinary user is theirs, although it was
\* another statement that checked.
THEOREM StoreOrdinaryWritesStayHome == Spec => OrdinaryWritesStayHome
<1> DEFINE A == \A j \in Jobs, u \in Users : Writes(j, u) =>
                  LET below == Subtree({f \in DOMAIN folders : Mine(u, folders[f].col)})
                  IN  /\ \A c \in DOMAIN cols \ DOMAIN cols' : Mine(u, c)
                      /\ DOMAIN folders \ DOMAIN folders' \subseteq below
                      /\ \A r \in DOMAIN reqs :
                           \/ r \in DOMAIN reqs' /\ reqs'[r] = reqs[r]
                           \/ reqs[r].owner = u
                           \/ Mine(u, reqs[r].col)
                           \/ reqs[r].folder \in below
<1>1. Sound /\ [Next]_vars => A
  BY WritesStayHome
<1>2. Sound /\ [Next]_vars => [A]_vars
  BY <1>1
<1> QED
  BY <1>2, StoreIsSound, PTL DEF Spec, OrdinaryWritesStayHome

\* A handler of an ordinary user puts a request of theirs only where they go on seeing it.
THEOREM StoreOwnersKeepSight == Spec => OwnersKeepSight
<1> DEFINE A == \A j \in Jobs, u \in Users : Writes(j, u) =>
                  \A r \in DOMAIN reqs' :
                     reqs'[r].owner = u /\ (r \in DOMAIN reqs => reqs'[r].col # reqs[r].col)
                         => CanUseRequest(u, reqs'[r], reqs'[r].col)
<1>1. Sound /\ [Next]_vars => A
  BY WritesKeepSight
<1>2. Sound /\ [Next]_vars => [A]_vars
  BY <1>1
<1> QED
  BY <1>2, StoreIsSound, PTL DEF Spec, OwnersKeepSight
==============================================================================
