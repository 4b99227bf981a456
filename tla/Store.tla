------------------------------- MODULE Store -------------------------------
(***************************************************************************)
(* The collections, folders and requests tables with their foreign keys,   *)
(* the handlers that write them, and the rules (CanView, CanManage,        *)
(* CanUseRequest, CanManageRequest) that decide who may.  A SQL statement  *)
(* is a step; a handler checks in some statements and writes in its last   *)
(* one, with other handlers in between.  Names and contents of the rows    *)
(* are left out; the ids are not: SQLite gives the largest id in the table *)
(* plus one, so the id of a deleted row can come back.  An import writes   *)
(* row by row and leaves what it has written when it fails.                *)
(*                                                                         *)
(* The middleware's reads are folded into a handler's first statement.     *)
(***************************************************************************)
EXTENDS SqlTable

CONSTANTS
    Users,      \* accounts there are at the start
    Admins,     \* those whose role is admin
    Nobody,     \* a NULL owner
    Jobs,       \* goroutines serving a handler that checks before it writes
    Importing,  \* bound: the owners that imports are made for
    MaxCol,     \* bounds on the ids of the three tables
    MaxFolder,
    MaxReq

ASSUME UsersAssumption == Admins \subseteq Users /\ Nobody \notin Users
ASSUME ImportingAssumption == Importing \subseteq Users \cup {Nobody}
ASSUME IdBoundsAssumption == MaxCol \in Nat /\ MaxFolder \in Nat /\ MaxReq \in Nat

VARIABLES
    alive,      \* the ids in users
    cols,       \* the collections by id
    folders,    \* the folders by id; parent 0 is NULL
    reqs,       \* the requests by id; folder 0 is NULL
    job         \* job[j]: a handler between two of its statements

vars == <<alive, cols, folders, reqs, job>>

Owner == Users \cup {Nobody}
ColIds == 1 .. MaxCol
FolderIds == 1 .. MaxFolder
ReqIds == 1 .. MaxReq

Col == [owner : Owner]
Folder == [col : ColIds, parent : 0 .. MaxFolder]
Req == [col : ColIds, folder : 0 .. MaxFolder, owner : Owner]

\* user: the caller, or the owner of what an import makes; made: the folders an
\* import has made.
\* raced (history): an id that an import, or a handler for someone who is not an
\* administrator, has read or made was given to a new row since.
Job == [pc : {"idle", "deleteCollection", "createFolder", "findFolder", "deleteFolder",
              "createRequest", "checkRequest", "checkTarget", "checkFolder", "update",
              "importFolders", "importRequests"},
        user : Owner, col : 0 .. MaxCol, folder : 0 .. MaxFolder, req : 0 .. MaxReq,
        made : SUBSET FolderIds, raced : BOOLEAN]

Imports == {"importFolders", "importRequests"}

TypeOK ==
    /\ alive \in SUBSET Users
    /\ cols \in Table(ColIds, Col)
    /\ folders \in Table(FolderIds, Folder)
    /\ reqs \in Table(ReqIds, Req)
    /\ job \in [Jobs -> Job]

Idle == [pc |-> "idle", user |-> Nobody, col |-> 0, folder |-> 0, req |-> 0, made |-> {},
         raced |-> FALSE]

Init ==
    /\ alive = Users
    /\ cols = <<>> /\ folders = <<>> /\ reqs = <<>>
    /\ job = [j \in Jobs |-> Idle]

-----------------------------------------------------------------------------
(* Who may. *)

IsAdmin(u) == u \in Admins

CanView(u, c) == IsAdmin(u) \/ cols[c].owner \in {Nobody, u}

CanManageGlobal(u, c) == IsAdmin(u) \/ cols[c].owner \in {Nobody, u}

CanManage(u, c) == IsAdmin(u) \/ cols[c].owner = u

\* The request row r is the handler's own copy; c is read after it.
CanManageRequest(u, r, c) == IsAdmin(u) \/ (CanManage(u, c) /\ r.owner = u)

CanUseRequest(u, r, c) == CanView(u, c) /\ (IsAdmin(u) \/ r.owner \in {Nobody, u})

-----------------------------------------------------------------------------
(* The tables. *)

\* The folders that ON DELETE CASCADE of parent_id takes along with S.
Subtree(S) ==
    {f \in DOMAIN folders :
        \A D \in SUBSET DOMAIN folders :
            (S \subseteq D /\ \A g \in DOMAIN folders : folders[g].parent \in D => g \in D)
                => f \in D}

\* DELETE FROM folders for the folders in S and their subtrees: the requests in
\* them stay, at the root of their collection.
Uprooted(table, S) ==
    [r \in DOMAIN table |-> IF table[r].folder \in S THEN [table[r] EXCEPT !.folder = 0]
                                                     ELSE table[r]]

\* DELETE FROM collections WHERE id = c.
DropCollection(c) ==
    LET goneFolders == Subtree({f \in DOMAIN folders : folders[f].col = c})
        goneReqs == {r \in DOMAIN reqs : reqs[r].col = c}
    IN  /\ cols' = Without(cols, {c})
        /\ folders' = Without(folders, goneFolders)
        /\ reqs' = Uprooted(Without(reqs, goneReqs), goneFolders)

\* DELETE FROM folders WHERE id = f.
DropFolder(f) ==
    LET gone == Subtree({f} \cap DOMAIN folders)
    IN  /\ folders' = Without(folders, gone)
        /\ reqs' = Uprooted(reqs, gone)
        /\ UNCHANGED cols

\* The jobs, after an INSERT has given out id `id` in the table that the field
\* `key` of a job refers to.
Raced(key, id) ==
    [i \in Jobs |-> IF /\ job[i].pc # "idle"
                       /\ job[i].user \notin Admins \/ job[i].pc \in Imports
                       /\ job[i][key] = id \/ (key = "folder" /\ id \in job[i].made)
                    THEN [job[i] EXCEPT !.raced = TRUE]
                    ELSE job[i]]

\* The same, when it was job j's INSERT, which has moved on to `next`.
Racing(j, next, key, id) == [Raced(key, id) EXCEPT ![j] = next]

Finish(j) == job' = [job EXCEPT ![j] = Idle]

At(j, pc) == job[j].pc = pc

Begin(j, next) == job' = [job EXCEPT ![j] = next]

\* A check that fails, or a database error, ends the handler at any point, as does
\* the end of an import's document.
GiveUp(j) ==
    /\ ~ At(j, "idle")
    /\ Finish(j)
    /\ UNCHANGED <<alive, cols, folders, reqs>>

-----------------------------------------------------------------------------
(* Collections. *)

\* createCollection: a global one by an admin only.
CreateCollection(u, owner) ==
    /\ u \in alive
    /\ owner = u \/ (owner = Nobody /\ IsAdmin(u))
    /\ NewId(cols) <= MaxCol
    /\ cols' = Put(cols, NewId(cols), [owner |-> owner])
    /\ job' = Raced("col", NewId(cols))
    /\ UNCHANGED <<alive, folders, reqs>>

\* deleteCollection, createFolder and DeleteFolder all begin with Collections.Get
\* and CanManage.
BeginManage(j, u, c, pc) ==
    /\ u \in alive
    /\ c \in DOMAIN cols /\ CanManage(u, c)
    /\ Begin(j, [Idle EXCEPT !.pc = pc, !.user = u, !.col = c])
    /\ UNCHANGED <<alive, cols, folders, reqs>>

DeleteCollection(j) ==
    /\ At(j, "deleteCollection")
    /\ DropCollection(job[j].col)
    /\ Finish(j)
    /\ UNCHANGED alive

(* Folders. *)

\* The INSERT of createFolder takes any parent that exists, of any collection.
CreateFolder(j, parent) ==
    /\ At(j, "createFolder")
    /\ job[j].col \in DOMAIN cols
    /\ parent \in {0} \cup DOMAIN folders
    /\ NewId(folders) <= MaxFolder
    /\ folders' = Put(folders, NewId(folders), [col |-> job[j].col, parent |-> parent])
    /\ job' = Racing(j, Idle, "folder", NewId(folders))
    /\ UNCHANGED <<alive, cols, reqs>>

\* folderOf: the folder is one of the collection's.
FindFolder(j, f) ==
    /\ At(j, "findFolder")
    /\ f \in DOMAIN folders /\ folders[f].col = job[j].col
    /\ job' = [job EXCEPT ![j].pc = "deleteFolder", ![j].folder = f, ![j].col = 0]
    /\ UNCHANGED <<alive, cols, folders, reqs>>

DeleteFolder(j) ==
    /\ At(j, "deleteFolder")
    /\ DropFolder(job[j].folder)
    /\ Finish(j)
    /\ UNCHANGED alive

(* Requests. *)

\* createRequest up to CanView.
BeginCreateRequest(j, u, c) ==
    /\ u \in alive
    /\ c \in DOMAIN cols /\ CanView(u, c)
    /\ Begin(j, [Idle EXCEPT !.pc = "createRequest", !.user = u, !.col = c])
    /\ UNCHANGED <<alive, cols, folders, reqs>>

\* Its INSERT takes any folder that exists; an admin's request has no owner.
CreateRequest(j, folder) ==
    LET owner == IF IsAdmin(job[j].user) THEN Nobody ELSE job[j].user
    IN  /\ At(j, "createRequest")
        /\ job[j].col \in DOMAIN cols
        /\ folder \in {0} \cup DOMAIN folders
        /\ owner \in alive \cup {Nobody}
        /\ NewId(reqs) <= MaxReq
        /\ reqs' = Put(reqs, NewId(reqs), [col |-> job[j].col, folder |-> folder, owner |-> owner])
        /\ job' = Racing(j, Idle, "req", NewId(reqs))
        /\ UNCHANGED <<alive, cols, folders>>

\* updateRequest reads the request, then its collection.
BeginUpdate(j, u, r) ==
    /\ u \in alive
    /\ r \in DOMAIN reqs
    /\ IsAdmin(u) \/ reqs[r].owner = u
    /\ Begin(j, [Idle EXCEPT !.pc = "checkRequest", !.user = u, !.req = r, !.col = reqs[r].col])
    /\ UNCHANGED <<alive, cols, folders, reqs>>

\* CanManageRequest; its part about the request's owner was decided by the read.
CheckRequest(j) ==
    /\ At(j, "checkRequest")
    /\ job[j].col \in DOMAIN cols /\ CanManage(job[j].user, job[j].col)
    /\ job' = [job EXCEPT ![j].pc = "checkTarget"]
    /\ UNCHANGED <<alive, cols, folders, reqs>>

CheckAnyTarget(j, c) ==
    /\ At(j, "checkTarget")
    /\ c \in DOMAIN cols
    /\ job' = [job EXCEPT ![j].pc = "checkFolder", ![j].col = c]
    /\ UNCHANGED <<alive, cols, folders, reqs>>

\* The request moves into collection c if the user can view c, or stays.
CheckTarget(j, c) ==
    /\ At(j, "checkTarget")
    /\ c = job[j].col \/ (c \in DOMAIN cols /\ CanView(job[j].user, c))
    /\ job' = [job EXCEPT ![j].pc = "checkFolder", ![j].col = c]
    /\ UNCHANGED <<alive, cols, folders, reqs>>

\* A folder must be one of the target collection's; none need not be looked up.
CheckFolder(j, f) ==
    /\ At(j, "checkFolder")
    /\ f = 0 \/ (f \in DOMAIN folders /\ folders[f].col = job[j].col)
    /\ job' = [job EXCEPT ![j].pc = "update", ![j].folder = f]
    /\ UNCHANGED <<alive, cols, folders, reqs>>

\* UPDATE ... WHERE id: nothing if the row is gone, an error if the collection or
\* the folder is; owner_id stays.
UpdateRequest(j) ==
    LET r == job[j].req
    IN  /\ At(j, "update")
        /\ r \in DOMAIN reqs
        /\ job[j].col \in DOMAIN cols
        /\ job[j].folder \in {0} \cup DOMAIN folders
        /\ reqs' = [reqs EXCEPT ![r].col = job[j].col, ![r].folder = job[j].folder]
        /\ Finish(j)
        /\ UNCHANGED <<alive, cols, folders>>

(* importCollection: the collection, then its folders, then its requests, each an
   INSERT of its own; the document names folders by the ids of its source. *)

BeginImport(j, u, owner) ==
    /\ u \in alive
    /\ owner = u \/ (owner = Nobody /\ IsAdmin(u))
    /\ owner \in Importing
    /\ NewId(cols) <= MaxCol
    /\ cols' = Put(cols, NewId(cols), [owner |-> owner])
    /\ job' = Racing(j, [Idle EXCEPT !.pc = "importFolders", !.user = owner, !.col = NewId(cols)],
                     "col", NewId(cols))
    /\ UNCHANGED <<alive, folders, reqs>>

ImportFolderUnmapped(j, parent) ==
    LET id == NewId(folders)
    IN  /\ At(j, "importFolders")
        /\ job[j].col \in DOMAIN cols
        /\ parent \in {0} \cup DOMAIN folders
        /\ id <= MaxFolder
        /\ folders' = Put(folders, id, [col |-> job[j].col, parent |-> parent])
        /\ job' = Racing(j, [job[j] EXCEPT !.made = @ \cup {id}], "folder", id)
        /\ UNCHANGED <<alive, cols, reqs>>

\* oldToNew holds the folders made so far; a parent it does not have is left out.
ImportFolder(j, parent) ==
    LET id == NewId(folders)
    IN  /\ At(j, "importFolders")
        /\ job[j].col \in DOMAIN cols
        /\ parent \in {0} \cup (job[j].made \cap DOMAIN folders)
        /\ id <= MaxFolder
        /\ folders' = Put(folders, id, [col |-> job[j].col, parent |-> parent])
        /\ job' = Racing(j, [job[j] EXCEPT !.made = @ \cup {id}], "folder", id)
        /\ UNCHANGED <<alive, cols, reqs>>

\* The requests belong to the owner of the import; the last one ends it.
ImportRequest(j, folder) ==
    /\ job[j].pc \in Imports
    /\ job[j].col \in DOMAIN cols
    /\ folder \in {0} \cup (job[j].made \cap DOMAIN folders)
    /\ job[j].user \in alive \cup {Nobody}
    /\ NewId(reqs) <= MaxReq
    /\ reqs' = Put(reqs, NewId(reqs), [col |-> job[j].col, folder |-> folder, owner |-> job[j].user])
    /\ \E next \in {Idle, [job[j] EXCEPT !.pc = "importRequests"]} :
          job' = Racing(j, next, "req", NewId(reqs))
    /\ UNCHANGED <<alive, cols, folders>>

\* deleteRequest is for admins.
DeleteRequest(u, r) ==
    /\ u \in alive /\ IsAdmin(u)
    /\ r \in DOMAIN reqs
    /\ reqs' = Without(reqs, {r})
    /\ UNCHANGED <<alive, cols, folders, job>>

\* deleteUser by another admin: ON DELETE SET NULL of both owner_id columns.
DeleteUser(u) ==
    /\ u \in alive
    /\ \E admin \in alive \cap Admins : admin # u
    /\ alive' = alive \ {u}
    /\ cols' = [c \in DOMAIN cols |-> IF cols[c].owner = u THEN [owner |-> Nobody] ELSE cols[c]]
    /\ reqs' = [r \in DOMAIN reqs |-> IF reqs[r].owner = u THEN [reqs[r] EXCEPT !.owner = Nobody]
                                                           ELSE reqs[r]]
    /\ UNCHANGED <<folders, job>>

\* What an idle goroutine may be given to do.
JobBegins(j) ==
    /\ At(j, "idle")
    /\ \E u \in Users :
        \/ \E c \in ColIds, pc \in {"deleteCollection", "createFolder", "findFolder"} :
              BeginManage(j, u, c, pc)
        \/ \E c \in ColIds : BeginCreateRequest(j, u, c)
        \/ \E r \in ReqIds : BeginUpdate(j, u, r)
        \/ \E owner \in Owner : BeginImport(j, u, owner)

JobStep(j) ==
    \/ DeleteCollection(j)
    \/ \E f \in 0 .. MaxFolder :
        \/ CreateFolder(j, f) \/ FindFolder(j, f) \/ CreateRequest(j, f) \/ CheckFolder(j, f)
        \/ ImportFolder(j, f) \/ ImportRequest(j, f)
    \/ DeleteFolder(j)
    \/ CheckRequest(j)
    \/ \E c \in ColIds : CheckTarget(j, c)
    \/ UpdateRequest(j)
    \/ GiveUp(j)

Next ==
    \/ \E u \in Users, owner \in Owner : CreateCollection(u, owner)
    \/ \E j \in Jobs : JobBegins(j) \/ JobStep(j)
    \/ \E u \in Users : DeleteUser(u) \/ \E r \in ReqIds : DeleteRequest(u, r)

Spec == Init /\ [][Next]_vars

-----------------------------------------------------------------------------
(* Correctness. *)

\* The foreign keys hold through every cascade, and a folder's parent is older
\* than the folder: no folder is its own ancestor, and the export, which lists
\* folders by id, names a parent before its children, as the import needs.
TreeSound ==
    /\ \A c \in DOMAIN cols : cols[c].owner \in alive \cup {Nobody}
    /\ \A f \in DOMAIN folders :
        /\ folders[f].col \in DOMAIN cols
        /\ folders[f].parent \in {0} \cup DOMAIN folders
        /\ folders[f].parent < f
    /\ \A r \in DOMAIN reqs :
        /\ reqs[r].col \in DOMAIN cols
        /\ reqs[r].folder \in {0} \cup DOMAIN folders
        /\ reqs[r].owner \in alive \cup {Nobody}

\* A handler of an ordinary user holds what it has checked: a row with an id that
\* it carries to its next statement is still the user's, or gone.
Holds(g) ==
    /\ g.col \in DOMAIN cols =>
          /\ g.pc \in {"deleteCollection", "createFolder", "findFolder", "checkTarget"} \cup Imports
                => cols[g.col].owner = g.user
          /\ g.pc \in {"createRequest", "checkFolder", "update"}
                => cols[g.col].owner \in {Nobody, g.user}
    /\ g.pc = "deleteFolder" /\ g.folder \in DOMAIN folders
          => cols[folders[g.folder].col].owner = g.user
    /\ g.pc \in {"checkRequest", "checkTarget", "checkFolder", "update"} /\ g.req \in DOMAIN reqs
          => reqs[g.req].owner = g.user

JobsHoldTheirRows ==
    \A j \in Jobs :
        /\ ~ job[j].raced /\ job[j].user \in alive \ Admins => Holds(job[j])
        /\ job[j].made # {} => job[j].pc \in Imports

\* The inductive invariant: the tables are well formed, the tree in them is
\* sound, and the handlers hold their rows.
StoreInv == TypeOK /\ TreeSound /\ JobsHoldTheirRows

\* Job j runs its last statement for an ordinary user u who still has an account,
\* and no id it has read was given to another row meanwhile.
Writes(j, u) ==
    /\ job'[j].pc = "idle" /\ job[j].user = u /\ u \in alive \ Admins
    /\ job[j].pc \notin {"idle", "findFolder", "checkRequest", "checkTarget", "checkFolder"}
    /\ ~ job[j].raced

Mine(u, c) == cols[c].owner = u

\* What a handler deletes or changes for an ordinary user is theirs, in a
\* collection of theirs, or below a folder of such a collection, although it
\* was another statement that checked.
OrdinaryWritesStayHome ==
    [][\A j \in Jobs, u \in Users : Writes(j, u) =>
         LET below == Subtree({f \in DOMAIN folders : Mine(u, folders[f].col)})
         IN  /\ \A c \in DOMAIN cols \ DOMAIN cols' : Mine(u, c)
             /\ DOMAIN folders \ DOMAIN folders' \subseteq below
             /\ \A r \in DOMAIN reqs :
                  \/ r \in DOMAIN reqs' /\ reqs'[r] = reqs[r]
                  \/ reqs[r].owner = u
                  \/ Mine(u, reqs[r].col)
                  \/ reqs[r].folder \in below]_vars

\* The handlers of an ordinary user only ever put a request of theirs where they go
\* on seeing it, however its collection is moved or deleted in between.  (An
\* administrator may put anybody's request anywhere.)
OwnersKeepSight ==
    [][\A j \in Jobs, u \in Users : Writes(j, u) =>
         \A r \in DOMAIN reqs' :
            reqs'[r].owner = u /\ (r \in DOMAIN reqs => reqs'[r].col # reqs[r].col)
                => CanUseRequest(u, reqs'[r], reqs'[r].col)]_vars

\* Job j is an import, and no id it has made was given to another row since.
ImportsUndisturbed(j) == job[j].pc \in Imports /\ ~ job[j].raced

\* An import is a copy of its document in a collection of its own: the folders it
\* has made are in it, under each other, whatever the ids in the document name
\* here and whatever else is deleted or created meanwhile; and of two imports
\* that run at once neither fills the collection, or maps a folder, of the other.
ImportsStandAlone ==
    \A j \in Jobs : ImportsUndisturbed(j) =>
        /\ \A f \in job[j].made \cap DOMAIN folders :
              folders[f].col = job[j].col /\ folders[f].parent \in {0} \cup job[j].made
        /\ \A i \in Jobs \ {j} : ImportsUndisturbed(i) =>
              job[i].col # job[j].col /\ job[i].made \cap job[j].made = {}

\* DESIGN.md, line 160: when a user is deleted, no private data of theirs stays.
NoPrivateDataLeft ==
    [][\A c \in DOMAIN cols \cap DOMAIN cols' :
          cols'[c].owner = Nobody => cols[c].owner = Nobody]_vars

\* requests.go, lines 332 and 333: "only an admin can remove one", a request: no
\* handler that ends for an ordinary user has taken one away.
OnlyAdminsRemoveRequests ==
    [][\A r \in DOMAIN reqs \ DOMAIN reqs', j \in Jobs :
          job[j].pc # "idle" /\ job'[j].pc = "idle" => IsAdmin(job[j].user)]_vars
=============================================================================
