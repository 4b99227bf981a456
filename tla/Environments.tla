---------------------------- MODULE Environments ----------------------------
(***************************************************************************)
(* The environments table, the settings rows that say which environment is *)
(* active (slot 0 for everyone, slot u for account u), and what an         *)
(* execution finds there.  A SQL statement is a step; handlers run several *)
(* with others in between.                                                 *)
(* Settings name environments and accounts by id, with no foreign key, and *)
(* SQLite gives the largest id in the table plus one: a deleted row's id   *)
(* can come back.                                                          *)
(*                                                                         *)
(* The middleware's reads are folded into a handler's first statement.     *)
(* Names are left out, and with them what UNIQUE(scope, owner_id, name)    *)
(* refuses, which is one of the ways of GiveUp.  The audit lines that the  *)
(* handlers write after their last statement are appends of AuditLog.      *)
(***************************************************************************)
EXTENDS SqlTable

CONSTANTS
    Jobs,       \* goroutines serving a handler
    NoJob,      \* a handler of another component
    MaxUser,    \* bounds on the ids of the two tables; Init has two accounts
    MaxEnv

ASSUME JobsAssumption == NoJob \notin Jobs
ASSUME EnvBoundsAssumption == MaxUser \in Nat \ {0, 1} /\ MaxEnv \in Nat

VARIABLES
    role,       \* the accounts by id
    envs,       \* the environments by id; owner 0 is NULL
    active,     \* active[k]: the environment id stored for slot k; 0 is no row
    chosen,     \* history: the slots whose environment was not deleted since it was chosen
    job         \* job[j]: a handler between two of its statements

vars == <<role, envs, active, chosen, job>>

tables == <<role, envs>>
slots == <<active, chosen>>

UserIds == 1 .. MaxUser
EnvIds == 1 .. MaxEnv

Slots == 0 .. MaxUser

Env == [scope : {"global", "user"}, owner : 0 .. MaxUser]

\* user, admin: the middleware's copy of the account; env: the id the handler
\* has checked; other: the second id of an activation; gone (history): the row
\* that was checked has been deleted since.
Job == [pc : {"idle", "update", "delete", "setGlobal", "checkUser", "setUser"},
        user : 0 .. MaxUser, admin : BOOLEAN, env : 0 .. MaxEnv, other : 0 .. MaxEnv,
        gone : BOOLEAN]

TypeOK ==
    /\ role \in Table(UserIds, {"admin", "user"})
    /\ envs \in Table(EnvIds, Env)
    /\ active \in [Slots -> 0 .. MaxEnv]
    /\ chosen \in SUBSET Slots
    /\ job \in [Jobs -> Job]

Idle == [pc |-> "idle", user |-> 0, admin |-> FALSE, env |-> 0, other |-> 0, gone |-> FALSE]

\* An administrator, account 1, and an ordinary account.
Init ==
    /\ role = <<"admin", "user">>
    /\ envs = <<>>
    /\ active = [k \in Slots |-> 0] /\ chosen = {}
    /\ job = [j \in Jobs |-> Idle]

-----------------------------------------------------------------------------
IsAdmin(u) == role[u] = "admin"

CanManageGlobal(u, e) == IsAdmin(u) \/ envs[e].scope = "global" \/ envs[e].owner = u

CanManage(u, e) ==
    \/ IsAdmin(u)
    \/ envs[e].scope = "user" /\ envs[e].owner = u

\* What an execution finds under slot k: the ids of environments that are gone
\* are passed over.
ActiveEnvs(k) == {envs[e] : e \in {active[k]} \cap DOMAIN envs}

\* DELETE of the environments in S, which ends job j.
Drop(S, j) ==
    /\ envs' = Without(envs, S)
    /\ chosen' = {k \in chosen : active[k] \notin S}
    /\ job' = [i \in Jobs |-> IF i = j THEN Idle
                             ELSE [job[i] EXCEPT !.gone = @ \/ job[i].env \in S]]

At(j, pc) == job[j].pc = pc

Begin(j, next) == At(j, "idle") /\ job' = [job EXCEPT ![j] = next]

Finish(j) == job' = [job EXCEPT ![j] = Idle]

\* A check that fails, or a database error, ends the handler; what it has
\* written stays written.
GiveUp(j) ==
    /\ ~ At(j, "idle")
    /\ Finish(j)
    /\ UNCHANGED <<tables, slots>>

(* Accounts, as far as environments and slots depend on them. *)

CreateUser(r) ==
    /\ NewId(role) <= MaxUser
    /\ role' = Put(role, NewId(role), r)
    /\ UNCHANGED <<envs, slots, job>>

\* By account 1.  ON DELETE CASCADE takes the account's environments along; its
\* slot stays.
DeleteUser(u) ==
    /\ u \in DOMAIN role \ {1}
    /\ role' = Without(role, {u})
    /\ Drop({e \in DOMAIN envs : envs[e].owner = u}, NoJob)
    /\ UNCHANGED active

(* Environments. *)

\* The owner is the caller, or anyone an administrator names; a global
\* environment has none.
CreateEnvironment(u, scope, owner) ==
    /\ u \in DOMAIN role
    /\ scope = "global" => IsAdmin(u) /\ owner = 0
    /\ scope = "user" => owner \in DOMAIN role /\ (owner = u \/ IsAdmin(u))
    /\ NewId(envs) <= MaxEnv
    /\ envs' = Put(envs, NewId(envs), [scope |-> scope, owner |-> owner])
    /\ UNCHANGED <<role, slots, job>>

\* updateEnvironment and deleteEnvironment begin alike: Get, then CanManage.
BeginManage(j, u, e, pc) ==
    /\ u \in DOMAIN role
    /\ e \in DOMAIN envs /\ CanManage(u, e)
    /\ Begin(j, [Idle EXCEPT !.pc = pc, !.user = u, !.admin = IsAdmin(u), !.env = e])
    /\ UNCHANGED <<tables, slots>>

\* UPDATE changes the name and the variables, which are left out, of the row with
\* that id, if there is one.
UpdateEnvironment(j) ==
    /\ At(j, "update")
    /\ Finish(j)
    /\ UNCHANGED <<tables, slots>>

DeleteEnvironment(j) ==
    /\ At(j, "delete")
    /\ Drop({job[j].env}, j)
    /\ UNCHANGED <<role, active>>

(* activateEnvironment: a global id, a user id, or both, in this order. *)

BeginActivate(j, u, g, e) ==
    /\ u \in DOMAIN role
    /\ g # 0 \/ e # 0
    /\ g # 0 => IsAdmin(u) /\ g \in DOMAIN envs /\ envs[g].scope = "global"
    /\ Begin(j, IF g # 0
                THEN [Idle EXCEPT !.pc = "setGlobal", !.user = u, !.admin = IsAdmin(u),
                                  !.env = g, !.other = e]
                ELSE [Idle EXCEPT !.pc = "checkUser", !.user = u, !.admin = IsAdmin(u),
                                  !.other = e])
    /\ UNCHANGED <<tables, slots>>

\* The user half is checked when the global half is stored already.
AfterGlobal(g) == IF g.other = 0 THEN Idle
                  ELSE [g EXCEPT !.pc = "checkUser", !.env = 0, !.gone = FALSE]

SetGlobalSwapped(j) ==
    /\ At(j, "setGlobal")
    /\ active' = [active EXCEPT ![0] = IF job[j].other = 0 THEN job[j].env ELSE job[j].other]
    /\ chosen' = IF job[j].gone THEN chosen \ {0} ELSE chosen \cup {0}
    /\ job' = [job EXCEPT ![j] = AfterGlobal(@)]
    /\ UNCHANGED tables

SetGlobal(j) ==
    /\ At(j, "setGlobal")
    /\ active' = [active EXCEPT ![0] = job[j].env]
    /\ chosen' = IF job[j].gone THEN chosen \ {0} ELSE chosen \cup {0}
    /\ job' = [job EXCEPT ![j] = AfterGlobal(@)]
    /\ UNCHANGED tables

CheckUser(j) ==
    LET e == job[j].other
    IN  /\ At(j, "checkUser")
        /\ e \in DOMAIN envs /\ envs[e].scope = "user"
        /\ envs[e].owner = job[j].user \/ job[j].admin
        /\ job' = [job EXCEPT ![j].pc = "setUser", ![j].env = e, ![j].other = 0]
        /\ UNCHANGED <<tables, slots>>

SetUser(j) ==
    /\ At(j, "setUser")
    /\ active' = [active EXCEPT ![job[j].user] = job[j].env]
    /\ chosen' = IF job[j].gone THEN chosen \ {job[j].user} ELSE chosen \cup {job[j].user}
    /\ Finish(j)
    /\ UNCHANGED tables

JobStep(j) ==
    \/ \E u \in UserIds :
        \/ \E e \in EnvIds, pc \in {"update", "delete"} : BeginManage(j, u, e, pc)
        \/ \E g \in 0 .. MaxEnv, e \in 0 .. MaxEnv : BeginActivate(j, u, g, e)
    \/ UpdateEnvironment(j) \/ DeleteEnvironment(j)
    \/ SetGlobal(j) \/ CheckUser(j) \/ SetUser(j)
    \/ GiveUp(j)

Next ==
    \/ \E r \in {"admin", "user"} : CreateUser(r)
    \/ \E u \in UserIds :
        \/ DeleteUser(u)
        \/ \E scope \in {"global", "user"}, owner \in 0 .. MaxUser :
              CreateEnvironment(u, scope, owner)
    \/ \E j \in Jobs : JobStep(j)

Spec == Init /\ [][Next]_vars

-----------------------------------------------------------------------------
(* Correctness. *)

\* What an ordinary user's update or delete is about to write is an environment
\* of that user's own, unless the row it has checked was deleted meanwhile.
OrdinaryWritesStayHome ==
    \A j \in Jobs :
        job[j].pc \in {"update", "delete"} /\ ~ job[j].admin /\ ~ job[j].gone
            => \E e \in {envs[i] : i \in {job[j].env} \cap DOMAIN envs} :
                  e.scope = "user" /\ e.owner = job[j].user

\* Until the environment chosen for a slot is deleted, an execution finds an
\* environment of the slot's scope there, through every race of activations,
\* deletions, accounts that go and ids that come back.
SlotFollowsChoice ==
    \A k \in chosen :
        \E e \in ActiveEnvs(k) : e.scope = IF k = 0 THEN "global" ELSE "user"

\* While the row a handler has checked is there, it is the row the handler is
\* about to write: its id has not been given to another environment.
JobsHoldTheirRows ==
    \A j \in Jobs :
        /\ ~ At(j, "idle") => job[j].user \in UserIds
        /\ job[j].pc \in {"update", "delete", "setGlobal", "setUser"} /\ ~ job[j].gone =>
              /\ job[j].env \in DOMAIN envs
              /\ At(j, "setGlobal") => envs[job[j].env].scope = "global"
              /\ At(j, "setUser") => envs[job[j].env].scope = "user"
              /\ job[j].pc \in {"update", "delete"} /\ ~ job[j].admin =>
                    envs[job[j].env].scope = "user" /\ envs[job[j].env].owner = job[j].user

\* The inductive invariant: the tables are well formed, each slot follows the
\* choice made for it, and a handler between two statements holds its row.
EnvironmentsInv == TypeOK /\ SlotFollowsChoice /\ JobsHoldTheirRows

\* environments.go, line 217: "global_env_id must reference a global environment":
\* what executions of every account find in slot 0 is a global environment.
GlobalSlotIsGlobal == \A e \in ActiveEnvs(0) : e.scope = "global"
=============================================================================
