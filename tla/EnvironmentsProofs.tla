------------------------- MODULE EnvironmentsProofs -------------------------
(***************************************************************************)
(* The environments, their active slots and the handlers between two of    *)
(* their statements, for any accounts, environments and handlers:          *)
(* EnvironmentsInv is inductive, so a slot keeps an environment of its own *)
(* scope until the chosen one is deleted, and ordinary users write to      *)
(* their own environments only.                                            *)
(***************************************************************************)
EXTENDS Environments, Lemmas

USE JobsAssumption, EnvBoundsAssumption

-----------------------------------------------------------------------------
(* Types. *)

\* "No id" is in the types of the fields that hold an id, for a NULL owner or an
\* activation of one half.
LEMMA NoIdIsTyped ==
    0 \in 0 .. MaxUser /\ 0 \in 0 .. MaxEnv /\ Idle \in Job
  BY DEF Idle, Job

\* DELETE of environments is well typed.
LEMMA DropKeepsTypes ==
    ASSUME TypeOK, NEW S, NEW j, Drop(S, j), UNCHANGED <<role, active>>
    PROVE  TypeOK'
<1>1. envs' \in Table(EnvIds, Env)
  BY WithoutKeepsTheOthers DEF Drop, TypeOK
<1>2. \A i \in Jobs : [job[i] EXCEPT !.gone = @ \/ job[i].env \in S] \in Job
  BY DEF TypeOK, Job
<1>3. job' \in [Jobs -> Job]
  BY <1>2 DEF Drop, Idle, Job
<1> QED
  BY <1>1, <1>3 DEF Drop, TypeOK

\* Every step keeps the types.
LEMMA TypesStay ==
    TypeOK /\ JobsHoldTheirRows /\ [Next]_vars => TypeOK'
<1> SUFFICES ASSUME TypeOK, JobsHoldTheirRows, [Next]_vars PROVE TypeOK'
  OBVIOUS
<1> USE DEF tables, slots
<1>1. ASSUME NEW r \in {"admin", "user"}, CreateUser(r) PROVE TypeOK'
  BY <1>1, NewIdIsNew, PutKeepsTheOthers DEF CreateUser, TypeOK, UserIds
<1>2. ASSUME NEW u \in UserIds, DeleteUser(u) PROVE TypeOK'
  <2>1. role' \in Table(UserIds, {"admin", "user"})
    BY <1>2, WithoutKeepsTheOthers DEF DeleteUser, TypeOK
  <2> DEFINE S == {e \in DOMAIN envs : envs[e].owner = u}
  <2>2. Drop(S, NoJob) /\ UNCHANGED active
    BY <1>2 DEF DeleteUser
  <2>3. envs' \in Table(EnvIds, Env)
    BY <2>2, WithoutKeepsTheOthers DEF Drop, TypeOK
  <2>4. \A i \in Jobs : [job[i] EXCEPT !.gone = @ \/ job[i].env \in S] \in Job
    BY DEF TypeOK, Job
  <2>5. job' \in [Jobs -> Job] /\ chosen' \subseteq chosen
    BY <2>2, <2>4 DEF Drop, Idle, Job
  <2> QED
    BY <2>1, <2>2, <2>3, <2>5 DEF TypeOK
<1>3. ASSUME NEW u \in UserIds, NEW scope \in {"global", "user"}, NEW owner \in 0 .. MaxUser,
             CreateEnvironment(u, scope, owner)
      PROVE  TypeOK'
  <2>1. [scope |-> scope, owner |-> owner] \in Env
    BY DEF Env
  <2> QED
    BY <1>3, <2>1, NewIdIsNew, PutKeepsTheOthers DEF CreateEnvironment, TypeOK, EnvIds
<1>4. ASSUME NEW j \in Jobs, NEW u \in UserIds, NEW e \in EnvIds, NEW pc \in {"update", "delete"},
             BeginManage(j, u, e, pc)
      PROVE  TypeOK'
  <2>1. ASSUME NEW admin \in BOOLEAN
        PROVE  [Idle EXCEPT !.pc = pc, !.user = u, !.admin = admin, !.env = e] \in Job
    <3>1. u \in 0 .. MaxUser /\ e \in 0 .. MaxEnv /\ Idle \in Job
      BY NoIdIsTyped DEF UserIds, EnvIds
    <3> QED
      BY <3>1 DEF Job
  <2>2. IsAdmin(u) \in BOOLEAN
    BY DEF IsAdmin
  <2>3. [Idle EXCEPT !.pc = pc, !.user = u, !.admin = IsAdmin(u), !.env = e] \in Job
    BY <2>1, <2>2
  <2> QED
    BY <1>4, <2>3 DEF BeginManage, Begin, TypeOK
<1>5. ASSUME NEW j \in Jobs, NEW u \in UserIds, NEW g \in 0 .. MaxEnv, NEW e \in 0 .. MaxEnv,
             BeginActivate(j, u, g, e)
      PROVE  TypeOK'
  <2>1. ASSUME NEW admin \in BOOLEAN
        PROVE  /\ [Idle EXCEPT !.pc = "setGlobal", !.user = u, !.admin = admin,
                               !.env = g, !.other = e] \in Job
               /\ [Idle EXCEPT !.pc = "checkUser", !.user = u, !.admin = admin,
                               !.other = e] \in Job
    <3>1. u \in 0 .. MaxUser /\ Idle \in Job
      BY NoIdIsTyped DEF UserIds
    <3> QED
      BY <3>1 DEF Job
  <2>2. IsAdmin(u) \in BOOLEAN
    BY DEF IsAdmin
  <2>3. /\ [Idle EXCEPT !.pc = "setGlobal", !.user = u, !.admin = IsAdmin(u),
                        !.env = g, !.other = e] \in Job
        /\ [Idle EXCEPT !.pc = "checkUser", !.user = u, !.admin = IsAdmin(u),
                        !.other = e] \in Job
    BY <2>1, <2>2
  <2> QED
    BY <1>5, <2>3 DEF BeginActivate, Begin, TypeOK
<1>6. ASSUME NEW j \in Jobs, UpdateEnvironment(j) \/ GiveUp(j) PROVE TypeOK'
  BY <1>6, NoIdIsTyped DEF UpdateEnvironment, GiveUp, Finish, TypeOK
<1>7. ASSUME NEW j \in Jobs, DeleteEnvironment(j) PROVE TypeOK'
  BY <1>7, DropKeepsTypes DEF DeleteEnvironment
<1>8. ASSUME NEW j \in Jobs, SetGlobal(j) PROVE TypeOK'
  <2>1. job[j] \in Job
    BY DEF TypeOK
  <2>2. AfterGlobal(job[j]) \in Job
    BY <2>1, NoIdIsTyped DEF AfterGlobal, Job
  <2> QED
    BY <1>8, <2>1, <2>2 DEF SetGlobal, TypeOK, Job, Slots
<1>9. ASSUME NEW j \in Jobs, CheckUser(j) PROVE TypeOK'
  <2>1. job[j] \in Job
    BY DEF TypeOK
  <2>2. \A e \in 0 .. MaxEnv :
          [job[j] EXCEPT !.pc = "setUser", !.env = e, !.other = 0] \in Job
    BY <2>1, NoIdIsTyped DEF Job
  <2> QED
    BY <1>9, <2>1, <2>2 DEF CheckUser, TypeOK, Job
<1>10. ASSUME NEW j \in Jobs, SetUser(j) PROVE TypeOK'
  <2>1. job[j].user \in Slots /\ job[j].env \in 0 .. MaxEnv
    BY DEF TypeOK, Job, Slots
  <2> QED
    BY <1>10, <2>1, NoIdIsTyped DEF SetUser, Finish, TypeOK
<1>11. CASE UNCHANGED vars
  BY <1>11 DEF vars, TypeOK
<1> QED
  BY <1>1, <1>2, <1>3, <1>4, <1>5, <1>6, <1>7, <1>8, <1>9, <1>10, <1>11 DEF Next, JobStep

-----------------------------------------------------------------------------
(* Handlers between two statements. *)

\* What JobsHoldTheirRows says of one handler.
Holds(g, table) ==
    /\ g.pc # "idle" => g.user \in UserIds
    /\ g.pc \in {"update", "delete", "setGlobal", "setUser"} /\ ~ g.gone =>
          /\ g.env \in DOMAIN table
          /\ g.pc = "setGlobal" => table[g.env].scope = "global"
          /\ g.pc = "setUser" => table[g.env].scope = "user"
          /\ g.pc \in {"update", "delete"} /\ ~ g.admin =>
                table[g.env].scope = "user" /\ table[g.env].owner = g.user

\* A handler keeps its row when the table keeps it, and knows when it loses it.
LEMMA HoldingSurvives ==
    ASSUME NEW g \in Job, NEW table, NEW after, NEW S, Holds(g, table),
           \A i \in DOMAIN table \ S : i \in DOMAIN after /\ after[i] = table[i]
    PROVE  Holds([g EXCEPT !.gone = @ \/ g.env \in S], after)
<1> DEFINE h == [g EXCEPT !.gone = @ \/ g.env \in S]
<1>1. /\ h.pc = g.pc /\ h.user = g.user /\ h.env = g.env /\ h.admin = g.admin
      /\ ~ h.gone => ~ g.gone /\ g.env \notin S
  BY DEF Job
<1> HIDE DEF h
<1>2. Holds(h, after)
  BY <1>1 DEF Holds
<1> QED
  BY <1>2 DEF h

\* Every step keeps the handlers with their rows.
LEMMA HandlersKeepTheirRows ==
    TypeOK /\ JobsHoldTheirRows /\ [Next]_vars => JobsHoldTheirRows'
<1> SUFFICES ASSUME TypeOK, JobsHoldTheirRows, [Next]_vars PROVE JobsHoldTheirRows'
  OBVIOUS
<1> USE DEF tables, slots
<1>0. /\ TypeOK' /\ envs \in Table(EnvIds, Env)
      /\ \A j \in Jobs : job[j] \in Job /\ job'[j] \in Job
  BY TypesStay DEF TypeOK
<1>1. \A j \in Jobs : Holds(job[j], envs)
  BY DEF JobsHoldTheirRows, Holds, At
<1>2. SUFFICES \A j \in Jobs : Holds(job'[j], envs')
  BY DEF JobsHoldTheirRows, Holds, At
<1>3. ASSUME NEW j \in Jobs, \A i \in Jobs \ {j} : job'[i] = job[i], UNCHANGED envs,
             Holds(job'[j], envs)
      PROVE  \A i \in Jobs : Holds(job'[i], envs')
  BY <1>1, <1>3
<1>4. ASSUME NEW S, NEW j, Drop(S, j) PROVE \A i \in Jobs : Holds(job'[i], envs')
  <2> SUFFICES ASSUME NEW i \in Jobs PROVE Holds(job'[i], envs')
    OBVIOUS
  <2>1. job'[i] = Idle \/ job'[i] = [job[i] EXCEPT !.gone = @ \/ job[i].env \in S]
    BY <1>4 DEF Drop
  <2>2. \A e \in DOMAIN envs \ S : e \in DOMAIN envs' /\ envs'[e] = envs[e]
    <3>1. envs' = Without(envs, S)
      BY <1>4 DEF Drop
    <3>2. envs \in Table(EnvIds, Env)
      BY <1>0
    <3>3. /\ DOMAIN Without(envs, S) = DOMAIN envs \ S
          /\ \A e \in DOMAIN envs \ S : Without(envs, S)[e] = envs[e]
      BY <3>2, WithoutKeepsTheOthers
    <3> QED
      BY <3>1, <3>3
  <2>3. Holds(Idle, envs')
    BY DEF Holds, Idle
  <2>4. ASSUME job'[i] = [job[i] EXCEPT !.gone = @ \/ job[i].env \in S] PROVE Holds(job'[i], envs')
    <3>1. job[i] \in Job /\ job'[i] \in Job /\ Holds(job[i], envs)
      BY <1>0, <1>1
    <3> DEFINE after == envs'
    <3>2. \A e \in DOMAIN envs \ S : e \in DOMAIN after /\ after[e] = envs[e]
      BY <2>2
    <3> HIDE DEF after
    <3>3. Holds([job[i] EXCEPT !.gone = @ \/ job[i].env \in S], after)
      BY <3>1, <3>2, HoldingSurvives, Zenon
    <3> QED
      BY <2>4, <3>3 DEF after
  <2> QED
    BY <2>1, <2>3, <2>4
<1>5. ASSUME NEW u \in UserIds, NEW s \in {"global", "user"}, NEW o \in 0 .. MaxUser,
             CreateEnvironment(u, s, o)
      PROVE  \A i \in Jobs : Holds(job'[i], envs')
  <2>1. NewId(envs) \in EnvIds /\ NewId(envs) \notin DOMAIN envs
    BY <1>0, <1>5, NewIdIsNew DEF CreateEnvironment, EnvIds
  <2>2. \A e \in DOMAIN envs : e \in DOMAIN envs' /\ envs'[e] = envs[e]
    <3>1. envs' = Put(envs, NewId(envs), [scope |-> s, owner |-> o])
      BY <1>5 DEF CreateEnvironment
    <3>2. [scope |-> s, owner |-> o] \in Env
      BY DEF Env
    <3> DEFINE id == NewId(envs)
               row == [scope |-> s, owner |-> o]
    <3>3. envs \in Table(EnvIds, Env) /\ id \in EnvIds /\ row \in Env
      BY <1>0, <2>1, <3>2
    <3> HIDE DEF id, row
    <3>4. /\ DOMAIN Put(envs, id, row) = DOMAIN envs \cup {id}
          /\ \A e \in DOMAIN envs \ {id} : Put(envs, id, row)[e] = envs[e]
      BY <3>3, PutKeepsTheOthers
    <3> QED
      BY <2>1, <3>1, <3>4 DEF id, row
  <2> QED
    BY <1>1, <1>5, <2>2 DEF CreateEnvironment, Holds
<1>6. ASSUME NEW j \in Jobs, JobStep(j) PROVE \A i \in Jobs : Holds(job'[i], envs')
  <2>1. ASSUME NEW u \in UserIds, NEW e \in EnvIds, NEW pc \in {"update", "delete"},
               BeginManage(j, u, e, pc)
        PROVE  \A i \in Jobs : Holds(job'[i], envs')
    <3>1. /\ job' = [job EXCEPT ![j] = [Idle EXCEPT !.pc = pc, !.user = u, !.admin = IsAdmin(u),
                                                    !.env = e]]
          /\ e \in DOMAIN envs /\ CanManage(u, e) /\ UNCHANGED envs
      BY <2>1 DEF BeginManage, Begin
    <3>2. Holds(job'[j], envs)
      BY <1>0, <3>1 DEF Holds, Idle, CanManage, TypeOK
    <3>3. \A i \in Jobs \ {j} : job'[i] = job[i]
      BY <3>1 DEF TypeOK
    <3> QED
      BY <1>3, <3>1, <3>2, <3>3
  <2>2. ASSUME NEW u \in UserIds, NEW g \in 0 .. MaxEnv, NEW e \in 0 .. MaxEnv,
               BeginActivate(j, u, g, e)
        PROVE  \A i \in Jobs : Holds(job'[i], envs')
    <3>1. /\ job' = [job EXCEPT ![j] =
                       IF g # 0
                       THEN [Idle EXCEPT !.pc = "setGlobal", !.user = u, !.admin = IsAdmin(u),
                                         !.env = g, !.other = e]
                       ELSE [Idle EXCEPT !.pc = "checkUser", !.user = u, !.admin = IsAdmin(u),
                                         !.other = e]]
          /\ g # 0 => g \in DOMAIN envs /\ envs[g].scope = "global"
          /\ UNCHANGED envs
      BY <2>2 DEF BeginActivate, Begin
    <3>2. Holds(job'[j], envs)
      BY <1>0, <3>1 DEF Holds, Idle, TypeOK
    <3>3. \A i \in Jobs \ {j} : job'[i] = job[i]
      BY <3>1 DEF TypeOK
    <3> QED
      BY <1>3, <3>1, <3>2, <3>3
  <2>3. ASSUME UpdateEnvironment(j) \/ GiveUp(j) \/ SetUser(j)
        PROVE  \A i \in Jobs : Holds(job'[i], envs')
    <3>1. job' = [job EXCEPT ![j] = Idle] /\ UNCHANGED envs
      BY <2>3 DEF UpdateEnvironment, GiveUp, SetUser, Finish
    <3> QED
      BY <1>3, <3>1 DEF TypeOK, Holds, Idle
  <2>4. ASSUME DeleteEnvironment(j) PROVE \A i \in Jobs : Holds(job'[i], envs')
    BY <1>4, <2>4 DEF DeleteEnvironment
  <2>5. ASSUME SetGlobal(j) PROVE \A i \in Jobs : Holds(job'[i], envs')
    <3>1. job' = [job EXCEPT ![j] = AfterGlobal(job[j])] /\ UNCHANGED envs /\ job[j].pc = "setGlobal"
      BY <2>5 DEF SetGlobal, At
    <3>2. Holds(AfterGlobal(job[j]), envs)
      BY <1>0, <1>1, <3>1 DEF AfterGlobal, Holds, Idle, Job
    <3> QED
      BY <1>3, <3>1, <3>2 DEF TypeOK
  <2>6. ASSUME CheckUser(j) PROVE \A i \in Jobs : Holds(job'[i], envs')
    <3> DEFINE e == job[j].other
    <3>1. /\ job' = [job EXCEPT ![j] = [job[j] EXCEPT !.pc = "setUser", !.env = e, !.other = 0]]
          /\ e \in DOMAIN envs /\ envs[e].scope = "user" /\ UNCHANGED envs /\ job[j].pc = "checkUser"
      BY <2>6 DEF CheckUser, At, TypeOK
    <3>2. Holds([job[j] EXCEPT !.pc = "setUser", !.env = e, !.other = 0], envs)
      BY <1>0, <1>1, <3>1 DEF Holds, Job
    <3> QED
      BY <1>3, <3>1, <3>2 DEF TypeOK
  <2> QED
    BY <1>6, <2>1, <2>2, <2>3, <2>4, <2>5, <2>6 DEF JobStep
<1> QED
  <2>1. ASSUME NEW r, CreateUser(r) PROVE UNCHANGED <<job, envs>>
    BY <2>1 DEF CreateUser
  <2>2. ASSUME NEW u \in UserIds, DeleteUser(u) PROVE \A i \in Jobs : Holds(job'[i], envs')
    BY <1>4, <2>2 DEF DeleteUser
  <2>3. UNCHANGED <<job, envs>> => \A i \in Jobs : Holds(job'[i], envs')
    BY <1>1
  <2>4. UNCHANGED vars => UNCHANGED <<job, envs>>
    BY DEF vars
  <2> QED
    BY <1>5, <1>6, <2>1, <2>2, <2>3, <2>4 DEF Next

-----------------------------------------------------------------------------
(* Slots. *)

\* A slot is only pointed at a row that a handler still holds, and forgets its
\* choice when that row goes.
LEMMA SlotsFollow ==
    EnvironmentsInv /\ [Next]_vars => SlotFollowsChoice'
<1> SUFFICES ASSUME EnvironmentsInv, [Next]_vars PROVE SlotFollowsChoice'
  OBVIOUS
<1> USE DEF tables, slots
<1> DEFINE Kind(k) == IF k = 0 THEN "global" ELSE "user"
           Follows(k) == active[k] \in DOMAIN envs /\ envs[active[k]].scope = Kind(k)
           FollowsNext(k) == active'[k] \in DOMAIN envs' /\ envs'[active'[k]].scope = Kind(k)
<1>0. /\ TypeOK /\ JobsHoldTheirRows /\ envs \in Table(EnvIds, Env) /\ chosen \subseteq Slots
      /\ active \in [Slots -> 0 .. MaxEnv]
  BY DEF EnvironmentsInv, TypeOK
<1>1. \A k \in chosen : Follows(k)
  BY DEF EnvironmentsInv, SlotFollowsChoice, ActiveEnvs
<1>2. SUFFICES \A k \in chosen' : FollowsNext(k)
  BY DEF SlotFollowsChoice, ActiveEnvs
<1>3. ASSUME NEW S, NEW j, Drop(S, j), UNCHANGED active PROVE \A k \in chosen' : FollowsNext(k)
  <2> SUFFICES ASSUME NEW k \in chosen' PROVE FollowsNext(k)
    OBVIOUS
  <2>1. k \in chosen /\ active[k] \notin S /\ envs' = Without(envs, S)
    BY <1>3 DEF Drop
  <2>2. DOMAIN Without(envs, S) = DOMAIN envs \ S
        /\ \A e \in DOMAIN envs \ S : Without(envs, S)[e] = envs[e]
    BY <1>0, WithoutKeepsTheOthers
  <2> QED
    BY <1>1, <1>3, <2>1, <2>2
<1>4. ASSUME NEW u \in UserIds, NEW s \in {"global", "user"}, NEW o \in 0 .. MaxUser,
             CreateEnvironment(u, s, o)
      PROVE  \A k \in chosen' : FollowsNext(k)
  <2> DEFINE id == NewId(envs)
             row == [scope |-> s, owner |-> o]
  <2>1. id \in EnvIds /\ id \notin DOMAIN envs /\ row \in Env
    BY <1>0, <1>4, NewIdIsNew DEF CreateEnvironment, EnvIds, Env
  <2>2. envs' = Put(envs, id, row) /\ UNCHANGED slots
    BY <1>4 DEF CreateEnvironment
  <2> HIDE DEF id, row
  <2>3. /\ DOMAIN Put(envs, id, row) = DOMAIN envs \cup {id}
        /\ \A e \in DOMAIN envs \ {id} : Put(envs, id, row)[e] = envs[e]
    BY <1>0, <2>1, PutKeepsTheOthers
  <2> QED
    BY <1>1, <2>1, <2>2, <2>3
<1>5. ASSUME NEW j \in Jobs, SetGlobal(j) PROVE \A k \in chosen' : FollowsNext(k)
  <2>1. /\ job[j].pc = "setGlobal" /\ active' = [active EXCEPT ![0] = job[j].env]
        /\ chosen' = IF job[j].gone THEN chosen \ {0} ELSE chosen \cup {0}
        /\ envs' = envs
    BY <1>5 DEF SetGlobal, At
  <2>2. ~ job[j].gone => job[j].env \in DOMAIN envs /\ envs[job[j].env].scope = "global"
    BY <1>0, <2>1 DEF JobsHoldTheirRows, At
  <2>3. 0 \in Slots
    BY DEF Slots
  <2> QED
    BY <1>0, <1>1, <2>1, <2>2, <2>3
<1>6. ASSUME NEW j \in Jobs, SetUser(j) PROVE \A k \in chosen' : FollowsNext(k)
  <2> DEFINE mine == job[j].user
  <2>1. /\ job[j].pc = "setUser" /\ active' = [active EXCEPT ![mine] = job[j].env]
        /\ chosen' = IF job[j].gone THEN chosen \ {mine} ELSE chosen \cup {mine}
        /\ envs' = envs
    BY <1>6 DEF SetUser, At
  <2>2. /\ mine \in UserIds
        /\ ~ job[j].gone => job[j].env \in DOMAIN envs /\ envs[job[j].env].scope = "user"
    BY <1>0, <2>1 DEF JobsHoldTheirRows, At
  <2>3. mine \in Slots /\ mine # 0
    BY <2>2 DEF Slots, UserIds
  <2> QED
    BY <1>0, <1>1, <2>1, <2>2, <2>3
<1>7. CASE UNCHANGED <<envs, active, chosen>>
  BY <1>1, <1>7
<1> QED
  <2>1. ASSUME NEW u \in UserIds, DeleteUser(u) PROVE \A k \in chosen' : FollowsNext(k)
    BY <1>3, <2>1 DEF DeleteUser
  <2>2. ASSUME NEW j \in Jobs, DeleteEnvironment(j) PROVE \A k \in chosen' : FollowsNext(k)
    BY <1>3, <2>2 DEF DeleteEnvironment
  <2>3. ASSUME NEW j \in Jobs, JobStep(j) PROVE \A k \in chosen' : FollowsNext(k)
    BY <1>5, <1>6, <1>7, <2>2, <2>3
    DEF JobStep, BeginManage, BeginActivate, UpdateEnvironment, CheckUser, GiveUp
  <2>4. (\E r \in {"admin", "user"} : CreateUser(r)) \/ UNCHANGED vars
           => UNCHANGED <<envs, active, chosen>>
    BY DEF CreateUser, vars
  <2> QED
    BY <1>4, <1>7, <2>1, <2>3, <2>4 DEF Next

-----------------------------------------------------------------------------
\* EnvironmentsInv is inductive: through races of activations, deletions and
\* accounts that go, a slot holds an environment of its own scope until the
\* chosen one is deleted.
THEOREM EnvironmentsInvariance == Spec => []EnvironmentsInv
<1>1. Init => EnvironmentsInv
  <2> SUFFICES ASSUME Init PROVE EnvironmentsInv
    OBVIOUS
  <2>1. role \in Table(UserIds, {"admin", "user"})
    <3>1. DOMAIN role = 1 .. 2 /\ role[1] = "admin" /\ role[2] = "user"
      BY DEF Init
    <3>2. role \in [1 .. 2 -> {"admin", "user"}] /\ 1 .. 2 \subseteq UserIds
      BY DEF Init, UserIds
    <3> QED
      BY <3>1, <3>2, TablesAreFunctions
  <2>2. envs \in Table(EnvIds, Env)
    <3>1. DOMAIN envs = {} /\ envs \in [{} -> Env]
      BY DEF Init
    <3> QED
      BY <3>1, TablesAreFunctions
  <2>3. active \in [Slots -> 0 .. MaxEnv] /\ chosen = {} /\ job = [j \in Jobs |-> Idle]
    BY NoIdIsTyped DEF Init
  <2>4. JobsHoldTheirRows
    BY <2>3 DEF JobsHoldTheirRows, At, Idle
  <2> QED
    BY <2>1, <2>2, <2>3, <2>4, NoIdIsTyped DEF EnvironmentsInv, TypeOK, SlotFollowsChoice
<1>2. EnvironmentsInv /\ [Next]_vars => EnvironmentsInv'
  BY TypesStay, HandlersKeepTheirRows, SlotsFollow DEF EnvironmentsInv
<1> QED
  BY <1>1, <1>2, PTL DEF Spec

\* What an ordinary user's update or delete is about to write is that user's own
\* environment, unless the row it has checked was deleted meanwhile.
THEOREM EnvironmentsOrdinaryWritesStayHome == Spec => []OrdinaryWritesStayHome
<1>1. EnvironmentsInv => OrdinaryWritesStayHome
  BY DEF EnvironmentsInv, JobsHoldTheirRows, OrdinaryWritesStayHome
<1> QED
  BY <1>1, EnvironmentsInvariance, PTL
=============================================================================
