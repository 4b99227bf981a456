--------------------------- MODULE StartupProofs ----------------------------
(***************************************************************************)
(* For any processes and any number of migrations: the schema is what      *)
(* user_version says, and a process that has opened the database finds all *)
(* of it.  It holds of the migrations, and of a start-up as a whole: the   *)
(* key, the audit log and the ends of processes are, to the migrations,    *)
(* their own steps or stutters.  A key file that can be read keeps one key *)
(* through every crash, and an audit line appended alone stays in the log, *)
(* in its place, for as long as the log has room.                          *)
(***************************************************************************)
EXTENDS Startup, FiniteSetTheorems, SequenceTheorems, TLAPS

\* Applying the migration that the holder of the lock may apply gives the schema
\* of that migration's number.
LEMMA MigratedIsItsNumber ==
    ASSUME NEW i \in 1 .. N, NEW v \in 0 .. N, i <= v + 1, Applies(i, 1 .. v)
    PROVE  Migrated(i, 1 .. v) = 1 .. i /\ v <= i
<1>1. N \in Nat /\ Rebuilds \subseteq {N}
    BY MigrationsAssumption
<1>2. CASE i \in Rebuilds
    <2>1. i = N
        BY <1>1, <1>2
    <2> QED
        BY <1>1, <1>2, <2>1 DEF Migrated
<1>3. CASE i \notin Rebuilds
    <2>1. i \notin 1 .. v
        BY <1>3 DEF Applies
    <2>2. i = v + 1
        BY <1>1, <2>1
    <2>3. 1 .. v \cup {i} = 1 .. i
        BY <1>1, <2>2
    <2> QED
        BY <1>1, <1>3, <2>2, <2>3 DEF Migrated
<1> QED
    BY <1>2, <1>3

LEMMA MigrationsInitInv == MigrationsInit => MigrationsInv
<1> SUFFICES ASSUME MigrationsInit PROVE MigrationsInv
    OBVIOUS
<1>1. N \in Nat /\ NoProc \notin Procs
    BY MigrationsAssumption, ProcsAssumption
<1> QED
    BY <1>1 DEF MigrationsInit, MigrationsInv, MigrationsTypeOK, SchemaIsItsVersion, Down, MigPc

\* Every step keeps the inductive invariant.
LEMMA MigrationsStepInv == MigrationsInv /\ [MigrationsNext]_migVars => MigrationsInv'
<1> SUFFICES ASSUME MigrationsInv, [MigrationsNext]_migVars PROVE MigrationsInv'
    OBVIOUS
<1> USE DEF MigrationsInv, MigrationsTypeOK, SchemaIsItsVersion, MigPc
<1>0. N \in Nat /\ NoProc \notin Procs
    BY MigrationsAssumption, ProcsAssumption
<1>1. ASSUME NEW p \in Procs, StartOpening(p) PROVE MigrationsInv'
    BY <1>0, <1>1 DEF StartOpening, Goto
<1>2. ASSUME NEW p \in Procs, ReadVersion(p) PROVE MigrationsInv'
    BY <1>0, <1>2 DEF ReadVersion
<1>3. ASSUME NEW p \in Procs, BeginTx(p) PROVE MigrationsInv'
    BY <1>0, <1>3 DEF BeginTx, Goto
<1>4. ASSUME NEW p \in Procs, ExecMigration(p) PROVE MigrationsInv'
    BY <1>0, <1>4 DEF ExecMigration, Goto
<1>5. ASSUME NEW p \in Procs, StampVersion(p) PROVE MigrationsInv'
    BY <1>0, <1>5 DEF StampVersion, Goto
<1>6. ASSUME NEW p \in Procs, CommitMigration(p) PROVE MigrationsInv'
    <2>1. mig[p].i \in 1 .. N /\ mig[p].i <= version + 1 /\ Applies(mig[p].i, 1 .. version)
        BY <1>0, <1>6 DEF CommitMigration
    <2>2. schema' = 1 .. version' /\ version <= version' /\ version' = mig[p].i
        BY <1>6, <2>1, MigratedIsItsNumber DEF CommitMigration
    <2>3. writer = p /\ writer' = NoProc /\ mig' = [mig EXCEPT ![p] = [pc |-> "loop", i |-> mig[p].i + 1]]
        BY <1>6 DEF CommitMigration
    <2>4. MigrationsTypeOK'
        BY <1>0, <2>1, <2>2, <2>3
    <2>5. ASSUME NEW q \in Procs, q # p
          PROVE  mig'[q] = mig[q] /\ mig[q].pc \notin {"stamp", "commit"}
        BY <2>3, <2>5
    <2>6. mig'[p] = [pc |-> "loop", i |-> version' + 1]
        BY <2>2, <2>3
    <2> QED
        BY <1>0, <2>1, <2>2, <2>3, <2>4, <2>5, <2>6
<1>7. ASSUME NEW p \in Procs, OpenDone(p) PROVE MigrationsInv'
    BY <1>0, <1>7 DEF OpenDone, Goto
<1>8. ASSUME NEW p \in Procs, StopProcess(p) PROVE MigrationsInv'
    BY <1>0, <1>8 DEF StopProcess, Down
<1>9. ASSUME UNCHANGED migVars PROVE MigrationsInv'
    BY <1>9 DEF migVars, Applies
<1> QED
    BY <1>1, <1>2, <1>3, <1>4, <1>5, <1>6, <1>7, <1>8, <1>9 DEF MigrationsNext, OpenStep

\* The variables keep their types (db.Migrate).
THEOREM MigrationsTypeCorrect == MigrationsSpec => []MigrationsTypeOK
<1>1. MigrationsInv => MigrationsTypeOK
    BY DEF MigrationsInv
<1> QED
    BY <1>1, MigrationsInitInv, MigrationsStepInv, PTL DEF MigrationsSpec

\* Whatever processes migrate at once and wherever they stop, user_version names
\* exactly what is in the database (db.Migrate, one transaction per migration).
THEOREM MigrationsSchemaIsItsVersion == MigrationsSpec => []SchemaIsItsVersion
<1>1. MigrationsInv => SchemaIsItsVersion
    BY DEF MigrationsInv
<1> QED
    BY <1>1, MigrationsInitInv, MigrationsStepInv, PTL DEF MigrationsSpec

\* A process past db.Open has the whole schema, and keeps it.
THEOREM MigrationsOpenIsCurrent == MigrationsSpec => []OpenDatabaseIsCurrent
<1>1. MigrationsInv => OpenDatabaseIsCurrent
    BY DEF MigrationsInv, OpenDatabaseIsCurrent, SchemaIsItsVersion
<1> QED
    BY <1>1, MigrationsInitInv, MigrationsStepInv, PTL DEF MigrationsSpec

-----------------------------------------------------------------------------

\* Every step of a start-up is a step of the migrations or leaves them alone.
LEMMA StartupStepMigrates == [StartupNext]_startupVars => [MigrationsNext]_migVars
<1> SUFFICES ASSUME [StartupNext]_startupVars PROVE [MigrationsNext]_migVars
    OBVIOUS
<1>1. ASSUME NEW p \in Procs, Open(p) PROVE MigrationsNext
    BY <1>1 DEF Open, MigrationsNext
<1>2. ASSUME NEW p \in Procs, Stop(p) PROVE MigrationsNext
    BY <1>2 DEF Stop, MigrationsNext
<1>3. ASSUME LoadKey PROVE UNCHANGED migVars
    BY <1>3 DEF LoadKey
<1>4. ASSUME NEW w \in Appenders, AppendAudit(w) PROVE UNCHANGED migVars
    BY <1>4 DEF AppendAudit
<1>5. ASSUME UNCHANGED startupVars PROVE UNCHANGED migVars
    BY <1>5 DEF startupVars
<1> QED
    BY <1>1, <1>2, <1>3, <1>4, <1>5 DEF StartupNext

\* The start-up implements the migrations (cmd/postlite and cmd/pwreset both go
\* through db.Open first).
THEOREM StartupImplementsMigrations == StartupSpec => MigrationsSpec
<1>1. StartupInit => MigrationsInit
    BY DEF StartupInit
<1> QED
    BY <1>1, StartupStepMigrates, PTL DEF StartupSpec, MigrationsSpec

\* While the server and pwreset start, migrate, die and start again, user_version
\* names what is in the database, and whoever has it open finds all of it.
THEOREM StartupSchemaSound == StartupSpec => [](SchemaIsItsVersion /\ OpenDatabaseIsCurrent)
    BY StartupImplementsMigrations, MigrationsSchemaIsItsVersion, MigrationsOpenIsCurrent, PTL

-----------------------------------------------------------------------------
(* The master key, for any keys and any number of reads that fail. *)

LEMMA KeysInPlayAreFinite ==
    ASSUME MasterKeyTypeOK, IsFiniteSet(usedKeys)
    PROVE  /\ IsFiniteSet(KeysInPlay) /\ Cardinality(KeysInPlay) \in Nat
           /\ Cardinality(usedKeys) <= Cardinality(KeysInPlay)
<1>1. IsFiniteSet(keyFile) /\ IsFiniteSet(loading.key)
    <2>1. \A f \in File : f = {} \/ \E k \in Keys : f = {k}
        BY DEF File
    <2>2. ASSUME NEW f \in File PROVE IsFiniteSet(f)
        <3>1. IsFiniteSet({}) /\ \A k \in Keys : IsFiniteSet({k})
            BY FS_EmptySet, FS_Singleton
        <3>2. CASE \E k \in Keys : f = {k}
            <4>1. PICK k \in Keys : f = {k}
                BY <3>2
            <4> QED
                BY <3>1, <4>1
        <3>3. CASE f = {}
            BY <3>1, <3>3
        <3> QED
            BY <2>1, <3>2, <3>3
    <2> QED
        BY <2>2 DEF MasterKeyTypeOK
<1>2. IsFiniteSet(usedKeys \cup keyFile)
    BY <1>1, FS_Union
<1>3. IsFiniteSet(KeysInPlay)
    BY <1>1, <1>2, FS_Union, FS_EmptySet DEF KeysInPlay
<1>4. usedKeys \subseteq KeysInPlay
    BY DEF KeysInPlay
<1> QED
    BY <1>3, <1>4, FS_CardinalityType, FS_Subset

\* A start-up brings no key into play but the ones it generates, and of them the second
\* costs a read that failed.
LEMMA MasterKeyStepInv ==
    ASSUME MasterKeyInv,
           \/ StartLoading \/ ReadKey \/ (\E k \in Keys : GenerateKey(k)) \/ WriteTmp \/ RenameTmp
           \/ StopLoading \/ UNCHANGED keyVars
    PROVE  MasterKeyInv'
<1>0. /\ MasterKeyTypeOK /\ IsFiniteSet(usedKeys) /\ misreads \in Nat
      /\ IsFiniteSet(KeysInPlay) /\ Cardinality(KeysInPlay) \in Nat
      /\ Cardinality(KeysInPlay) <= 1 + misreads
    BY KeysInPlayAreFinite, MisreadsAssumption DEF MasterKeyInv, MasterKeyTypeOK
<1>1. ASSUME KeysInPlay' \subseteq KeysInPlay, misreads' = misreads
      PROVE  Cardinality(KeysInPlay') <= 1 + misreads'
    <2>1. Cardinality(KeysInPlay') <= Cardinality(KeysInPlay) /\ Cardinality(KeysInPlay') \in Nat
        BY <1>0, <1>1, FS_Subset, FS_CardinalityType
    <2> QED
        BY <1>0, <1>1, <2>1
<1>2. CASE StartLoading
    <2>1. KeysInPlay' \subseteq KeysInPlay
        BY <1>0, <1>2 DEF StartLoading, KeysInPlay, MasterKeyTypeOK
    <2> QED
        BY <1>0, <1>1, <1>2, <2>1 DEF StartLoading, MasterKeyInv, MasterKeyTypeOK
<1>3. CASE ReadKey
    <2>1. KeysInPlay' \subseteq KeysInPlay
        BY <1>0, <1>3 DEF ReadKey, KeysInPlay
    <2>2. IsFiniteSet(usedKeys')
        <3>1. usedKeys' \subseteq KeysInPlay
            BY <1>3 DEF ReadKey, KeysInPlay
        <3> QED
            BY <1>0, <3>1, FS_Subset
    <2>3. usedKeys' \subseteq Keys
        BY <1>0, <1>3 DEF ReadKey, MasterKeyTypeOK, File
    <2> QED
        BY <1>0, <1>1, <1>3, <2>1, <2>2, <2>3 DEF ReadKey, MasterKeyInv, MasterKeyTypeOK
<1>4. ASSUME NEW k \in Keys, GenerateKey(k) PROVE MasterKeyInv'
    <2>1. KeysInPlay' = KeysInPlay \cup {k} /\ (keyFile = {} => KeysInPlay' = {k})
        BY <1>0, <1>4 DEF GenerateKey, KeysInPlay, MasterKeyTypeOK, MasterKeyInv
    <2>2. Cardinality(KeysInPlay') <= 1 + misreads'
        <3>1. CASE keyFile = {}
            <4>1. Cardinality(KeysInPlay') = 1
                BY <2>1, <3>1, FS_Singleton
            <4> QED
                BY <1>0, <1>4, <3>1, <4>1 DEF GenerateKey
        <3>2. CASE keyFile # {}
            <4>1. misreads' = misreads + 1
                BY <1>4, <3>2 DEF GenerateKey
            <4>2. CASE k \in KeysInPlay
                <5>1. KeysInPlay' = KeysInPlay
                    BY <2>1, <4>2
                <5> QED
                    BY <1>0, <4>1, <5>1
            <4>3. CASE k \notin KeysInPlay
                <5>1. Cardinality(KeysInPlay \cup {k}) = Cardinality(KeysInPlay) + 1
                    BY <1>0, <4>3, FS_AddElement
                <5> QED
                    BY <1>0, <2>1, <4>1, <5>1
            <4> QED
                BY <4>2, <4>3
        <3> QED
            BY <3>1, <3>2
    <2>3. misreads' \in 0 .. MaxMisreads
        BY <1>0, <1>4, MisreadsAssumption DEF GenerateKey, MasterKeyTypeOK
    <2>4. {k} \in File
        BY DEF File
    <2> QED
        BY <1>0, <1>4, <2>2, <2>3, <2>4 DEF GenerateKey, MasterKeyInv, MasterKeyTypeOK
<1>5. CASE WriteTmp
    <2>1. KeysInPlay' \subseteq KeysInPlay
        BY <1>0, <1>5 DEF WriteTmp, KeysInPlay, MasterKeyTypeOK
    <2> QED
        BY <1>0, <1>1, <1>5, <2>1 DEF WriteTmp, MasterKeyInv, MasterKeyTypeOK
<1>6. CASE RenameTmp
    <2>1. tmpFile = loading.key /\ keyFile' = loading.key /\ keyFile' # {}
        BY <1>6 DEF RenameTmp, MasterKeyInv
    <2>2. KeysInPlay' \subseteq KeysInPlay
        BY <1>0, <1>6, <2>1 DEF RenameTmp, KeysInPlay, MasterKeyTypeOK
    <2>3. IsFiniteSet(usedKeys')
        <3>1. usedKeys' \subseteq KeysInPlay
            BY <1>6 DEF RenameTmp, KeysInPlay
        <3> QED
            BY <1>0, <3>1, FS_Subset
    <2>4. usedKeys' \subseteq Keys
        BY <1>0, <1>6 DEF RenameTmp, MasterKeyTypeOK, File
    <2>5. tmpFile' \in File
        BY <1>6 DEF RenameTmp, File
    <2> QED
        BY <1>0, <1>1, <1>6, <2>1, <2>2, <2>3, <2>4, <2>5
           DEF RenameTmp, MasterKeyInv, MasterKeyTypeOK
<1>7. CASE StopLoading
    <2>1. KeysInPlay' \subseteq KeysInPlay
        BY <1>0, <1>7 DEF StopLoading, KeysInPlay, NotLoading
    <2>2. tmpFile' \in File /\ {} \in File
        BY <1>0, <1>7 DEF StopLoading, MasterKeyTypeOK, File
    <2> QED
        BY <1>0, <1>1, <1>7, <2>1, <2>2
           DEF StopLoading, NotLoading, MasterKeyInv, MasterKeyTypeOK
<1>8. CASE UNCHANGED keyVars
    BY <1>8 DEF keyVars, MasterKeyInv, MasterKeyTypeOK, KeysInPlay
<1> QED
    BY <1>2, <1>3, <1>4, <1>5, <1>6, <1>7, <1>8

LEMMA MasterKeyInitInv == MasterKeyInit => MasterKeyInv
<1> SUFFICES ASSUME MasterKeyInit PROVE MasterKeyInv
    OBVIOUS
<1>1. KeysInPlay = {} /\ usedKeys = {} /\ {} \in File
    BY DEF MasterKeyInit, KeysInPlay, NotLoading, File
<1>2. Cardinality(KeysInPlay) = 0 /\ IsFiniteSet(usedKeys)
    BY <1>1, FS_EmptySet
<1>3. misreads = 0 /\ misreads \in 0 .. MaxMisreads
    BY MisreadsAssumption DEF MasterKeyInit
<1> QED
    BY <1>1, <1>2, <1>3 DEF MasterKeyInit, MasterKeyInv, MasterKeyTypeOK, NotLoading

-----------------------------------------------------------------------------
(* The audit log, for any appenders, cap and number of lines. *)

LEMMA ShortLogs ==
    ASSUME NEW s
    PROVE  s \in SeqOf(Lines, MaxEntries)
             <=> s \in Seq(Lines) /\ Len(s) <= MaxEntries
<1>0. MaxEntries \in Nat \ {0}
    BY AuditAssumption
<1>1. ASSUME s \in SeqOf(Lines, MaxEntries) PROVE s \in Seq(Lines) /\ Len(s) <= MaxEntries
    <2>1. PICK m \in 0 .. MaxEntries : s \in [1 .. m -> Lines]
        BY <1>1 DEF SeqOf
    <2>2. s \in Seq(Lines) /\ Len(s) = m
        BY <1>0, <2>1
    <2> QED
        BY <1>0, <2>1, <2>2
<1>2. ASSUME s \in Seq(Lines), Len(s) <= MaxEntries PROVE s \in SeqOf(Lines, MaxEntries)
    <2>1. s \in [1 .. Len(s) -> Lines] /\ Len(s) \in Nat
        BY <1>2, LenProperties
    <2>2. Len(s) \in 0 .. MaxEntries
        BY <1>0, <1>2, <2>1
    <2> QED
        BY <2>1, <2>2 DEF SeqOf
<1> QED
    BY <1>1, <1>2

\* A log with one more line, entry by entry: a full one moves up by one.
LEMMA AppendedEntries ==
    ASSUME NEW cur \in Seq(Lines), Len(cur) <= MaxEntries, NEW line \in Lines
    PROVE  LET new == Appended(cur, line)
               up == IF Len(cur) = MaxEntries THEN 1 ELSE 0
           IN  /\ new \in Seq(Lines)
               /\ Len(new) = Len(cur) + 1 - up
               /\ \A i \in 1 .. Len(cur) - up : new[i] = cur[i + up]
               /\ new[Len(cur) + 1 - up] = line
<1>0. MaxEntries \in Nat \ {0}
    BY AuditAssumption
<1>1. CASE Len(cur) = MaxEntries
    <2>1. cur # <<>>
        BY <1>0, <1>1, EmptySeq
    <2> DEFINE rest == Tail(cur)
    <2>2. /\ rest \in Seq(Lines) /\ Len(rest) = Len(cur) - 1
          /\ \A i \in 1 .. Len(cur) - 1 : rest[i] = cur[i + 1]
        BY <2>1
    <2> HIDE DEF rest
    <2>3. /\ Append(rest, line) \in Seq(Lines) /\ Len(Append(rest, line)) = Len(rest) + 1
          /\ \A i \in 1 .. Len(rest) : Append(rest, line)[i] = rest[i]
          /\ Append(rest, line)[Len(rest) + 1] = line
        BY <2>2, AppendProperties
    <2>4. Appended(cur, line) = Append(rest, line)
        BY <1>1 DEF Appended, rest
    <2> QED
        BY <1>1, <2>2, <2>3, <2>4
<1>2. CASE Len(cur) # MaxEntries
    <2>1. Appended(cur, line) = Append(cur, line)
        BY <1>2 DEF Appended
    <2> QED
        BY <1>2, <2>1, AppendProperties
<1> QED
    BY <1>1, <1>2

\* A log whose lines are in order, with a newer one: it is still in order, and what it
\* has lost is older than all it has.
LEMMA AppendedShape ==
    ASSUME NEW cur \in SeqOf(Lines, MaxEntries), NEW line \in Lines,
           InOrder(cur), \A n \in ToSet(cur) : n < line
    PROVE  LET new == Appended(cur, line)
           IN  /\ new \in SeqOf(Lines, MaxEntries)
               /\ InOrder(new)
               /\ line \in ToSet(new) /\ \A n \in ToSet(new) : n <= line
               /\ Len(cur) = MaxEntries => Len(new) = MaxEntries
               /\ ToSet(new) \subseteq ToSet(cur) \cup {line}
               /\ \A n \in ToSet(cur) \ ToSet(new) :
                     Len(new) = MaxEntries /\ \A m \in ToSet(new) : m > n
<1> DEFINE new == Appended(cur, line)
           up == IF Len(cur) = MaxEntries THEN 1 ELSE 0
<1>0. MaxEntries \in Nat \ {0} /\ Lines \subseteq Nat
    BY AuditAssumption DEF Lines
<1>1. cur \in Seq(Lines) /\ Len(cur) \in Nat /\ Len(cur) <= MaxEntries
    BY ShortLogs, LenProperties
<1>2. /\ new \in Seq(Lines) /\ Len(new) = Len(cur) + 1 - up
      /\ \A i \in 1 .. Len(cur) - up : new[i] = cur[i + up]
      /\ new[Len(cur) + 1 - up] = line
    BY <1>1, AppendedEntries
<1>3. up \in {0, 1} /\ (up = 1 <=> Len(cur) = MaxEntries) /\ Len(cur) - up \in Nat
    BY <1>0, <1>1
<1> HIDE DEF new, up
<1>4. /\ DOMAIN cur = 1 .. Len(cur) /\ \A i \in 1 .. Len(cur) : cur[i] \in Nat /\ cur[i] < line
      /\ \A i, j \in 1 .. Len(cur) : i < j => cur[i] < cur[j]
    BY <1>0, <1>1, LenProperties DEF InOrder, ToSet
<1>5. DOMAIN new = 1 .. Len(new) /\ Len(new) = Len(cur) - up + 1
    BY <1>1, <1>2, <1>3, LenProperties
<1>6. ASSUME NEW i \in 1 .. Len(new)
      PROVE  \/ i \in 1 .. Len(cur) - up /\ i + up \in 1 .. Len(cur) /\ new[i] = cur[i + up]
             \/ i = Len(new) /\ new[i] = line
    BY <1>1, <1>2, <1>3, <1>5
<1>7. new \in SeqOf(Lines, MaxEntries)
    BY <1>0, <1>1, <1>2, <1>3, ShortLogs
<1>8. InOrder(new)
    <2> SUFFICES ASSUME NEW i \in 1 .. Len(new), NEW j \in 1 .. Len(new), i < j
                 PROVE  new[i] < new[j]
        BY <1>5 DEF InOrder
    <2>1. i \in 1 .. Len(cur) - up /\ i + up \in 1 .. Len(cur) /\ new[i] = cur[i + up]
        BY <1>5, <1>6
    <2> QED
        BY <1>3, <1>4, <1>6, <2>1
<1>9. line \in ToSet(new) /\ \A n \in ToSet(new) : n <= line
    <2>1. Len(new) \in 1 .. Len(new) /\ new[Len(new)] = line
        BY <1>1, <1>2, <1>3, <1>5
    <2>2. \A i \in 1 .. Len(new) : new[i] <= line
        BY <1>0, <1>4, <1>6
    <2> QED
        BY <1>5, <2>1, <2>2 DEF ToSet
<1>10. ToSet(new) \subseteq ToSet(cur) \cup {line}
    BY <1>4, <1>5, <1>6 DEF ToSet
<1>11. Len(cur) = MaxEntries => Len(new) = MaxEntries
    BY <1>0, <1>1, <1>3, <1>5
<1>12. ASSUME NEW n \in ToSet(cur) \ ToSet(new)
       PROVE  Len(new) = MaxEntries /\ \A m \in ToSet(new) : m > n
    <2>1. PICK k \in 1 .. Len(cur) : n = cur[k]
        BY <1>4 DEF ToSet
    <2>2. up = 1 /\ k = 1
        <3>1. ASSUME k - up \in 1 .. Len(cur) - up PROVE FALSE
            <4>1. new[k - up] = cur[k] /\ k - up \in 1 .. Len(new)
                BY <1>1, <1>2, <1>3, <1>5, <3>1
            <4> QED
                BY <1>5, <2>1, <4>1 DEF ToSet
        <3> QED
            BY <1>1, <1>3, <3>1
    <2>3. \A i \in 1 .. Len(new) : new[i] > n
        BY <1>0, <1>4, <1>6, <2>1, <2>2
    <2> QED
        BY <1>3, <1>5, <1>11, <2>2, <2>3 DEF ToSet
<1> QED
    BY <1>7, <1>8, <1>9, <1>10, <1>11, <1>12 DEF new

LEMMA EmptyLog == <<>> \in SeqOf(Lines, MaxEntries) /\ InOrder(<<>>) /\ ToSet(<<>>) = {}
<1>1. <<>> \in Seq(Lines) /\ Len(<<>>) <= MaxEntries
    BY AuditAssumption
<1>2. <<>> \in SeqOf(Lines, MaxEntries)
    BY <1>1, ShortLogs
<1>3. DOMAIN <<>> = {}
    OBVIOUS
<1> QED
    BY <1>2, <1>3 DEF InOrder, ToSet

\* With fewer lines to keep, and later, what was read well still is.
LEMMA StillReadWell ==
    ASSUME NEW r \in PendingAppend, NEW last \in Nat, NEW last2 \in Nat, last <= last2,
           NEW S, NEW S2, S2 \subseteq S, ReadWell(r, last, S)
    PROVE  ReadWell(r, last2, S2)
<1>1. r.line \in Nat /\ r.line <= last
    BY AuditAssumption DEF PendingAppend, ReadWell
<1>2. r.line <= last2
    BY <1>1
<1> QED
    BY <1>2 DEF ReadWell, Keeps

\* An append begins: it and those it finds under way know of each other.
LEMMA ReadLogStepInv ==
    ASSUME AuditInv, NEW w \in Appenders, NEW lost \in BOOLEAN, ReadLog(w, lost)
    PROVE  AuditInv'
<1> DEFINE begun == [line |-> lines + 1, cur |-> IF lost THEN <<>> ELSE log,
                     met |-> Appending # {}, lost |-> lost]
<1>0. /\ MaxLines \in Nat /\ lines \in Nat
      /\ log \in SeqOf(Lines, MaxEntries) /\ app \in [Appenders -> PendingAppend]
    BY AuditAssumption DEF AuditInv, AuditTypeOK
<1>1. /\ lines' = lines + 1 /\ lines + 1 \in Lines /\ log' = log /\ alone' = alone
      /\ app[w].line = 0 /\ lines' \in 0 .. MaxLines
    BY <1>0 DEF ReadLog, Lines, Appending
<1>2. begun \in PendingAppend
    BY <1>0, <1>1, EmptyLog DEF PendingAppend, Lines
<1>3. /\ app'[w] = begun
      /\ \A v \in Appenders \ {w} :
            app'[v] = IF v \in Appending THEN [app[v] EXCEPT !.met = TRUE] ELSE app[v]
      /\ app' = [v \in Appenders |-> app'[v]]
    BY <1>1 DEF ReadLog
<1>4. ASSUME NEW v \in Appenders \ {w}
      PROVE  /\ app'[v] \in PendingAppend
             /\ app'[v].line = app[v].line /\ app'[v].cur = app[v].cur
             /\ app'[v].lost = app[v].lost
             /\ v \in Appending => app'[v].met
    <2>1. app[v] \in PendingAppend
        BY <1>0
    <2>2. [app[v] EXCEPT !.met = TRUE] \in PendingAppend
        BY <2>1 DEF PendingAppend
    <2>3. app'[v] = IF v \in Appending THEN [app[v] EXCEPT !.met = TRUE] ELSE app[v]
        BY <1>3
    <2>4. CASE v \in Appending
        BY <2>1, <2>2, <2>3, <2>4 DEF PendingAppend
    <2>5. CASE v \notin Appending
        BY <2>1, <2>3, <2>5
    <2> QED
        BY <2>4, <2>5
<1>5. Appending' = Appending \cup {w} /\ w \notin Appending
    BY <1>0, <1>1, <1>3, <1>4 DEF Appending
<1>6. app' \in [Appenders -> PendingAppend]
    BY <1>2, <1>3, <1>4
<1>7. \A n \in ToSet(log) : n \in Nat /\ n <= lines
    BY <1>0, ShortLogs, LenProperties DEF ToSet, Lines, AuditInv
<1>8. ReadWell(begun, lines', alone')
    <2>1. begun.line <= lines' /\ begun.cur = (IF lost THEN <<>> ELSE log) /\ begun.lost = lost
        BY <1>0, <1>1
    <2>2. InOrder(begun.cur) /\ \A n \in ToSet(begun.cur) : n < begun.line
        BY <1>0, <1>7, EmptyLog DEF AuditInv
    <2>3. Keeps(log, alone')
        BY <1>1 DEF AuditInv, UncontendedLinesStay
    <2> HIDE DEF begun
    <2> QED
        BY <2>1, <2>2, <2>3 DEF ReadWell
<1>9. ASSUME NEW v \in Appending PROVE ReadWell(app'[v], lines', alone')
    <2>1. ReadWell(app[v], lines, alone) /\ v \in Appenders /\ app[v] \in PendingAppend
        BY <1>0 DEF AuditInv, Appending
    <2>2. ReadWell(app[v], lines', alone')
        BY <1>0, <1>1, <2>1, StillReadWell
    <2> QED
        BY <1>4, <1>5, <2>1, <2>2 DEF ReadWell
<1>10. \A u, v \in Appending' : u # v => app'[v].met
    <2>1. \A v \in Appending : v # w /\ v \in Appenders /\ app'[v].met
        BY <1>4, <1>5 DEF Appending
    <2>2. ASSUME Appending # {} PROVE app'[w].met
        <3>1. begun.met = TRUE
            BY <2>2
        <3> QED
            BY <1>3, <3>1
    <2> HIDE DEF begun
    <2>3. \A u, v \in Appending \cup {w} : u # v => app'[v].met
        BY <2>1, <2>2, Zenon
    <2> QED
        BY <1>5, <2>3
<1>11. AuditTypeOK' /\ UncontendedLinesStay' /\ InOrder(log)' /\ \A n \in ToSet(log') : n <= lines'
    BY <1>0, <1>1, <1>6, <1>7 DEF AuditInv, AuditTypeOK, UncontendedLinesStay
<1> QED
    BY <1>3, <1>5, <1>8, <1>9, <1>10, <1>11 DEF AuditInv

\* An append is stored: it met no other, and the log is what it has read, or what it had
\* read holds all that must stay, for nothing was stored alone since.
LEMMA WriteLogStepInv ==
    ASSUME AuditInv, NEW w \in Appenders, WriteLog(w)
    PROVE  AuditInv'
<1> DEFINE r == app[w]
           new == Appended(r.cur, r.line)
<1>0. /\ MaxLines \in Nat /\ lines \in Nat /\ lines \in 0 .. MaxLines /\ alone \subseteq Lines
      /\ app \in [Appenders -> PendingAppend] /\ w \in Appending
    BY AuditAssumption DEF AuditInv, AuditTypeOK, WriteLog
<1>1. /\ log' = new /\ lines' = lines
      /\ alone' = (IF r.lost THEN {} ELSE alone) \cup (IF r.met THEN {} ELSE {r.line})
      /\ app' = [app EXCEPT ![w] = NoAppend]
    BY DEF WriteLog
<1>2. /\ ReadWell(r, lines, alone) /\ r \in PendingAppend /\ r.line \in Lines
      /\ r.cur \in SeqOf(Lines, MaxEntries) /\ r.line \in Nat /\ r.line <= lines
    BY <1>0 DEF AuditInv, Appending, PendingAppend, Lines, ReadWell
<1>3. /\ new \in SeqOf(Lines, MaxEntries) /\ InOrder(new)
      /\ r.line \in ToSet(new) /\ \A n \in ToSet(new) : n <= r.line
      /\ Len(r.cur) = MaxEntries => Len(new) = MaxEntries
      /\ ToSet(new) \subseteq ToSet(r.cur) \cup {r.line}
      /\ \A n \in ToSet(r.cur) \ ToSet(new) :
            Len(new) = MaxEntries /\ \A m \in ToSet(new) : m > n
    BY <1>2, AppendedShape DEF ReadWell
<1>4. NoAppend \in PendingAppend
    BY <1>0, EmptyLog DEF NoAppend, PendingAppend
<1> HIDE DEF r, new
<1>5. app' \in [Appenders -> PendingAppend] /\ Appending' = Appending \ {w}
    BY <1>0, <1>1, <1>4 DEF Appending, NoAppend
<1>6. \A v \in Appending \ {w} : app'[v] = app[v] /\ app[v] \in PendingAppend
    BY <1>0, <1>1 DEF Appending
<1>7. alone' \subseteq Lines /\ alone' \subseteq alone \cup {r.line}
    BY <1>0, <1>1, <1>2
<1>8. Keeps(new, alone')
    <2>1. CASE r.lost
        <3>1. alone' \subseteq {r.line}
            BY <1>1, <2>1
        <3> QED
            BY <1>3, <3>1 DEF Keeps
    <2>2. CASE ~ r.lost
        <3> SUFFICES ASSUME NEW n \in alone' \ ToSet(new)
                     PROVE  Len(new) = MaxEntries /\ \A m \in ToSet(new) : m > n
            BY DEF Keeps
        <3>1. n \in alone /\ n \in Nat
            BY <1>0, <1>3, <1>7 DEF Lines
        <3>2. CASE n \in ToSet(r.cur)
            BY <1>3, <3>2
        <3>3. CASE n \notin ToSet(r.cur)
            <4>1. Len(r.cur) = MaxEntries /\ \A m \in ToSet(r.cur) : m > n
                BY <1>2, <2>2, <3>1, <3>3 DEF ReadWell, Keeps
            <4>2. r.line > n
                <5>1. r.cur[1] \in ToSet(r.cur) /\ r.cur[1] \in Nat
                    BY <1>2, <4>1, ShortLogs, LenProperties, AuditAssumption DEF ToSet, Lines
                <5> QED
                    BY <1>2, <3>1, <4>1, <5>1 DEF ReadWell
            <4> QED
                BY <1>3, <4>1, <4>2
        <3> QED
            BY <3>2, <3>3
    <2> QED
        BY <2>1, <2>2
<1>9. ASSUME NEW v \in Appending \ {w} PROVE ReadWell(app'[v], lines', alone')
    <2>1. r.met
        BY <1>0, <1>9 DEF AuditInv, r
    <2>2. alone' \subseteq alone
        BY <1>1, <2>1
    <2>3. ReadWell(app[v], lines, alone)
        BY <1>9 DEF AuditInv
    <2>4. ReadWell(app[v], lines', alone')
        BY <1>0, <1>1, <1>6, <2>2, <2>3, StillReadWell
    <2> QED
        BY <1>6, <2>4
<1>10. \A u, v \in Appending' : u # v => app'[v].met
    BY <1>5, <1>6 DEF AuditInv
<1>11. AuditTypeOK'
    BY <1>0, <1>1, <1>3, <1>5, <1>7 DEF AuditTypeOK
<1>12. \A n \in ToSet(new) : n <= lines
    <2>1. \A n \in ToSet(new) : n \in Nat
        <3>1. new \in Seq(Lines) /\ Lines \subseteq Nat
            BY <1>3, ShortLogs DEF Lines
        <3>2. new \in [1 .. Len(new) -> Lines]
            BY <3>1, LenProperties
        <3> QED
            BY <3>1, <3>2 DEF ToSet
    <2> QED
        BY <1>0, <1>2, <1>3, <2>1
<1> QED
    BY <1>1, <1>3, <1>5, <1>8, <1>9, <1>10, <1>11, <1>12 DEF AuditInv, UncontendedLinesStay

\* Appends that are cut off leave nothing.
LEMMA StopAppendsStepInv ==
    ASSUME AuditInv, NEW S, StopAppends(S)
    PROVE  AuditInv'
<1>0. app \in [Appenders -> PendingAppend]
    BY DEF AuditInv, AuditTypeOK
<1>1. /\ log' = log /\ lines' = lines /\ alone' = alone
      /\ app' = [w \in Appenders |-> IF w \in S THEN NoAppend ELSE app[w]]
    BY DEF StopAppends
<1>2. NoAppend \in PendingAppend
    BY EmptyLog, AuditAssumption DEF NoAppend, PendingAppend
<1>3. app' \in [Appenders -> PendingAppend]
    BY <1>0, <1>1, <1>2
<1>4. Appending' \subseteq Appending /\ \A v \in Appending' : app'[v] = app[v]
    BY <1>1 DEF Appending, NoAppend
<1>5. AuditTypeOK'
    BY <1>1, <1>3 DEF AuditInv, AuditTypeOK
<1> QED
    BY <1>1, <1>4, <1>5 DEF AuditInv, UncontendedLinesStay

LEMMA AuditInitInv == AuditInit => AuditInv
<1> SUFFICES ASSUME AuditInit PROVE AuditInv
    OBVIOUS
<1>1. NoAppend \in PendingAppend
    BY EmptyLog, AuditAssumption DEF NoAppend, PendingAppend
<1>2. AuditTypeOK
    BY <1>1, EmptyLog, AuditAssumption DEF AuditInit, AuditTypeOK
<1>3. Appending = {}
    BY DEF AuditInit, Appending, NoAppend
<1> QED
    BY <1>2, <1>3, EmptyLog DEF AuditInit, AuditInv, UncontendedLinesStay, Keeps

-----------------------------------------------------------------------------
\* A start-up takes the steps of each of the three, one at a time.
LEMMA StartupStepInv ==
    ASSUME MasterKeyInv, AuditInv, [StartupNext]_startupVars
    PROVE  MasterKeyInv' /\ AuditInv'
<1>1. ASSUME UNCHANGED keyVars PROVE MasterKeyInv'
    BY <1>1, MasterKeyStepInv
<1>2. ASSUME UNCHANGED auditVars PROVE AuditInv'
    BY <1>2 DEF auditVars, AuditInv, AuditTypeOK, UncontendedLinesStay, Appending
<1>3. ASSUME NEW p \in Procs, Open(p) PROVE MasterKeyInv' /\ AuditInv'
    BY <1>1, <1>2, <1>3 DEF Open
<1>4. ASSUME NEW p \in Procs, Stop(p) PROVE MasterKeyInv' /\ AuditInv'
    <2>1. AuditInv'
        BY <1>4, StopAppendsStepInv DEF Stop
    <2>2. StopLoading \/ UNCHANGED keyVars
        BY <1>4 DEF Stop
    <2> QED
        BY <2>1, <2>2, MasterKeyStepInv
<1>5. CASE LoadKey
    BY <1>2, <1>5, MasterKeyStepInv DEF LoadKey
<1>6. ASSUME NEW w \in Appenders, AppendAudit(w) PROVE MasterKeyInv' /\ AuditInv'
    <2>1. \/ \E lost \in BOOLEAN : ReadLog(w, lost)
          \/ WriteLog(w)
          \/ StopAppends({w})
        BY <1>6 DEF AppendAudit
    <2>2. UNCHANGED keyVars
        BY <1>6 DEF AppendAudit
    <2> QED
        BY <1>1, <2>1, <2>2, ReadLogStepInv, WriteLogStepInv, StopAppendsStepInv
<1>7. CASE UNCHANGED startupVars
    BY <1>1, <1>2, <1>7 DEF startupVars
<1> QED
    BY <1>3, <1>4, <1>5, <1>6, <1>7 DEF StartupNext

\* While processes start, append and stop at any moment, the key file and the audit log
\* keep what they promise, and what that rests on.
THEOREM StartupInvariance == StartupSpec => []StartupInv
<1>1. StartupInit => MasterKeyInv /\ AuditInv
    BY MasterKeyInitInv, AuditInitInv DEF StartupInit
<1>2. MasterKeyInv /\ AuditInv /\ [StartupNext]_startupVars => (MasterKeyInv /\ AuditInv)'
    BY StartupStepInv
<1>3. MigrationsTypeOK /\ MasterKeyInv /\ AuditInv => StartupInv
    BY DEF StartupInv, StartupTypeOK, MasterKeyInv, AuditInv
<1> QED
    BY <1>1, <1>2, <1>3, StartupImplementsMigrations, MigrationsTypeCorrect, PTL DEF StartupSpec

\* The server serves with one key, and with one more at most for each start that found a
\* key file and could not read it, wherever its starts were cut off.
THEOREM StartupOneKey == StartupSpec => []OneKeyPerReadableFile
<1>1. StartupInv => OneKeyPerReadableFile
    <2> SUFFICES ASSUME StartupInv PROVE OneKeyPerReadableFile
        OBVIOUS
    <2>1. /\ Cardinality(usedKeys) <= Cardinality(KeysInPlay)
          /\ Cardinality(KeysInPlay) \in Nat /\ Cardinality(KeysInPlay) <= 1 + misreads
          /\ IsFiniteSet(usedKeys) /\ misreads \in Nat
        BY KeysInPlayAreFinite, MisreadsAssumption DEF StartupInv, MasterKeyInv, MasterKeyTypeOK
    <2>2. Cardinality(usedKeys) \in Nat
        BY <2>1, FS_CardinalityType
    <2> QED
        BY <2>1, <2>2 DEF OneKeyPerReadableFile
<1> QED
    BY <1>1, StartupInvariance, PTL
==============================================================================
