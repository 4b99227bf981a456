------------------------------ MODULE Startup -------------------------------
(***************************************************************************)
(* The server and pwreset on one data directory: both open the database    *)
(* and migrate it, the server then loads its master key and serves, and    *)
(* while it serves, its handlers and pwreset append to the audit log.      *)
(* Either process may die at any moment and be started again.              *)
(* pwreset appends one line and exits; here it may append more, as that    *)
(* many runs of it do.                                                     *)
(***************************************************************************)
EXTENDS Migrations, MasterKey, AuditLog

CONSTANTS
    Server,         \* the process of cmd/postlite; the others are runs of cmd/pwreset
    ProcOf(_)       \* the process an appender runs in

ASSUME StartupAssumption == Server \in Procs /\ \A w \in Appenders : ProcOf(w) \in Procs

startupVars == <<migVars, keyVars, auditVars>>

StartupTypeOK == MigrationsTypeOK /\ MasterKeyTypeOK /\ AuditTypeOK

StartupInit == MigrationsInit /\ MasterKeyInit /\ AuditInit

\* Handlers run when main is past its key, pwreset appends as soon as it has the database.
Serving(p) == mig[p].pc = "open" /\ (p = Server => loading.pc = "ready")

Open(p) == OpenStep(p) /\ UNCHANGED <<keyVars, auditVars>>

LoadKey ==
    /\ mig[Server].pc = "open"
    /\ StartLoading \/ ReadKey \/ (\E k \in Keys : GenerateKey(k)) \/ WriteTmp \/ RenameTmp
    /\ UNCHANGED <<migVars, auditVars>>

AppendAudit(w) ==
    /\ Serving(ProcOf(w))
    /\ (\E lost \in BOOLEAN : ReadLog(w, lost)) \/ WriteLog(w) \/ (w \in Appending /\ StopAppends({w}))
    /\ UNCHANGED <<migVars, keyVars>>

\* A process ends, with what its goroutines were doing.
Stop(p) ==
    /\ StopProcess(p)
    /\ StopAppends({w \in Appenders : ProcOf(w) = p})
    /\ IF p = Server THEN StopLoading ELSE UNCHANGED keyVars

StartupNext ==
    \/ \E p \in Procs : Open(p) \/ Stop(p)
    \/ LoadKey
    \/ \E w \in Appenders : AppendAudit(w)

StartupSpec == StartupInit /\ [][StartupNext]_startupVars

-----------------------------------------------------------------------------
(* Correctness. *)

\* The database, the key file and the audit log are well formed, and lines whose
\* append overlapped no other stay in the log, through stops and starts; with what
\* that and the single key rest on.
StartupInv == StartupTypeOK /\ MasterKeyInv /\ AuditInv
=============================================================================
