------------------------------ MODULE MasterKey -----------------------------
(***************************************************************************)
(* The master key file, as the server loads it at its start: what can be   *)
(* read and decoded is the key, and in every other case, an unreadable     *)
(* file included, a new key is written to a temporary file and renamed.    *)
(* The flag and the environment variable, which come before the file, name *)
(* a key that no step here changes.  A crash is the process's; what the    *)
(* file system itself may lose is left out.                                *)
(***************************************************************************)
EXTENDS Integers, FiniteSets

CONSTANTS
    Keys,       \* the keys that are generated; a new one differs from all in use
    MaxMisreads \* bound on the reads of an existing key file that fail

ASSUME MisreadsAssumption == MaxMisreads \in Nat

VARIABLES
    keyFile,    \* what master.key holds: {} is no file
    tmpFile,    \* what master.key.tmp holds: {} is no file or a torn one
    loading,    \* the server's way through LoadOrCreateMasterKey, and its key
    usedKeys,   \* history: the keys the server has served with
    misreads    \* history: how often a key file was there and could not be read

keyVars == <<keyFile, tmpFile, loading, usedKeys, misreads>>

File == {{}} \cup {{k} : k \in Keys}

MasterKeyTypeOK ==
    /\ keyFile \in File
    /\ tmpFile \in File
    /\ loading \in [pc : {"off", "read", "write", "rename", "ready"}, key : File]
    /\ usedKeys \subseteq Keys
    /\ misreads \in 0 .. MaxMisreads

NotLoading == [pc |-> "off", key |-> {}]

MasterKeyInit ==
    /\ keyFile = {} /\ tmpFile = {}
    /\ loading = NotLoading
    /\ usedKeys = {}
    /\ misreads = 0

Generated == keyFile \cup tmpFile \cup loading.key \cup usedKeys

StartLoading ==
    /\ loading.pc = "off"
    /\ loading' = [loading EXCEPT !.pc = "read"]
    /\ UNCHANGED <<keyFile, tmpFile, usedKeys, misreads>>

ReadKey ==
    /\ loading.pc = "read"
    /\ keyFile # {}
    /\ loading' = [pc |-> "ready", key |-> keyFile]
    /\ usedKeys' = usedKeys \cup keyFile
    /\ UNCHANGED <<keyFile, tmpFile, misreads>>

\* GenerateMasterKey: there is no file, or reading or decoding it has failed.
GenerateKey(k) ==
    /\ loading.pc = "read"
    /\ k \in Keys \ Generated
    /\ loading' = [pc |-> "write", key |-> {k}]
    /\ keyFile = {} \/ misreads < MaxMisreads
    /\ misreads' = IF keyFile = {} THEN misreads ELSE misreads + 1
    /\ UNCHANGED <<keyFile, tmpFile, usedKeys>>

WriteTmp ==
    /\ loading.pc = "write"
    /\ tmpFile' = loading.key
    /\ loading' = [loading EXCEPT !.pc = "rename"]
    /\ UNCHANGED <<keyFile, usedKeys, misreads>>

RenameUnchecked ==
    /\ loading.pc = "rename"
    /\ \/ keyFile' = tmpFile /\ tmpFile' = {}
       \/ UNCHANGED <<keyFile, tmpFile>>
    /\ loading' = [loading EXCEPT !.pc = "ready"]
    /\ usedKeys' = usedKeys \cup loading.key
    /\ UNCHANGED misreads

RenameTmp ==
    /\ loading.pc = "rename"
    /\ keyFile' = tmpFile /\ tmpFile' = {}
    /\ loading' = [loading EXCEPT !.pc = "ready"]
    /\ usedKeys' = usedKeys \cup loading.key
    /\ UNCHANGED misreads

\* An error or a crash, in WriteFile perhaps, which leaves the temporary file torn.
StopLoading ==
    /\ loading' = NotLoading
    /\ tmpFile' \in IF loading.pc = "write" THEN {tmpFile, {}} ELSE {tmpFile}
    /\ UNCHANGED <<keyFile, usedKeys, misreads>>

-----------------------------------------------------------------------------
(* Correctness. *)

\* The secrets sealed before a crash open after the restart: the server serves
\* with a second key only after a start that could not read the key file it had,
\* wherever its other starts were cut off.
OneKeyPerReadableFile == Cardinality(usedKeys) <= 1 + misreads

\* The keys the server serves with, those it would find and the one it is about to store.
KeysInPlay ==
    usedKeys \cup keyFile \cup (IF loading.pc \in {"write", "rename"} THEN loading.key ELSE {})

\* What OneKeyPerReadableFile rests on: a key is stored before it is served with, and a
\* second one comes into play only through a read that failed.
MasterKeyInv ==
    /\ MasterKeyTypeOK
    /\ keyFile = {} => usedKeys = {}
    /\ loading.pc \in {"write", "rename"} => loading.key # {}
    /\ loading.pc = "rename" => tmpFile = loading.key
    /\ IsFiniteSet(usedKeys)
    /\ Cardinality(KeysInPlay) <= 1 + misreads
=============================================================================
