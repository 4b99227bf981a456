------------------------------- MODULE Vault -------------------------------
(***************************************************************************)
(* The secret store of PostLite: the `secrets` table, the in-memory cache  *)
(* of decrypted values in crypto.Vault, the admin handlers that write      *)
(* secrets, and the executions that look them up.  Every HTTP handler is a *)
(* goroutine; a SQL statement or a critical section of Vault.mu is one     *)
(* step, and anything may happen between two of them.                      *)
(*                                                                         *)
(* A secret's content is the number of the write that produced it, so an   *)
(* older content is a smaller number.  A cache entry's expiry is kept as   *)
(* the time it has left: 0 stands for an expired entry and for no entry,   *)
(* which Vault.Lookup treats alike.                                        *)
(***************************************************************************)
EXTENDS Integers

CONSTANTS
    Names,      \* secret names
    Readers,    \* goroutines executing a request that refers to secrets
    Writers,    \* goroutines serving an admin's write to the secrets
    Keys,       \* master keys the process may be started with
    NoKey,      \* stands for "no row" in secrets
    CacheTTL,   \* cacheTTL, in clock ticks
    MaxWrites   \* bound on the writes that reach the database

ASSUME NamesAssumption == Names # {}
ASSUME KeysAssumption == NoKey \notin Keys
ASSUME BoundsAssumption == CacheTTL \in Nat \ {0} /\ MaxWrites \in Nat

VARIABLES
    masterKey,  \* the key this process seals and opens with
    row,        \* row[n]: the table's row for n and the write that left it so
    cache,      \* cache[n]: Vault.cache
    gen,        \* Vault.gen
    reader,     \* reader[r]: a Lookup in progress, or the last one's result
    writer,     \* writer[w]: an admin write in progress
    writes,     \* history: how many writes reached the table
    acked       \* history: acked[n] is the last write to n followed by Invalidate

vars == <<masterKey, row, cache, gen, reader, writer, writes, acked>>

-----------------------------------------------------------------------------
WriteNo == 0 .. MaxWrites

\* key = NoKey: there is no row.  Otherwise the blob was sealed under `key`.
Row == [ver : WriteNo, key : Keys \cup {NoKey}]

\* fetchGen is history: Vault.gen when the blob of the entry was fetched.
Entry == [ver : WriteNo, ttl : 0 .. CacheTTL, gen : Nat, fetchGen : Nat]

\* floor is history: acked[name] when the Lookup began.
ReaderState == [pc : {"idle", "fetch", "store", "found", "missing"}, name : Names,
                ver : WriteNo, gen : Nat, fetchGen : Nat, floor : WriteNo]

WriterState == [pc : {"idle", "insert", "invalidate"}, name : Names, ver : WriteNo]

TypeOK ==
    /\ masterKey \in Keys
    /\ row \in [Names -> Row]
    /\ cache \in [Names -> Entry]
    /\ gen \in Nat
    /\ reader \in [Readers -> ReaderState]
    /\ writer \in [Writers -> WriterState]
    /\ writes \in WriteNo
    /\ acked \in [Names -> WriteNo]

Present(n) == row[n].key # NoKey

Asking(n) == [pc |-> "fetch", name |-> n, ver |-> 0, gen |-> 0, fetchGen |-> 0,
              floor |-> acked[n]]

Served(n) == [pc |-> "found", name |-> n, ver |-> cache[n].ver, gen |-> gen,
              fetchGen |-> cache[n].fetchGen, floor |-> acked[n]]

AnyName == CHOOSE n \in Names : TRUE

IdleReader == [pc |-> "idle", name |-> AnyName, ver |-> 0, gen |-> 0, fetchGen |-> 0,
               floor |-> 0]

IdleWriter == [pc |-> "idle", name |-> AnyName, ver |-> 0]

NoEntry == [ver |-> 0, ttl |-> 0, gen |-> 0, fetchGen |-> 0]

EmptyCache == [n \in Names |-> NoEntry]

\* A new Vault in a process that is handed key k.
NewVault(k) ==
    /\ masterKey' = k
    /\ cache' = EmptyCache
    /\ gen' = 0
    /\ reader' = [r \in Readers |-> IdleReader]
    /\ writer' = [w \in Writers |-> IdleWriter]

Init ==
    /\ masterKey \in Keys
    /\ row = [n \in Names |-> [ver |-> 0, key |-> NoKey]]
    /\ cache = EmptyCache
    /\ gen = 0
    /\ reader = [r \in Readers |-> IdleReader]
    /\ writer = [w \in Writers |-> IdleWriter]
    /\ writes = 0
    /\ acked = [n \in Names |-> 0]

-----------------------------------------------------------------------------
(* Vault.Lookup, as the resolver of an execution calls it. *)

HitIgnoringExpiry(n) == cache[n].gen = gen /\ cache[n].ver > 0

Hit(n) == cache[n].gen = gen /\ cache[n].ttl > 0

\* The critical section under RLock: a hit ends the call.
LookupCheck(r, n) ==
    /\ reader[r].pc \notin {"fetch", "store"}
    /\ reader' = [reader EXCEPT ![r] = IF Hit(n) THEN Served(n) ELSE Asking(n)]
    /\ UNCHANGED <<masterKey, row, cache, gen, writer, writes, acked>>

\* fetch(), a SELECT with no lock held, and Open of the blob it returns.
LookupFetch(r) ==
    /\ reader[r].pc = "fetch"
    /\ row[reader[r].name].key = masterKey
    /\ reader' = [reader EXCEPT ![r].pc = "store",
                                 ![r].ver = row[reader[r].name].ver,
                                 ![r].fetchGen = gen]
    /\ UNCHANGED <<masterKey, row, cache, gen, writer, writes, acked>>

\* A missing row, a database error and a blob sealed under another key: the
\* lookup answers "not found" and caches nothing.
LookupFails(r) ==
    /\ reader[r].pc = "fetch"
    /\ reader' = [reader EXCEPT ![r].pc = "missing"]
    /\ UNCHANGED <<masterKey, row, cache, gen, writer, writes, acked>>

\* The critical section under Lock: the entry is stamped with the gen of NOW.
LookupStore(r) ==
    /\ reader[r].pc = "store"
    /\ cache' = [cache EXCEPT ![reader[r].name] =
            [ver |-> reader[r].ver, ttl |-> CacheTTL, gen |-> gen,
             fetchGen |-> reader[r].fetchGen]]
    /\ reader' = [reader EXCEPT ![r].pc = "found", ![r].gen = gen]
    /\ UNCHANGED <<masterKey, row, gen, writer, writes, acked>>

-----------------------------------------------------------------------------
(* The admin handlers. *)

\* What a write of the table leaves behind: row n as `key` says, and writer w
\* about to call Vault.Invalidate.
Commit(w, n, key) ==
    /\ writes < MaxWrites
    /\ writes' = writes + 1
    /\ row' = [row EXCEPT ![n] = [ver |-> writes + 1, key |-> key]]
    /\ writer' = [writer EXCEPT ![w] =
                    [pc |-> "invalidate", name |-> n, ver |-> writes + 1]]

\* createSecret up to its exists check, whose database error is ignored; when
\* the row is there the handler answers 409 and nothing changes.
CreateCheck(w, n, dbError) ==
    /\ writer[w].pc = "idle"
    /\ dbError \/ ~ Present(n)
    /\ writer' = [writer EXCEPT ![w] = [pc |-> "insert", name |-> n, ver |-> 0]]
    /\ UNCHANGED <<masterKey, row, cache, gen, reader, writes, acked>>

\* The INSERT of createSecret; secrets.name is UNIQUE.
CreateInsert(w) ==
    /\ writer[w].pc = "insert"
    /\ ~ Present(writer[w].name)
    /\ Commit(w, writer[w].name, masterKey)
    /\ UNCHANGED <<masterKey, cache, gen, reader, acked>>

\* The INSERT is refused and createSecret answers 500 without Invalidate.
CreateRefused(w) ==
    /\ writer[w].pc = "insert"
    /\ Present(writer[w].name)
    /\ writer' = [writer EXCEPT ![w].pc = "idle"]
    /\ UNCHANGED <<masterKey, row, cache, gen, reader, writes, acked>>

\* updateSecret: UPDATE ... WHERE name; no row matched is a 404 without Invalidate.
UpdateRow(w, n) ==
    /\ writer[w].pc = "idle"
    /\ Present(n)
    /\ Commit(w, n, masterKey)
    /\ UNCHANGED <<masterKey, cache, gen, reader, acked>>

\* deleteSecret: DELETE ... WHERE id.
DeleteRow(w, n) ==
    /\ writer[w].pc = "idle"
    /\ Present(n)
    /\ Commit(w, n, NoKey)
    /\ UNCHANGED <<masterKey, cache, gen, reader, acked>>

\* deleteSecret of an id that no row has: no row changes, Invalidate follows.
DeleteNothing(w, n) ==
    /\ writer[w].pc = "idle"
    /\ ~ Present(n)
    /\ writes < MaxWrites
    /\ writes' = writes + 1
    /\ writer' = [writer EXCEPT ![w] = [pc |-> "invalidate", name |-> n, ver |-> row[n].ver]]
    /\ UNCHANGED <<masterKey, row, cache, gen, reader, acked>>

Later(a, b) == IF a > b THEN a ELSE b

\* Vault.Invalidate, after which the handler answers: the write is acknowledged.
InvalidateKeepingGen(w) ==
    /\ writer[w].pc = "invalidate"
    /\ gen' = gen
    /\ cache' = EmptyCache
    /\ writer' = [writer EXCEPT ![w].pc = "idle"]
    /\ acked' = [acked EXCEPT ![writer[w].name] = Later(@, writer[w].ver)]
    /\ UNCHANGED <<masterKey, row, reader, writes>>

Invalidate(w) ==
    /\ writer[w].pc = "invalidate"
    /\ gen' = gen + 1
    /\ cache' = EmptyCache
    /\ writer' = [writer EXCEPT ![w].pc = "idle"]
    /\ acked' = [acked EXCEPT ![writer[w].name] = Later(@, writer[w].ver)]
    /\ UNCHANGED <<masterKey, row, reader, writes>>

-----------------------------------------------------------------------------
\* Time passes: every live entry is one tick closer to its expiry.
Tick ==
    /\ \E n \in Names : cache[n].ttl > 0
    /\ cache' = [n \in Names |->
                   [cache[n] EXCEPT !.ttl = IF @ > 0 THEN @ - 1 ELSE 0]]
    /\ UNCHANGED <<masterKey, row, gen, reader, writer, writes, acked>>

\* The process stops, at any point of any handler, and starts again.
Restart(k) ==
    /\ NewVault(k)
    /\ UNCHANGED <<row, writes, acked>>

Next ==
    \/ \E r \in Readers :
        \/ \E n \in Names : LookupCheck(r, n)
        \/ LookupFetch(r)
        \/ LookupFails(r)
        \/ LookupStore(r)
    \/ \E w \in Writers :
        \/ \E n \in Names, dbError \in BOOLEAN : CreateCheck(w, n, dbError)
        \/ CreateInsert(w)
        \/ CreateRefused(w)
        \/ \E n \in Names : UpdateRow(w, n) \/ DeleteRow(w, n) \/ DeleteNothing(w, n)
        \/ Invalidate(w)
    \/ Tick
    \/ \E k \in Keys : Restart(k)

\* Only the clock is owed progress; no lookup and no write has to come.
Spec == Init /\ [][Next]_vars /\ WF_vars(Tick)

-----------------------------------------------------------------------------
(* Correctness. *)

\* What updateSecret, deleteSecret and Lookup guarantee together: a value older
\* than a write acknowledged before the lookup began is only ever served from an
\* entry whose blob was fetched before the last Invalidate and stored after it.
LookupNotStale ==
    \A r \in Readers :
        reader[r].pc = "found" /\ reader[r].ver < reader[r].floor
            => reader[r].fetchGen # reader[r].gen

\* The inductive strengthening of LookupNotStale.
EntryFresh(n) ==
    /\ cache[n].fetchGen <= cache[n].gen /\ cache[n].gen <= gen
    /\ cache[n].ttl > 0 /\ cache[n].fetchGen = gen => cache[n].ver >= acked[n]

ReaderFresh(r) ==
    /\ reader[r].floor <= acked[reader[r].name]
    /\ reader[r].pc = "store" =>
        /\ reader[r].fetchGen <= gen
        /\ reader[r].fetchGen = gen => reader[r].ver >= acked[reader[r].name]
        /\ reader[r].ver >= reader[r].floor

\* The vault's bookkeeping under every interleaving of lookups and writes: what
\* was fetched since the last Invalidate is no older than the last acknowledged
\* write, and acknowledgements never run ahead of the table.
FreshnessInv ==
    /\ LookupNotStale
    /\ \A n \in Names : EntryFresh(n) /\ acked[n] <= row[n].ver /\ row[n].ver <= writes
    /\ \A r \in Readers : ReaderFresh(r)
    /\ \A w \in Writers : writer[w].pc = "invalidate" =>
            writer[w].ver <= row[writer[w].name].ver

\* A value older than an acknowledged write, servable from the cache.
Stale(n) == Hit(n) /\ cache[n].ver < acked[n]

\* cacheTTL is what bounds a stale entry: when the writes stop, the cache ends
\* up serving nothing older than the last acknowledged write.
StaleEntriesDieOut == \A n \in Names : <>[](~ Stale(n))

\* DESIGN.md, section 6: every write calls Invalidate and raises gen, so that an
\* execution cannot keep using the old value after a secret was overwritten.
NoOldValueAfterWrite ==
    \A r \in Readers :
        reader[r].pc = "found" => reader[r].ver >= reader[r].floor
=============================================================================
