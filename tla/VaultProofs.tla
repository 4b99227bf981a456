---------------------------- MODULE VaultProofs ----------------------------
(***************************************************************************)
(* Vault's type invariant and its freshness invariant hold for any sets of *)
(* names, lookups, admins and keys, any cache TTL and any number of        *)
(* writes; LookupNotStale follows.                                         *)
(***************************************************************************)
EXTENDS Vault, TLAPS

USE NamesAssumption, KeysAssumption, BoundsAssumption

\* The dummy name of an idle handler is a name.
LEMMA AnyNameIsName == AnyName \in Names
  BY DEF AnyName

\* Every step keeps every variable of the vault in its type.
THEOREM VaultTypeCorrect == Spec => []TypeOK
<1> USE DEF TypeOK, WriteNo, Row, Entry, ReaderState, WriterState
<1>1. Init => TypeOK
  BY AnyNameIsName DEF Init, EmptyCache, NoEntry, IdleReader, IdleWriter
<1>2. TypeOK /\ [Next]_vars => TypeOK'
  <2> SUFFICES ASSUME TypeOK, [Next]_vars PROVE TypeOK'
    OBVIOUS
  <2>1. ASSUME NEW r \in Readers, NEW n \in Names, LookupCheck(r, n) PROVE TypeOK'
    BY <2>1 DEF LookupCheck, Hit, Asking, Served
  <2>2. ASSUME NEW r \in Readers, LookupFetch(r) PROVE TypeOK'
    <3> DEFINE n == reader[r].name
               s == [reader[r] EXCEPT !.pc = "store", !.ver = row[n].ver, !.fetchGen = gen]
    <3>1. reader[r] \in ReaderState /\ row[n].ver \in WriteNo
      OBVIOUS
    <3>2. s \in ReaderState
      BY <3>1
    <3>3. reader' = [reader EXCEPT ![r] = s]
      BY <2>2 DEF LookupFetch
    <3>4. reader' \in [Readers -> ReaderState]
      BY <3>2, <3>3
    <3>5. UNCHANGED <<masterKey, row, cache, gen, writer, writes, acked>>
      BY <2>2 DEF LookupFetch
    <3> QED
      BY <3>4, <3>5
  <2>2a. ASSUME NEW r \in Readers, LookupFails(r) PROVE TypeOK'
    <3> DEFINE s == [reader[r] EXCEPT !.pc = "missing"]
    <3>1. reader[r] \in ReaderState
      OBVIOUS
    <3>2. s \in ReaderState
      BY <3>1
    <3>3. reader' \in [Readers -> ReaderState]
      BY <2>2a, <3>2 DEF LookupFails
    <3>4. UNCHANGED <<masterKey, row, cache, gen, writer, writes, acked>>
      BY <2>2a DEF LookupFails
    <3> QED
      BY <3>3, <3>4
  <2>3. ASSUME NEW r \in Readers, LookupStore(r) PROVE TypeOK'
    <3> DEFINE n == reader[r].name
               s == [reader[r] EXCEPT !.pc = "found", !.gen = gen]
               e == [ver |-> reader[r].ver, ttl |-> CacheTTL, gen |-> gen,
                     fetchGen |-> reader[r].fetchGen]
    <3>1. reader[r] \in ReaderState /\ gen \in Nat
      OBVIOUS
    <3>2. s \in ReaderState
      BY <3>1
    <3>2a. e \in Entry /\ n \in Names
      BY <3>1
    <3>3. reader' = [reader EXCEPT ![r] = s] /\ cache' = [cache EXCEPT ![n] = e]
      BY <2>3 DEF LookupStore
    <3> QED
      BY <2>3, <3>2, <3>2a, <3>3 DEF LookupStore
  <2>4. ASSUME NEW w \in Writers, NEW n \in Names, NEW e \in BOOLEAN,
               CreateCheck(w, n, e) PROVE TypeOK'
    BY <2>4 DEF CreateCheck
  <2>5. ASSUME NEW w \in Writers, CreateInsert(w) PROVE TypeOK'
    BY <2>5 DEF CreateInsert, Commit
  <2>6. ASSUME NEW w \in Writers, CreateRefused(w) PROVE TypeOK'
    BY <2>6 DEF CreateRefused
  <2>7. ASSUME NEW w \in Writers, NEW n \in Names, UpdateRow(w, n) PROVE TypeOK'
    BY <2>7 DEF UpdateRow, Commit
  <2>8. ASSUME NEW w \in Writers, NEW n \in Names, DeleteRow(w, n) PROVE TypeOK'
    BY <2>8 DEF DeleteRow, Commit
  <2>9. ASSUME NEW w \in Writers, NEW n \in Names, DeleteNothing(w, n) PROVE TypeOK'
    <3>1. row[n].ver \in WriteNo
      OBVIOUS
    <3>2. writes' \in WriteNo
      BY <2>9 DEF DeleteNothing
    <3> QED
      BY <2>9, <3>1, <3>2 DEF DeleteNothing
  <2>10. ASSUME NEW w \in Writers, Invalidate(w) PROVE TypeOK'
    <3>1. cache' \in [Names -> Entry] /\ gen' \in Nat
      BY <2>10 DEF Invalidate, EmptyCache, NoEntry
    <3>2. writer' = [writer EXCEPT ![w] = [writer[w] EXCEPT !.pc = "idle"]]
      BY <2>10 DEF Invalidate
    <3>3. writer[w] \in WriterState
      OBVIOUS
    <3>4. [writer[w] EXCEPT !.pc = "idle"] \in WriterState
      BY <3>3
    <3>5. acked' \in [Names -> WriteNo]
      BY <2>10, <3>3 DEF Invalidate, Later
    <3> QED
      BY <2>10, <3>1, <3>2, <3>4, <3>5 DEF Invalidate
  <2>11. CASE Tick
    <3>1. ASSUME NEW n \in Names
          PROVE  [cache[n] EXCEPT !.ttl = IF @ > 0 THEN @ - 1 ELSE 0] \in Entry
      <4>1. cache[n] \in Entry
        OBVIOUS
      <4> QED
        BY <4>1
    <3> QED
      BY <2>11, <3>1 DEF Tick
  <2>12. ASSUME NEW k \in Keys, Restart(k) PROVE TypeOK'
    BY <2>12, AnyNameIsName
       DEF Restart, NewVault, EmptyCache, NoEntry, IdleReader, IdleWriter
  <2>13. CASE UNCHANGED vars
    BY <2>13 DEF vars
  <2> QED
    BY <2>1, <2>2, <2>2a, <2>3, <2>4, <2>5, <2>6, <2>7, <2>8, <2>9, <2>10, <2>11, <2>12,
       <2>13 DEF Next
<1> QED
  BY <1>1, <1>2, PTL DEF Spec

-----------------------------------------------------------------------------
\* A step that leaves the vault, the table and the acknowledgements alone keeps
\* the freshness of every entry.
LEMMA EntriesUntouched ==
    ASSUME FreshnessInv, UNCHANGED <<cache, gen, acked>>
    PROVE  \A n \in Names : EntryFresh(n)'
  BY DEF FreshnessInv, EntryFresh

\* So do the lookups that are not the one that moves.
LEMMA ReadersUntouched ==
    ASSUME FreshnessInv, UNCHANGED <<gen, acked>>, NEW r \in Readers, reader'[r] = reader[r]
    PROVE  ReaderFresh(r)'
  BY DEF FreshnessInv, ReaderFresh

\* Init => FreshnessInv and every step preserves it.  The step that matters is
\* Invalidate: it raises gen, so no blob fetched before it counts as fetched in
\* the current generation, and only those may be older than an acknowledged write.
THEOREM VaultFreshness == Spec => []FreshnessInv
<1>1. Init => FreshnessInv
  BY AnyNameIsName DEF Init, FreshnessInv, LookupNotStale, EntryFresh, ReaderFresh, EmptyCache, NoEntry,
         IdleReader, IdleWriter
<1>2. TypeOK /\ FreshnessInv /\ [Next]_vars => FreshnessInv'
  <2> SUFFICES ASSUME TypeOK, FreshnessInv, [Next]_vars PROVE FreshnessInv'
    OBVIOUS
  <2> USE DEF TypeOK, WriteNo, Row, Entry, ReaderState, WriterState
  <2>1. ASSUME NEW r \in Readers, NEW n \in Names, LookupCheck(r, n) PROVE FreshnessInv'
    <3>1. reader' = [reader EXCEPT ![r] = IF Hit(n) THEN Served(n) ELSE Asking(n)]
          /\ UNCHANGED <<row, cache, gen, writer, writes, acked>>
      BY <2>1 DEF LookupCheck
    <3>2. reader'[r] = IF Hit(n) THEN Served(n) ELSE Asking(n)
      BY <3>1
    <3>3. ReaderFresh(r)'
      BY <3>1, <3>2 DEF ReaderFresh, Served, Asking
    <3>4. ASSUME Hit(n) PROVE cache[n].fetchGen = gen => cache[n].ver >= acked[n]
      BY <3>4 DEF Hit, FreshnessInv, EntryFresh
    <3>5. LookupNotStale'
      BY <3>1, <3>2, <3>4 DEF FreshnessInv, LookupNotStale, Served, Asking
    <3> QED
      BY <3>1, <3>3, <3>5, EntriesUntouched, ReadersUntouched DEF FreshnessInv
  <2>2. ASSUME NEW r \in Readers, LookupFetch(r) PROVE FreshnessInv'
    <3> DEFINE n == reader[r].name
    <3>1. /\ reader' = [reader EXCEPT ![r] = [reader[r] EXCEPT !.pc = "store",
                                    !.ver = row[n].ver, !.fetchGen = gen]]
          /\ UNCHANGED <<row, cache, gen, writer, writes, acked>>
      BY <2>2 DEF LookupFetch
    <3>2. /\ reader'[r].pc = "store" /\ reader'[r].ver = row[n].ver /\ reader'[r].fetchGen = gen
          /\ reader'[r].name = n /\ reader'[r].floor = reader[r].floor
      BY <3>1
    <3>3. n \in Names /\ reader[r].floor <= acked[n] /\ acked[n] <= row[n].ver
      BY DEF FreshnessInv, ReaderFresh
    <3>4. ReaderFresh(r)'
      BY <3>1, <3>2, <3>3 DEF ReaderFresh
    <3>5. LookupNotStale'
      BY <3>1, <3>2 DEF FreshnessInv, LookupNotStale
    <3> QED
      BY <3>1, <3>4, <3>5, EntriesUntouched, ReadersUntouched DEF FreshnessInv
  <2>3. ASSUME NEW r \in Readers, LookupFails(r) PROVE FreshnessInv'
    <3>1. /\ reader' = [reader EXCEPT ![r] = [reader[r] EXCEPT !.pc = "missing"]]
          /\ UNCHANGED <<row, cache, gen, writer, writes, acked>>
      BY <2>3 DEF LookupFails
    <3>2. ReaderFresh(r)'
      BY <3>1 DEF FreshnessInv, ReaderFresh
    <3>3. LookupNotStale'
      BY <3>1 DEF FreshnessInv, LookupNotStale
    <3> QED
      BY <3>1, <3>2, <3>3, EntriesUntouched, ReadersUntouched DEF FreshnessInv
  <2>4. ASSUME NEW r \in Readers, LookupStore(r) PROVE FreshnessInv'
    <3> DEFINE n == reader[r].name
               e == [ver |-> reader[r].ver, ttl |-> CacheTTL, gen |-> gen,
                     fetchGen |-> reader[r].fetchGen]
    <3>1. /\ reader' = [reader EXCEPT ![r] = [reader[r] EXCEPT !.pc = "found", !.gen = gen]]
          /\ cache' = [cache EXCEPT ![n] = e]
          /\ UNCHANGED <<row, gen, writer, writes, acked>>
          /\ reader[r].pc = "store"
      BY <2>4 DEF LookupStore
    <3>2. n \in Names /\ ReaderFresh(r)
      BY DEF FreshnessInv
    <3>3. EntryFresh(n)'
      BY <3>1, <3>2 DEF EntryFresh, ReaderFresh
    <3>4. \A m \in Names : EntryFresh(m)'
      BY <3>1, <3>2, <3>3 DEF FreshnessInv, EntryFresh
    <3>5. ReaderFresh(r)'
      BY <3>1, <3>2 DEF ReaderFresh
    <3>6. LookupNotStale'
      BY <3>1, <3>2 DEF FreshnessInv, LookupNotStale, ReaderFresh
    <3> QED
      BY <3>1, <3>4, <3>5, <3>6, ReadersUntouched DEF FreshnessInv
  <2>5. ASSUME NEW w \in Writers, NEW n \in Names, NEW e \in BOOLEAN,
               CreateCheck(w, n, e) PROVE FreshnessInv'
    BY <2>5, EntriesUntouched, ReadersUntouched
       DEF CreateCheck, FreshnessInv, LookupNotStale
  <2>6. ASSUME NEW w \in Writers, NEW n \in Names, NEW key \in Keys \cup {NoKey},
               Commit(w, n, key), UNCHANGED <<cache, gen, reader, acked>>
        PROVE  FreshnessInv'
    BY <2>6, EntriesUntouched, ReadersUntouched DEF Commit, FreshnessInv, LookupNotStale
  <2>7. ASSUME NEW w \in Writers, CreateRefused(w) PROVE FreshnessInv'
    BY <2>7, EntriesUntouched, ReadersUntouched
       DEF CreateRefused, FreshnessInv, LookupNotStale
  <2>8. ASSUME NEW w \in Writers, NEW n \in Names, DeleteNothing(w, n) PROVE FreshnessInv'
    BY <2>8, EntriesUntouched, ReadersUntouched
       DEF DeleteNothing, FreshnessInv, LookupNotStale
  <2>9. ASSUME NEW w \in Writers, Invalidate(w) PROVE FreshnessInv'
    <3>1. /\ gen' = gen + 1 /\ cache' = EmptyCache
          /\ writer' = [writer EXCEPT ![w] = [writer[w] EXCEPT !.pc = "idle"]]
          /\ acked' = [acked EXCEPT ![writer[w].name] =
                          Later(acked[writer[w].name], writer[w].ver)]
          /\ UNCHANGED <<row, reader, writes>>
          /\ writer[w].pc = "invalidate"
      BY <2>9 DEF Invalidate
    <3>2. \A n \in Names : acked[n] <= acked'[n] /\ acked'[n] <= row[n].ver
      BY <3>1 DEF FreshnessInv, Later
    <3>3. \A n \in Names : EntryFresh(n)'
      BY <3>1 DEF EntryFresh, EmptyCache, NoEntry
    <3>4. ASSUME NEW r \in Readers PROVE ReaderFresh(r)'
      <4>1. ReaderFresh(r)
        BY DEF FreshnessInv
      <4>2. reader[r] \in ReaderState /\ acked'[reader[r].name] \in Int
        BY <3>1 DEF Later
      <4> QED
        BY <3>1, <3>2, <4>1, <4>2 DEF ReaderFresh
    <3>5. LookupNotStale'
      BY <3>1 DEF FreshnessInv, LookupNotStale
    <3> QED
      BY <3>1, <3>2, <3>3, <3>4, <3>5 DEF FreshnessInv
  <2>10. CASE Tick
    <3>1. \A n \in Names : /\ cache'[n].ver = cache[n].ver
                           /\ cache'[n].gen = cache[n].gen
                           /\ cache'[n].fetchGen = cache[n].fetchGen
                           /\ cache'[n].ttl > 0 => cache[n].ttl > 0
      BY <2>10 DEF Tick
    <3>2. \A n \in Names : EntryFresh(n)'
      BY <2>10, <3>1 DEF Tick, FreshnessInv, EntryFresh
    <3> QED
      BY <2>10, <3>2, ReadersUntouched DEF Tick, FreshnessInv, LookupNotStale
  <2>11. ASSUME NEW k \in Keys, Restart(k) PROVE FreshnessInv'
    BY <2>11, AnyNameIsName
       DEF Restart, NewVault, FreshnessInv, LookupNotStale, EntryFresh, ReaderFresh,
           EmptyCache, NoEntry, IdleReader, IdleWriter
  <2>12. CASE UNCHANGED vars
    BY <2>12, EntriesUntouched, ReadersUntouched DEF vars, FreshnessInv, LookupNotStale
  <2> QED
    BY <2>1, <2>2, <2>3, <2>4, <2>5, <2>6, <2>7, <2>8, <2>9, <2>10, <2>11, <2>12
       DEF Next, CreateInsert, UpdateRow, DeleteRow
<1> QED
  BY <1>1, <1>2, VaultTypeCorrect, PTL DEF Spec

\* A value older than a write acknowledged before the lookup began is served
\* only from an entry stored across an Invalidate.
THEOREM VaultLookupNotStale == Spec => []LookupNotStale
<1>1. FreshnessInv => LookupNotStale
  BY DEF FreshnessInv
<1> QED
  BY <1>1, VaultFreshness, PTL
==============================================================================
