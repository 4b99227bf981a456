# PostLite: a TLA+ verification development

PostLite is a self-hosted API client: one Go process with a SQLite database, an
HTTP API for a browser UI, an executor that sends users' requests upstream, a
JavaScript sandbox for their scripts, and a second small program, `pwreset`, that
works on the same database. This directory holds TLA+ modules that model its core,
TLC configurations that check them on small instances, and TLAPS proofs of what
matters most for every size of instance. `PROJECT.json` is the index: components,
runs, the source lines behind every definition (`map`), the places where this code
is hard to test (`hazards`), and where code and documentation disagree (`findings`).

Contents: 1 the system, 2 the modules, 3 the plan, 4 conventions, 5 the runs and
their bounds, 6 fairness, 7 the proofs, 8 what is only model-checked, 9 findings,
10 what is not modelled, 11 how to run it.

## 1. The system

Every HTTP handler is a goroutine. The database is opened with one connection, so a
SQL statement is atomic and handlers interleave between statements. Few handlers
use a transaction (only the migrations do): most *check* in one or more statements
and *write* in a later one. In memory there are three mutex-protected tables (login
challenges, failed logins, realtime tickets) and one cache (decrypted secrets).
A restart empties memory and leaves the database.

| component | state | operations | hard behaviour | what makes it correct |
|---|---|---|---|---|
| secret vault (`crypto/secret.go`, `httpapi/secrets.go`) | `secrets` rows, `Vault.cache`, `gen` | lookup of an execution; create, update, delete, `Invalidate` | lookups fetch with no lock held while admins write; restart under another key | a lookup is not older than an acknowledged write, but for one window; stale entries die |
| login challenges (`auth/loginenc.go`) | the challenge map, `nextSeq` | `NewChallenge`, `consume` | expiry at the instant, eviction at the cap, replays, restart | a nonce is accepted once; the map stays under its cap; eviction is by age |
| login rate limiter (`auth/ratelimit.go`) | failures, first failure and lock per address | `IsLocked`, `NoteFail`, `Reset`, `gc` | the check and the count are separate critical sections | failures counted per window are bounded; locks end |
| accounts and sessions (`users`, `sessions`, middleware, `pwreset`) | two tables | login's statements, middleware, user administration, logout, `pwreset`, `bootstrapAdmin` | ids carried over statements; ids of deleted rows are given again | a cookie acts for who logged in; sessions die with their user; an administrator remains |
| login handler (`httpapi/auth.go`) | where each login is | the three components above, in order | many at once, the same payload twice | one login per payload; only checked credentials count as failures |
| collections, folders, requests | three tables with cascades | create, delete, move, import; permission rules | check and write are statements apart; cascades across collections; reused ids; imports that run at once and stop half-way | a sound tree; ordinary users change what is theirs; owners go on seeing their requests; each import is a tree of its own |
| environments (`httpapi/environments.go`) | the table and the slots in `settings` | create, update, delete, activate (two halves), accounts that go | settings name ids with no foreign key | a slot holds what was chosen, of its own scope, until that is deleted |
| realtime relay (`httpapi/realtime.go`) | tickets; two connections, two pump goroutines, their counters | connect, take a ticket, relay, close | pumps that block in a write holding `writeMu`; deadlines; one error of two waited for | tickets are single-use; a silent relay ends and leaves nothing behind |
| frames (`executor/wsframe.go`) | the message being assembled; what each writer has still to write; `writeMu` | `ReadMessage` with its pongs, `WriteText`, `Close` | a frame is two writes of three goroutines, and the connection may be closed between them; fragments, control frames between them, length fields at their limits | frames go out whole, or end with the connection; messages come in whole, in order; pings are answered |
| SSE client and relay (`executor/sse.go`, `realtimeSSE`) | the block being read; what the browser was sent | read lines, parse a block, pass an event on, record | the upstream ends behind any line; the browser goes at any time, or stays and does not read; a block that is too large; an insert that fails | events arrive whole, in order, counted; the relay ends, unless it waits for its browser |
| execute pipeline and sandbox: control (`httpapi/execute.go`, `executor/http.go`, `script/runtime.go`) | the phases of an execution; the VM's interrupt flag and timers | run scripts, call upstream, follow redirects, record | timers racing the end of a run; endless scripts, silent or redirecting upstream | every execution is answered; a deadline hits its own run |
| execute pipeline: data (`executor/resolve.go`, `executor/redact.go`, `realtimeConnect`) | variables, the texts, the secrets used, the redactor | resolve, send, mask | secrets written between two lookups; values that overlap, are cut or encoded | what was written in is masked in what comes back, but for the parts that are passed on |
| scripts (`script/context.go`, `script/tests.go`, `script/expect.go`) | the header slice, variables, texts, tests under way and reported | `pm.request`, `pm.variables`, `pm.test`, `pm.expect` | a list changed while it is ranged over; exceptions and interrupts in nested tests; comparing exported values | the last write is what is sent (a JSON body has a Content-Type all the same); every test begun is reported; assertions agree |
| history (`repository/history.go`) | one table and its cap | insert, read cap, count, purge, delete | four statements of concurrent executions; failing purges | the table stays within the cap |
| startup (`db`, `crypto/secret.go`, `cmd/`) | schema and `user_version`; key file and its temporary file | open and migrate, load or create the key | two processes at once; a crash anywhere | the version names the schema; secrets stay readable after a crash |
| audit log (`repository/settings.go`) | one `settings` row | `AppendAudit` | a read-modify-write by handlers and by another process | lines that met no other stay |

How they interact. The **login handler** calls the limiter, the challenges, the
users table, the limiter and the sessions table. The **middleware** reads sessions
and users before every other handler. **Executions** look secrets up in the vault,
read the active environments, run scripts in the sandbox and write history.
**Realtime** relays mint tickets in one request, resolving and masking as an execution
does, and take them in another.
**Deleting an account** reaches sessions, environments, collections and requests
through foreign keys. **Start-up** comes before everything; `pwreset` shares the
database with the server and so migrates, sets passwords and appends audit lines
next to it.

## 2. The modules

Each module's header says what its variables stand for and what it leaves out;
comments above actions name the function or the statement.

| module | models | remarks |
|---|---|---|
| `OneTimeTokens` | the abstract promise of a table of single-use tokens | implemented by `LoginCrypto` and by the tickets of `Realtime` |
| `Vault` | the cache, admin writes, lookups, restart | `LookupCheck`, `LookupFetch`, `LookupStore` are the RLock section, the unlocked SELECT and the Lock section of `Vault.Lookup`; an admin handler is `CreateCheck`/`CreateInsert`, `UpdateRow` or `DeleteRow`, then `Invalidate` |
| `LoginCrypto` | the challenge map | a call that holds `mu` is a step |
| `RateLimiter` | the limiter and the logins between `IsLocked` and their verdict | the attempts' other work is `Release` |
| `Accounts` | users, sessions, middleware, user administration, `pwreset` | `acct` (history) tells accounts apart that had the same id |
| `Login` | the handler end to end | `EXTENDS LoginCrypto, RateLimiter, Accounts`; each step is one call |
| `SqlTable` | a table with an `INTEGER PRIMARY KEY`: the id of a new row, `INSERT`, `DELETE` | used by `Store` and `Environments` |
| `Store` | the three tables, `CanView`, `CanManage`, `CanUseRequest`, `CanManageRequest`, the handlers | a job's `pc` is the statement it will run next |
| `Environments` | the table, the slots, activation in two halves | `ActiveEnvs` is what an execution finds |
| `Realtime` | tickets and one relay | `Pump(c)` is what the goroutine reading `c` does by itself |
| `Migrations`, `MasterKey`, `AuditLog` | `db.Open` and `Migrate`; `LoadOrCreateMasterKey`; `AppendAudit` | each a component of its own, with step operators |
| `Startup` | two processes that start, serve, die | `EXTENDS` the three; says who may serve and what a process's end takes along |
| `Frames` | one end of a WebSocket: `readFrame`, `ReadMessage`, and `writeFrame` by three goroutines | a payload is its length, a header its length bytes; a length is read as an `int64`, and a negative one ends the process (`crashed`); `Close` releases `writeMu` before it closes the connection (`CloseConn`, the writes of its frame, `CloseNow`) |
| `EventStream` | `DialSSE`, `ParseSSEEvent`, `realtimeSSE` | a line is its field and its value; what the browser has read is compared with what the upstream has sent, stretch by stretch between blank lines; a write waits while the browser does not read (`CanWrite`); the history may refuse the row (`warned`) |
| `Sandbox`, `History` | a script runtime's deadline; the history table | components of `Execution` |
| `Execution` | the control of the `execute` handler | `EXTENDS Sandbox, History`; each phase with its errors |
| `Script` | what a script writes to its request and variables, and the tests it reports | the header list is a Go slice: a backing array and a length |
| `Expect` | the assertions of `pm.expect` over JavaScript values | operators with the laws they must obey, and `AssertEqual`, the statement of a script (`EXTENDS Script`) that asserts about any two values; put into a script by `MCPipeline` |
| `Redaction` | texts, what encodings and cuts make of them, the `Redactor` | every character of a secret keeps, as history, the value it is from |
| `Pipeline` | the data of one execution, or of a ticket | `EXTENDS Script, Redaction`; resolution is one placeholder a step, as admins write secrets between lookups; what leaves the handler is `Shown`, masked (`Whole`) or not (`AsItCame`) |
| `*Proofs` | the theorems about a module; `LoginProofs`, `StartupProofs` and `UpstreamProofs` have those of several | see section 7 |
| `Lemmas` | what several of them rest on: tables, induction, remainders, sequences | see section 7 |
| `MC*` | model values, symmetry and the like for TLC | `MCPipeline` joins `Pipeline` and `Expect`; `MCStreams` has `Frames` and `EventStream` side by side, one of them moving in each behaviour |

Some operators stand next to the one they resemble and are not used: a
`HitIgnoringExpiry` beside `Hit`, an `UpsertFirst` beside `UpsertHeader`.
They are the mutants of `PROJECT.json`: each is a plausible mistake in that piece of
code, and putting it in place of the real definition makes the property it is listed
with fail. They are how we know that a property can fail.

## 3. The plan

Order of work, most important first:

1. (done) the vault, with its proof; login challenges, rate limiter, accounts, and
   their composition `Login`; `OneTimeTokens` as the abstraction of the tables of
   single-use tokens;
2. (done) the stored tree (`Store`), environments, the realtime relay;
3. (done) start-up with crashes and a second process (`Startup`), the execute
   pipeline with the sandbox and history (`Execution`);
4. (done) the frame codec and the SSE relay (`Frames`, `EventStream`);
5. (done) substitution and masking (`Redaction`, `Pipeline`), the writes of scripts and
   their tests (`Script`), assertions (`Expect`);
6. (next) the two upgrade handshakes of `wsframe.go`; validation in `settings.go`;
7. (next) the browser's side of the login handshake (retry on `challenge_expired`).

Proofs: (done) the vault, the login with its three components, the stored tree, the
environments, the relay with its tickets, the frames a connection is given and those it
reads, the relay of events, start-up, executions with their history, and what scripts,
resolution and masking make of the data of an execution: every safety property of those has
a theorem. The assertions of `Expect` have none (section 8).

## 4. Conventions

*Steps.* One SQL statement, one critical section, one message or one operation of
the file system is one step. Reads of the middleware are folded into a handler's
first statement in `Store` and `Environments`; `Accounts` has them one by one.

*Ids.* SQLite's `INTEGER PRIMARY KEY` without `AUTOINCREMENT` gives the largest id in
the table plus one: `NewId` of `SqlTable`. The id of the newest row comes back after its deletion,
and a handler that still holds it then means another row. Properties about such
handlers say so explicitly (`raced`, `gone`, `since`) instead of leaving reuse out.

*Time* is kept relative to now and counted down by a `Tick`; the comparison
(strict or not) is the code's.

*History variables* are marked "history" where they are declared. No guard reads them,
except where a constant bounds a run.

*Errors.* A handler may fail at every statement (`GiveUp`, `*Fails`). Where the code
ignores an error, the model goes on as the code does.

*Data* is abstracted to what the properties tell apart: a secret's value is the number
of the write that made it, a login payload is its nonce, a message is a count, a frame's
payload is its length. Where masking is the question, a text is a sequence of symbols, and
where assertions are, a value is a record with its type.

*Type invariants.* Each of the stateful modules of the first three stages has one; where a
run checks it together with an inductive companion, the two have one name (`StoreInv`,
`AccountsInv`, `RelayInv`, `EnvironmentsInv`, `StartupInv`, `ExecutionInv`). Those of `Vault`,
`LoginCrypto` and `RateLimiter` are theorems (section 7); `Login`'s is part of `LoginInv`.

## 5. The runs

All bounds are constants of the `.cfg` files.

| run | instance | shows | why this is enough |
|---|---|---|---|
| `vault` | 2 lookups, 2 writers, 1 name, 2 keys, 3 writes, TTL 1 | `LookupNotStale`, its inductive strengthening `FreshnessInv`, `StaleEntriesDieOut` | a lookup can straddle a write while a second lookup and a second write pass it; names do not interact except through `Invalidate` |
| `rate_limiter` | 3 attempts, 2 addresses, limit 2, window 2 | `FailsBounded`, `LimiterInv`, `LockEnds` | more attempts in flight than the limit; lock and window can end in either order |
| `accounts` | 2 ids for 3 accounts, 2 requests, 1 login, 2 sessions | `AccountsInv` (sessions die with their user), `CookieActsForItsAccount`, `LastAdminOutlivesItsRequests` | an id can come back under each of the three; two administrators can act on each other |
| `login` | 2 attempts, 3 nonces, cap 2, 1 account | `OneLoginPerPayload`, `FailuresCostChallenges`; of the table, `ChallengeInv`, `RecentChallengesSurvive` and the refinement of `OneTimeTokens` | the same payload at once and in a row, before and after a restart; the map fills, evicts and expires |
| `store` | 2 handlers, an admin and a user, 2 collections, 2 folders, 1 request | `StoreInv` (the tree is sound), `ImportsStandAlone`, `OrdinaryWritesStayHome`, `OwnersKeepSight` | every check can be overtaken by another handler's write; folders nest and cross collections; both handlers may import at once, for the ordinary user (`Importing`) |
| `environments` | 2 handlers, 2 accounts, 2 environments | `EnvironmentsInv` (a slot follows its choice), `OrdinaryWritesStayHome` | activations race deletions and ids come back in both tables |
| `realtime` | 2 tickets, idle time 2, 2 messages each way | `TicketsAreOneTimeTokens`, `RelayInv` (what a pump that has ended did is counted; what has ended has closed both connections), `SilentRelayEnds` | a pump can hold `writeMu`, or sit in its read, when the handler wants to close |
| `startup` | server and `pwreset`, 3 migrations (the last a rebuild), 3 keys, 3 appenders, a log of 2 lines | `SchemaIsItsVersion`, `OpenDatabaseIsCurrent`, `OneKeyPerReadableFile`, `StartupInv` (uncontended lines of the log stay) | both processes can be inside any migration when the other dies; the log overflows; a third key could appear if one were lost |
| `execution` | 2 executions at once, 3 in all, 2 redirects, cap 1 or 2, 1 restart or failed purge | `DeadlineIsOfItsRun`, `ExecutionInv` (the history keeps its cap), `EveryExecutionEnds` | both scripts of both executions overlap; a purge with an old cap meets a new one |
| `pipeline` | 3 headers, two of them spellings of one key; 3 calls of a script; 2 secrets with values inside each other, overlapping and rewritten by encodings, 1 write of a secret; 31 JavaScript values, cyclic ones among them | `InjectedIsMasked`, `LastWriteIsSent`, `EachSeesTheList`, `EveryTestReported`, `AssertionsAgree` | three calls suffice to add, upsert or remove in a loop in which the backing array is full and is left; a write can fall between any two lookups of a name; every pair of kinds of value is compared both ways |
| `streams` | bytes of 8 values (`Radix`), so that 2 and 3 stand for 126 and 127, and a cap of 100; 9 inputs of up to 4 frames, with every length about a limit of the length field, the cap and the sign bit; 7 lengths to write, 3 writers, 1 failing write; 4 lines of 9 kinds, blocks of 2 | `FramesWhole`, `ReadsMeanInput`, `EventsSurviveRelay`, `RelayEnds` | all writers can want `writeMu` at once, between a header and its payload and between the close frame and the close too; the code's arithmetic is that of `Radix` = 256, and the proofs are for any; four lines make two events, one that ends early, and a block that is too large |
| `store_private` (a violation) | 1 handler | `NoPrivateDataLeft` fails: finding 3 | |

`CHECK_DEADLOCK FALSE` stands where the system may really stop: all
ids, lines or executions of the bound are used up and every handler is idle. Symmetry
is used in runs of safety properties only.

Configurations without a run of their own, kept to reproduce findings by hand:
`MCVaultStale` (finding 1), `RateLimiterLock` (2), `StoreRemove` (4), `RealtimeIdle` (5),
`EnvironmentsSlot` (9), `MCPipelineMasks` (13 to 16), `MCStreamsMasked` (23). Each ends with a counterexample to its one
property.

## 6. Fairness

Only what the code or its platform keeps going by itself is fair, and only weakly.

- `Vault`, `RateLimiter`: the clock. No lookup, write or login has to come, so
  `StaleEntriesDieOut` and `LockEnds` owe nothing to further calls.
- `Realtime`: the clock, the handler and each pump as far as it can go on alone
  (`Pump`: a read that has something to return, and an operation that fails). A write
  waits for the peer, and of peers nothing is assumed: what ends it is the deadline.
- `Execution`: the handler's own statements (`Own`), the timers, and the HTTP client's
  timeout (`CallFails`). A script that returns and an upstream that answers or redirects
  are actions without fairness. The client has a timeout for the whole chain, so it is
  fair to `CallFails` although redirects keep the call busy.

- `EventStream`: the goroutine of the request (`RelayStep`). It is enabled when a line is
  there, the stream has ended or the request's context is done, except while it has to write
  to a browser that stays and does not read: the server sets no write timeout, so such a
  write may wait for good. The upstream and the browser need never do anything. Hence
  `RelayEnds` speaks of relays one of them has left, and excepts a browser that stops reading
  for good or again and again.

The other modules state safety only.

## 7. The proofs

The `*Proofs` modules prove their theorems for any number of goroutines, names, nonces,
users, rows, tickets and processes, and for any size of the bounds. They assume what the
modules they extend assume by name and nothing else:

| kind | assumptions | why the code has it |
|---|---|---|
| a value that stands for "none" is not one of the set | `KeysAssumption`, `IPsAssumption`, `LoginSetsAssumption`, `AccountSetsAssumption`, `UsersAssumption`, `ProcsAssumption`, `JobsAssumption` (of `Environments`) | the code has an empty string, a nil or a zero for it |
| sets are not empty | `NamesAssumption`, `AccountSetsAssumption` | a name that nobody uses is still a name |
| sets are finite | `NoncesAssumption`, `AttemptsAssumption`, `LoginSetsAssumption`, `JobsAssumption` (of `Sandbox`), `KeepsAssumption` | goroutines, and strings of a fixed length, are finitely many |
| inputs are of their types | `FrameInputsAssumption`, `StartupAssumption`, `ImportingAssumption`, `ScriptAssumption`, `RequestsAssumption` | the lengths the peer announces are those that eight bytes can say, the server is one of the processes, imports are for a user or for nobody (a global collection), values and texts are strings, a request's headers are a list |
| names are distinct | `FieldsAssumption` | the fields of a request have labels of their own in the model, those of its headers are their names |
| numbers | `RadixAssumption` (a byte has an even number of values, eight at least; it is 256); `FrameBytesAssumption` (`wsMaxFrameBytes` is below the sign bit of eight bytes; it is 2^20); `EventBlockAssumption` (the cap of a block, in lines, is a natural number); the bounds, limits, lifetimes and windows are natural numbers, those the code sets above zero are positive; `max_history` is positive (`KeepsAssumption`), as its validation demands | constants of the source; so are the two caps (`CapsAssumption`: `HistoryCap` is the smaller) |
| one goroutine runs both halves | `LoginsAssumption`, `RecordersAssumption` | the same handler checks the password and opens the session; runs the script and writes history |
| only the last migration is one that can be repeated | `MigrationsAssumption` | see `StartupProofs` below |

Each module, with the invariant that carries it:

- **`Lemmas`.** Of tables: the id of a new row is the id of none (`NewIdIsNew`, from the
  largest member of a bounded set), and `INSERT` and `DELETE` leave other rows alone. Of
  induction: see the end of this section. Of remainders: what is left of one more. Of
  sequences: what those of one, joined ones and parts are. `StoreProofs`,
  `EnvironmentsProofs`, `LoginProofs`, `UpstreamProofs` and `PipelineProofs` cite them.
- **`VaultProofs`.** `VaultTypeCorrect`, `VaultFreshness`, `VaultLookupNotStale`.
  `LookupNotStale` speaks of finished lookups and is not inductive: the value may come
  out of the cache. `FreshnessInv` adds what an entry and a lookup under way satisfy:
  whatever was fetched under the present `gen` is no older than the last acknowledged
  write. The crux is `Invalidate`: raising `gen` makes that claim vacuous for all that
  was fetched before, which is why a fetch and not a store has to carry the `gen`.
- **`LoginProofs`**, of the challenge table: `ChallengeInvariance` (accepted nonces are never
  pending again; the cap, from cardinalities of the map after the sweep and the eviction),
  `ChallengeEvictionOrder` (the numbers `seq` of pending nonces are distinct, so that
  the oldest of `maxChallenges` is that many behind), and `ChallengeRefinement`: every
  step is a step of `OneTimeTokens`, or leaves `live` and `spent` alone. Of the limiter:
  `LimiterInvariance`, `LimiterFailsBounded`; `FailsBounded` needs that an entry that has
  reached the limit is locked until its window is over, so that nobody is admitted. Of the
  accounts: `AccountsInvariance`, by an order of accounts. An id that comes back belongs to a
  younger account, so a window that remembers how many accounts there were when it opened
  (`since`) can tell its own account from any that took its place;
  `AccountsCookieActsForItsAccount` follows from it, and
  `AccountsLastAdminOutlivesItsRequests` is an action property that needs it.
- **`LoginProofs`**, of the handler: `LoginKeepsItsComponents` shows that each step of `Login` is a
  step or a stutter of each component, so that the theorems above hold inside it. `LoginInv`
  then needs only say who holds which nonce: from `Decrypt` to the answer an attempt holds one
  that has been accepted, and a session has been paid for with one. A nonce that is held cannot
  be accepted again (`ChallengeInv`), which gives `LoginOneLoginPerPayload`; and each accepted
  nonce is counted at most once on the left of `FailuresCostChallenges`, which gives
  `LoginFailuresCostChallenges` by moving it from attempt to failure or session.
- **`StoreProofs`.** `StoreInvariance`, `StoreImportsStandAlone`, and the action properties
  `StoreOrdinaryWritesStayHome` and `StoreOwnersKeepSight`, all over `Sound`: the tables are
  well formed, the tree is sound, and each job by itself holds what it has checked. A step of
  one job disturbs another only by removing a row the other names, after which it names
  nothing, or by giving that row's id again, which `raced` records; lemmas about bystanders
  say this once for all handlers. That two imports share nothing (`ImportsApart`) is that what
  one inserts has an id that no row has, and what the other has made is a row, or was given
  again and `raced` says so. A folder's parent has a smaller id, which is why a cascade
  ends, and why no folder is its own ancestor.
- **`EnvironmentsProofs`.** `EnvironmentsInvariance`, `EnvironmentsOrdinaryWritesStayHome`. That a
  slot follows its choice rests on what an activation holds between its check and its two
  writes, hence `JobsHoldTheirRows`.
- **`UpstreamProofs`**, of the relay: `RelayInvariance`, `RelayTicketsRefinement`. That the row
  of an ended relay
  counts the pump that ended first, and that a handler which has returned leaves no connection open
  (`ConnectionsFollowHandler`), is not inductive: it needs that a pump reports once and that
  its errors in the channel are those of pumps that have ended (`PumpsReportOnce`). The
  refinement needs that a ticket that was taken is not drawn again (`TicketsAreFresh`).
- **`UpstreamProofs`**, of the frames: `FramesAreWhole`, over `WritersInv`: who holds `writeMu`
  has a payload to write, and the connection was given the header of that frame last. A header
  without its payload is the last thing written, while its writer holds `writeMu` or for good
  when `CloseNow` came between: then nothing is written any more. It rests on `LengthsSurvive`: the number that `readFrame` makes of the bytes of `writeFrame` is
  the length they were made from, in each of the three forms, masked or not, by arithmetic over
  `Radix`.
- **`UpstreamProofs`**, of what is read: `FramesReadsMeanInput`. `ReadsMeanInput` counts: the
  fragments of a message are the data frames that as many ends come before, and the k-th of
  them is the k-th piece. Its invariant says this of the message under way too (`MessagesInv`):
  `msg` has the fragments that no end has come behind. Two facts about sets of numbers do
  the rest, what the place of a new largest member is and that the old ones keep theirs
  (`OneMore`, `PlacesAreFew`). What a length is read as (`Signed`) splits three ways: refused,
  taken, or negative, which ends the process and with it every further step. A message is delivered with one frame more than the check of its
  size has seen, hence the two frames of the bound. For the answers, `PongsInv` says that as many
  pongs are on the wire as pings were read, but for the one the reader still owes (`Owes`); while
  no write has failed a pong that is owed is written before the reader reads on.
- **`UpstreamProofs`**, of events: `EventsSurviveTheRelay`, over `EventInv`. The property looks at
  whole streams: what the upstream sent between two blank lines is an event, and so is
  what the browser got between two. The relay remembers a block only. `LinesInv` joins them:
  the block is what a cap of so many lines leaves of the stretch since the last blank line
  (`BlocksGrow`, by what is left of a division), and the browser is between two events.
  `WrittenIsRead` is the heart: the lines written for an event are read back as the event with
  its data masked, whatever fields it has, and its last line is the only blank one. So each
  event event that is relayed is one stretch more for the browser (`OneMoreStretch`), the stretches
  before stay, and sent and read remain paired (`OneMoreSurvives`). The row and the report of an
  error follow from what the handler has judged (`Judges`), not from the browser of a later
  moment.
- **`StartupProofs`.** `StartupImplementsMigrations` (steps of the key and the audit log
  stutter), `MigrationsSchemaIsItsVersion`, `MigrationsOpenIsCurrent`, and by the
  refinement `StartupSchemaSound`. The invariant `MigrationsInv` says that whoever is past
  the first statement of a migration holds SQLite's write lock and that its migration
  applies to what is committed. A process with a stale `user_version` fails on its first
  statement, unless the migration is one that can be repeated; that one must be the last
  (`Rebuilds \subseteq {N}`): a rebuild repeated after a later migration would undo it.
  The assumption is true of the present list (migration 7 of 7) and worth a look whenever
  one is appended.
  `StartupOneKey`, from `MasterKeyInv`: the keys that are served with, stored or about to be
  stored are one more at most than the reads that failed; a key is in the file before it is
  served with. `StartupInvariance` has both and `AuditInv`: an append that meets another knows
  it, what it has read is in order and lacks only what newer lines displaced, and so does what
  it writes back; hence a line that met no other stays (`UncontendedLinesStay`).
- **`UpstreamProofs`**, of executions: `ExecutionDeadlineIsOfItsRun`, over `SandboxInv`: what the
  pre-request script's timer can still do, it does to that script, unless it had fired
  when the script ended. A lemma reduces every step of `Execution` to a step of one
  runtime, so that the invariant is proved per runtime. `ExecutionInvariance`: the history
  exceeds the largest cap by no more than the executions that are recording and the purges
  that failed. It needs that a purge deletes by a cap that was configured (`HistoryInv`), that
  the newest `keep` rows are at most `keep` in number (`NewestAreFew`), and that the executions
  recording are those whose handler is at its last step.
- **`PipelineProofs`**, of scripts: `PipelineEveryTestReported`, over `TestsInv`: the tests under
  way and those reported are disjoint, and none is under way twice, so that counting them is
  enough. `PipelineEachSeesTheList`, over `LoopInv`: while nothing is removed, the array that
  the loop ranges over keeps the headers there were when it began, be it still the list's or
  one that an append has left behind. `PipelineLastWriteIsSent`, over `WritesInv` while the
  script runs and `AppliedInv` from its end to the call: the last write of a key decides what
  the list has of that key in all its spellings, hence what `HeaderMap` makes of it. The
  passes of `upsert` over the list are a recursive function (`RemovedKey`), and
  `RemovedAtMoves` says what one of them does to the slice.
- **`PipelineProofs`**, of masking: `PipelineInjectedIsMasked`. The history kept with each symbol
  (the value it was written from) says where values stand in a text. `ValuesInv`,
  `ResolvedInv` and `SentInv` carry from the lookups to the request that every
  such stretch is *intact*, a whole value or the rewritten form of one; encoding, concatenation and
  putting texts together keep it, and a cut does but for the last symbols of the text.
  `MaskAllIsAPass` says what replacing one value does to an intact text: no symbol
  of that value stays, and the others that do stay whole. It needs that two
  occurrences of values meet in no part: those that could are excepted by `Overlapping`, and a
  value inside another is replaced later, as the redactor takes the longest first. By
  induction over the values of the redactor (`MaskedHidesValues`, `LongestFirstRedacts`) none
  of them stays, which is `AnswerInv` and with it the property.

Induction. The library's induction theorems cannot be instantiated by the installed provers, so
`Lemmas` has its own in a form they accept: `EveryNumber` (a *set* with zero
and successors has all numbers), from the well-foundedness of the natural numbers, and
`LoopsHaveValues` (a loop of so many passes has its values), which makes the recursive functions
of `Script`, `Redaction`, `Frames` and `EventStream` equal to their equations.

TLC checks each inductive invariant, or the invariants it strengthens, in the runs.

## 8. What is only model-checked

- *Liveness* (`StaleEntriesDieOut`, `LockEnds`, `SilentRelayEnds`, `EveryExecutionEnds`,
  `RelayEnds`): fairness and ENABLED are beyond the prover.
- *Recursive operators.* `AssertionsAgree`: `Expect` compares nested values with one, so nothing
  can be proved in it. The proofs of the scripts it is used in do not depend on it.
- `NoPrivateDataLeft` is false of the code, and its run shows so.

## 9. Findings

Where the code and a document, a comment or a message disagree. One has a run; some can
be reproduced with a configuration of section 5; the others show in reading, and are
written as exceptions into the properties.

1. `Lookup` stamps an entry with the `gen` of its store, not of its fetch: a lookup that
   straddles a write caches the old value under the new `gen`, for at most `cacheTTL`.
2. `gc` drops a limiter entry by its first failure, whatever its `lockedUntil`: a lock
   set late in the window ends early.
3. `ON DELETE SET NULL` turns a deleted user's private collections and requests global,
   where DESIGN.md says that nothing of theirs is left (run `store_private`).
4. Deleting one's own collection deletes the requests in it, where a comment reserves
   removing requests to administrators.
5. A relay's deadline is moved by the traffic of the other direction only, so traffic that
   flows one way is cut after `realtimeIdle`, where DESIGN.md speaks of an idle cut-off (`RealtimeIdle`).
6. A full challenge map evicts the oldest entry, whoever fetched it, where a comment says
   that many fetches only age out their own.
7. Disabling an account leaves its sessions, which act again once it is enabled.
8. `updateRequest` refuses an ordinary user's own request in a global collection, where a
   comment says they can edit it.
9. A slot that names a deleted environment may come to hold another one of another scope.
10. A timer that has fired when its script ends may interrupt the next script, which a
    comment says is prevented.
11. Any failure to read the master key file makes a new key; comment and README speak of a
    file that does not exist.
12. The request snapshot in history is built from the response's headers.
13. `used` keeps one value per secret name: of a secret written between two lookups of one
    execution only the last value is masked.
14. Two secret values that overlap at their ends leave a residue when they are masked one
    after the other.
15. Bodies are cut, and queries and GraphQL documents encoded, before they are masked.
16. The status text, the names of headers, the subprotocol, and the type and id of an event are
    shown and kept as upstream sent them, where a comment says that every string is masked
    (`MCPipelineMasks`).
17. A variable that the pre-request script has unset is still resolved.
18. Of two spellings of a header that `HeaderMap` keeps apart, either may be sent.
19. `headers.each` skips and repeats headers when its function removes or upserts.
20. `pm.expect(null).to.equal(undefined)` passes.
21. `least` and `most` fail for an infinity and itself.
22. Strings have no `length` and no index in `.property()`.
23. Control frames of the client's connection are not masked.
24. A message may be as long as two frames.
25. The end of a stream drops an unterminated last line, and a block with only an id.
26. Of a block that is too large, the lines behind the cut are relayed.
27. A frame whose eight-byte length has its top bit set is not refused: `make` panics in a
    goroutine of the relay and the process ends, where DESIGN.md says that a panic becomes a 500.

The modules model the code as it is. Properties such as `LookupNotStale`, `LimiterInv`,
`SlotFollowsChoice`, `DeadlineIsOfItsRun`, `InjectedIsMasked`, `ReadsMeanInput` and `EachSeesTheList` state what
does hold, with the exception spelled out.

## 10. What is not modelled

- The opening handshakes of WebSocket connections, and the choice of a subprotocol.
- Of scripts: writes of the method (it is passed on as it is), the reading accessors
  of `pm.request` and `pm.response`, the console, and the helpers of `globals.go`.
- Warnings about unresolved names, which no later step reads.
- Cryptography: RSA-OAEP and AES-GCM are "opens under the key that sealed it", scrypt is "the
  password agrees".
- Script modules (`crypto`, `tweetnacl`, `uuid`, `jsbytes`): pure conversions, no state.
- JSON envelopes, logging, listing handlers, the web UI: they change no modelled state.
  Renames and contents of rows are left out with the data they carry.
- Address checks of the executor: a decision on an address at one moment, with no state.
- SQLite itself: a statement is atomic and a commit durable; the busy timeout may pass,
  which is one of the failures. Loss of what the file system had not yet synced is not
  considered.

## 11. Running it

    tlc -workers 2 -config MCVault.cfg MCVault      # any run: its cfg and its module
    tlapm VaultProofs.tla                           # any *Proofs module

The longest runs (`environments`, `execution`, `pipeline`, `store`, `streams`, `vault`) take one to
three minutes each with two workers; of the proofs, `UpstreamProofs` takes about six minutes, and
`LoginProofs`, `PipelineProofs` and `StoreProofs` a few each.
