# A TLA+ model of the OpenAI Work & Codex Regulator

The repository holds a ChatGPT skill plus the software around it. The part with state, concurrency and failure is
the *Plugin*: an MCP server that lets an authenticated user connect a Codex
account with a device code, keeps the resulting `auth.json` sealed, and reads the
Codex usage limits by running `codex app-server` on a temporary copy of it. Beside it stand a companion app
with a relay, an older way of bringing the limits to the chat, and the controllers that pace work by them. This directory models
these parts in TLA+, checks them with TLC on small instances and proves the
safety properties with TLAPS for all instances.

## 1. Inventory

| Component | State | Operations | Talks to |
|---|---|---|---|
| **Sealed credential store and leases** `plugin/sealed_auth_store.py`, `plugin/auth_concurrency.py`, `plugin/deployment_providers.py:245-323` | one sealed blob per subject; one lease per subject (a lock file with `flock`); temporary `CODEX_HOME`s | `authorization_session`, `materialize`, `exists`, `revoke`, `lease` | crypto provider, blob provider, Codex inside the `with` body |
| **Durable blob provider** `plugin/deployment_providers.py:120-244`, `plugin/production_vault.py` | `*.sealed` files, temporary files, directory entries on disk | `put_bytes`, `get_bytes`, `delete_bytes` | the file system |
| **Crypto provider and helper** `plugin/deployment_providers.py:326-433`, `deployment/crypto_helper.py` | key ring, one Unix socket, one client at a time | `seal`, `open` | each other |
| **Authorization coordinator** `plugin/authorization_coordinator.py` | `_records`, `_active_by_subject`, a worker thread and two events per flow | `begin`, `status`, `cancel`, `revoke`, `reap`, `close` | credential store, app-server client |
| **App-server client** `plugin/quota_backend.py` | one child process, text stream buffer, request ids | `start`, `start_device_login`, `wait_until_authenticated`, `read_limits`, `close` | Codex over stdio |
| **Quota service and recovery** `plugin/quota_service.py`, `plugin/auth_recovery.py` | none of its own; one retry per read | `read_subject_quota` | store, client |
| **MCP transport, tokens, preflight, wiring** `plugin/mcp_transport.py`, `plugin/oidc_token_verifier.py`, `plugin/idp_preflight.py`, `plugin/production_runtime.py` | key set cache, subject of the request | preflight and wiring at start, verification and dispatch per call | identity provider, quota service |
| **Development subject store** `plugin/subject_store.py` | plaintext homes for tests | as the sealed store | - |
| **Quota relay** `relay/quota_relay.py` (kept as research history) | SQLite tables installations, pairings, subjects, snapshots | start, claim and poll a pairing, put and get a snapshot | companion, Plugin |
| **Companion** `companion/` (research history) | keychain items, pairing under way | pair, poll, collect, push | relay, CodexBar sensor |
| **Quota controllers and telemetry** `scripts/*_quota_controller.py`, `scripts/quota_telemetry.py` | none: pure arithmetic on windows | classify, plan | - |
| **Packaging, validation, probe** `scripts/`, `experiments/` | files of the repository | build-time checks | - |

### What is hard, and what makes each part correct

* **Store and leases.** A read *writes*: Codex may refresh the token inside the temporary
  home, and `materialize` seals what it finds there on exit. Two operations that
  overlap can lose a refresh or bring a revoked credential back. Any of about ten steps may raise, and a process may die
  between any two. Correct means: one operation per subject at a time; a lease never outlives its holder;
  what is stored was granted to that subject since the last revocation and is not
  spent; a call that raised changed nothing; plaintext homes are removed; every call returns.
* **Coordinator.** Request threads, worker threads and a user act on a record that is read
  without the lock between steps; cancellation races with registration of the client and with the end of
  the session. Correct means: one live flow per subject; a revoke leaves no older
  flow that could store a credential; the published state tells whether one was stored; a cancelled flow ends.
* **Client.** `select()` and a buffered `readline()` disagree about what is readable;
  notifications of other logins interleave; another thread may close. Correct means: `wait_until_authenticated`
  returns only at the readiness boundary, it does return then, and every wait ends.
* **Blob provider.** Crash between write, fsync, rename and directory fsync; readers that hold no lease.
* **Crypto helper.** One client at a time, and the client's deadline runs while it waits its turn; helpers replace each other at
  one socket path. Correct means: an answer is what `systemd-creds` made of that request; only those who wait behind another authorized
  client time out; a helper that ends leaves its successor reachable; no client keeps the helper.
* **Quota read.** One retry after a failure whose refresh may already have happened.
* **Gates.** Verification runs on threads that share one cached key set without a lock, while the provider rotates its keys;
  two more gates look at the same token later. Correct means: a new key is found, a withdrawn one is forgotten in bounded time, and the gates
  differ only about time.
* **Relay and companion.** Checks and inserts are separate steps of workers that share one SQLite file; a failed statement leaves its
  transaction open; the companion saves two keychain items one after the other. Correct means: the tables agree, a binding stays, what was
  answered is kept, and pairing ends.
* **Windows.** Three normalizers in two languages, requests that overtake each other. Correct means: they mean the same, and what
  the relay calls fresh is young.
* **Controllers.** A coarse meter that lags, several passes admitted on one headroom, an anchor close to the reset or outside
  working time, consumers nobody admitted. Correct means: what runs stays within the target, what is left at the end may be used, and waiting never costs an admission.

`PROJECT.json` lists the hazards line by line with the properties that cover them.

## 2. Plan of the modules

In order of importance:

| | Modules | State |
|---|---|---|
| A | `CredentialRegister` (abstract), `AuthVault` (detailed), `AuthVault_proofs` | done |
| B | `AuthorizationCoordinator`, `AuthorizationCoordinator_proofs` | done |
| C | `AppServerClient`, proofs in `QuotaService_proofs` | done |
| D | `BlobProvider`, `BlobProvider_proofs`: files, fsync, power loss under A | done |
| E | `QuotaRead`, `QuotaService_proofs`: existence check, materialization, classification, one retry, the transport's answer | done |
| F | `QuotaController`, `QuotaController_proofs`: the v4 controller in a loop with the clock, the meter and the passes it admits | done |
| G | `CryptoHelper`, `CryptoHelper_proofs`: serial accept loop, deadlines of both sides, takeover and cleanup of the socket | done |
| H | `QuotaWindows`: the three normalizers, the sensor runs, the age of a snapshot; `WeeklyController` on top of F: burn estimate, v2.2 controller; proofs with E and F | done |
| I | `QuotaRelay`, `QuotaRelay_proofs`: the relay's workers and the companion's pairing | done |
| J | `TokenGate`, `TokenGate_proofs`: preflight, verifier with its key cache, transport | done |

Every module `X` that is checked has a module `MCX` that gives TLC its instance, `MCQuotaController` that of F and `WeeklyController`.
`QuotaService_proofs` holds the theorems of the service, of its client and of the windows; it extends the three modules, whose names differ for that reason.
`AuthVault` instantiates `CredentialRegister` with a refinement mapping; the coordinator and the reads see A by what it does under the lease; `AuthVault`
sees D and G by their outcomes.

Open: that a save of A is what D confirms.

## 3. Modules and the code

### CredentialRegister and AuthVault

`CredentialRegister` is what the vault promises: a register per subject that changes by
`Store` and `Revoke`, while the upstream service (`Login`, `Refresh`) hands out tokens and
spends the ones it replaces.

`AuthVault` is `LeaseProtectedAuthStore` over `SealedSubjectAuthStore`. A worker is a
thread; `ProcessOf` places it in a process. `pc[w]` is the next step of the call:

| Action | Code |
|---|---|
| `Call` | entry of `authorization_session`, `materialize`, `revoke` of the lease wrapper |
| `Acquire`, `LeaseTimeout`, `Release` | `FlockSubjectLeaseProvider.lease`: the lock file is opened per call, `flock` with deadline, `finally` |
| `Load` | `load`, `open`, validation; a miss raises |
| `MakeHome`, `WriteAuth` | `mkdtemp`, `_write_private` - before the `try`, as in the code |
| `BodyLogin`, `BodyRefresh`, `BodySpoil`, `BodyEnd` | what Codex does in the `with` body, and its end by return or exception |
| `Seal`, `Save`, `Delete`, `Cleanup` | read back, validate and seal; `put_bytes`; `delete_bytes`; `rmtree` |
| `Crash` | the process dies with its threads; the kernel drops its `flock`s |

A credential is its refresh token. `Unreadable` is a blob that does not open under the
subject's associated data. Each failure of the environment is named in `FaultKinds` and is
enabled by the constant `Faults`. `minted`, `unspent` and `granted` are the upstream
service's view and are used only by properties and by what Codex may do. `orphans` records how homes were left behind: `write` failed before the
`try`, `rmtree` removed nothing, the process died, or (which no step may do) the call was `over` with its home still there.

### BlobProvider

`put_bytes`, `get_bytes` and `delete` of `HardenedAtomicFileBlobProvider`, system call by system call. `entry[k]` is what the
directory shows; `disk[k]` is the set of entries a power loss may leave: a rename adds to it, the fsync of the
directory settles it for all keys. A file that was not fsynced may be left `Damaged`. Writers hold the lease of A; readers need not, because
`exists` is called without it. `acked` and `attempted` record what callers were told and are used only by
`ConfirmedIsDurable`. A delete that finds no file answers `False` and counts as no confirmation, since it does not fsync.

### QuotaRead

`get_quota_snapshot` of one subject. `recovering` is chosen initially, so that each run checks both `QuotaService` alone and
`RecoveringQuotaService` around it.

| Action | Code |
|---|---|
| `Call`, `Exists` | `quota_service.py:66-73`: `exists` without the lease |
| `TakeLease`, `Load`, `Save` | the lease with its timeout and the errors of its lock file, which are classified as worth a retry; `materialize` of A up to its `yield` and after it |
| `Body`, `Refresh` | Codex reads the limits and may refresh the token meanwhile |
| `Normalize` | `normalize_rate_limits`, after the lease is gone |
| `Retry`, `GiveUp` | `auth_recovery.py:72-140`: `classify_recovery`, at most one retry, the mapped exception |
| `Dispatch` | `dispatch_tool_call`: the error code of the answer |
| `Connect`, `Revoke`, `Logout`, `Rotate` | what happens to the credential meanwhile; `Connect` may overwrite, because the look of `begin` is old by then |

An exception is its class for `classify_recovery`: `Reconnect`, `Transient` or `Final`. `seen[r]` is the set of values the
store had during the attempt, and is used only by properties. It is assumed that Codex refuses a
credential only when its refresh token is spent; the access token may outlive it, so a spent one may also work.

### AuthorizationCoordinator

Records, per-flow workers and calling threads with their own program counters. The lock of the
coordinator makes each locked region one action; everything between regions is a separate
action. `_cancel_record` is shared by `cancel`, `revoke`, `close` and by the
startup timeout of `begin`, so callers carry a `goal` to return to. The store is what A shows
of it: a lease per subject and atomic save and delete under it. Because a quota
read may hold the lease, waiting for it may time out at any moment. The model has
one process: records live in memory and a `Restart` loses them with their
workers, while blobs stay.

### AppServerClient

One session with Codex: `start`, then a login with its wait, or `read_limits`. `pipe` is what
Codex wrote and nobody read, `buffer` is what the text stream holds. `Select` looks only at the pipe;
`Read` returns a buffered line, or moves all of the pipe to the buffer and returns the first. `Take` is `json.loads`, which raises on `garbage`, and
`Handle` the loop that waits. `Close` comes from another thread.

Codex reports on this login (`LoginCompleted`, `AccountUpdated`) and on others. `Notify` sends completions that name another login, updates without an
account, unrelated messages and lines that are no JSON; `Another` sends what reads like this login: a completion without a `loginId`, and an update
with another account. `Mine` accepts the first, as the code does (line 251), and after this login's completion the second is taken for its
own. `foreign` remembers that such a message was sent, and `AuthenticatedIsReady` says that nothing else makes a wait succeed early.

`leaked` is the end of a session whose `start` raised inside `__enter__`: `__exit__` is not called and the child runs on. Lines are written
whole: a partly written line would hold `readline` past every deadline (see the hazard at line 179). A session ends, so deadlock is not checked for
this module.

### QuotaController

`scripts/v4_quota_controller.py` is arithmetic without state. The module puts it in the loop it is meant for, which the references of the
skill describe and no code of the repository runs: the clock, the meter, the passes and the caller are external.

| Definition or action | Code |
|---|---|
| `ActiveOnDay`, `Worked`, `ActiveMinutesBetween` | `active_minutes_between`: a day, a day of the loop, the loop with its running total |
| `Reserve`, `ReleaseDen`, `Scale`, `Target` | `reserve_pp`, `target_cumulative_spend_pp` |
| `Ahead`, `Headroom`, `BaseHeadroom`, `MaxHeadroom` | `runway_status` and its two headrooms |
| `Admission`, `Launchable` | `admission`, for each estimate and pace risk |
| `Admit`, `Burn`, `Finish`, `Unplanned`, `Tick`, `Reset` | the caller, the passes, other consumers, the clock, the weekly reset with a new anchor |

Percentages are numbers of fine units, `Granule` of which make the point the meter shows. The code divides by the anchor's
active minutes and by the release span; headrooms are kept multiplied by both (`Scale`), so that every comparison is exact. Rounding of floats is
abstracted. An admitted pass keeps its estimate as a commitment until it ends. `excess` is what was used beside the admitted
passes, and is used only by `RunwayHolds`. That the caller takes a new anchor after a reset and counts running passes as commitments is its
duty. Daylight saving is not modelled.

### CryptoHelper

Instances of the helper follow each other; `path` is the instance whose socket the path leads to, `mark` the inode that `_cleanup_socket` compares.

| Action | Code |
|---|---|
| `Start`, `Bind`, `Listen` | `run` up to its loop: the old path is removed, `bind`, `lstat` of what the path names by now |
| `Accept`, `ReadRequest`, `RunCreds` | `handle_connection`: peer check, request, `systemd-creds`, answer |
| `Leave`, `CleanupCheck`, `CleanupUnlink` | the end of the loop, `_cleanup_socket` |
| `Crash`, `CrashInAnswer` | SIGKILL, also between the header and the data of an answer |
| `Connect`, `Send`, `Receive`, `Die` | `_call` of `SystemdCredsCryptoProvider`; its process may die |
| `Tick` | the timeouts of both sockets and of `subprocess.run`; time stops while a step is due |

A client is a provider, an authorized client with a garbled request, or a stranger with another uid. A request is sent whole. The inode is
the instance: that a file system gives the inode of a removed socket to the next one is left out. `behind` and `raced` are history
for the properties.

### TokenGate

| Action | Code |
|---|---|
| `Start` | `from_environment`, `validate_metadata`, `build_runtime_components`: a runtime exists only after a preflight |
| `Arrive`, `Lookup` | `verify_token` on a thread: the checks before the key, then the cached key set |
| `Fetch`, `Put`, `FetchFails` | the key client: the provider answers, the answer arrives and enters the cache, or the fetch fails and clears it |
| `UseKey` | `jwt.decode` with its leeway and the scopes |
| `Authenticate` | the bearer middleware of the SDK, later: an expired token is answered 401 |
| `Dispatch` | later again, when the body is read and the handler runs: `trusted_subject_from_access_token`, without leeway |
| `Publish`, `Withdraw`, `Tick` | the provider and the clock |

`PyJWKClient` is a library: its cache is modelled from how `PyJWKSigningKeyProvider` configures it (no cache per key, a key set with
a lifespan, one refresh for an unknown kid). Assumed: the provider never publishes an empty key set, and a fetch ends within
`network_timeout_seconds`. A token's size, header, signature and subject are right or not as a whole (`sound`), `iat` among them.

### QuotaRelay

| Action | Code |
|---|---|
| `StartPairing` | `start_pairing` and its answer: two commits, of the installation and of the pairing |
| `ClaimRead`, `ClaimWrite` | `claim_pairing`: the row is read, which may already be all (`Refused`, or claimed before), then subject and pairing are written and committed |
| `ReadOnly` | any other read, as that of a snapshot for the chat: with a transaction open its shared lock stays |
| `Poll` | `pairing_status` and `pollPairing` up to the first keychain save |
| `SaveToken`, `GiveUp`, `Quit` | the second save; the end of the attempts; the app ends |
| `LoadId`, `Push` | `refreshAndPush` on background threads, several at once (timer, button, new pairing): each loads id and token one by one, then `put_snapshot` |
| `Restart`, `Expire` | a worker dies and SQLite rolls back; the time of a pairing is over |

No code of the repository starts the relay's workers: each is a `RelayStore` with a connection of its own, as `sqlite3` requires for threads and processes.
`lock` and `pending` are what SQLite and the `sqlite3` module make of it: a write opens a transaction, a commit needs that
nobody else reads inside one, and a statement that fails leaves the transaction open. `Committed`, `CommittedHalf` and `Locked` are the ways
a write with its commit may end. Salts, hashes and verifiers are right or not; a companion has those of its own pairing.

### QuotaWindows

`NormalizeRateLimits` is the Plugin's, `NormalizeCodexbar` the Python companion's and `SwiftNormalize` the macOS companion's
normalizer. A normalizer that may raise is a set of at most one snapshot.

A window is what the sensor prints (`Window`): a duration in seconds with the field it stands in (minutes, seconds, or `window_seconds`, which
Swift does not know) and its form (number, numeral, other text); a percentage that may be a number, a numeral, hidden behind a null under another
name, or missing; a reset that is a date, seconds, text or missing. The conversions differ as in the code: `Listed` is `int()` of the Plugin, which
cuts off and takes numerals of whole minutes; `Understood` and `Normalized` are the Python companion's, which round a half to the even side and refuse
what cannot be read, a reset too; `Numeric` and `Kept` are Swift's, which takes numbers only, cuts minutes off, rounds seconds away from zero and passes over the
rest. `strays` are elements of the array that are no object: Python filters them, Swift refuses the array. A window with durations under several names,
through which the programs fall in different orders, is left out. `Selection` is a comprehension over a list; it is a recursive function because the provers
know no definition of `SelectSeq`. `PushSnapshot` and `RefreshAndPush` run the sensor (missing, refused, hanging, failing or
printing) and send what came of it, `PutSnapshot` is the arrival at the relay in any order, `RelayFreshness` is `_read_snapshot`. `measured` in a request is the true
time of its data and is used only by `FreshIsYoung`.

### WeeklyController

Extends `QuotaController` with `SafeBurn` (`robust_safe_burn_pp`, in both scripts) and the v2.2 controller: `AnchorReserve`, `AnchorByHours`,
`TargetByHours`, `HeadroomByHours`, `BalancedAdmission`. v2.2 counts raw time to the reset and has a release span and two lookaheads of its own
(`ReserveReleaseHours`, `BaseLookaheadHours`, `MaxAdvanceHours`), so that the two controllers decide differently, and nothing in the repository asks
them to agree. The module has no state of its own: both properties are evaluated in every state of the v4 loop, `ReserveIsForTheEnd` for every
anchor that may have been taken by then. A burn is counted in parts of which `PerUnit` make a fine unit, so that medians, percentiles and
1.645 * 1.4826 are exact; the tolerance of 1e-12 is left out. `Ascending` says what sorting yields, not how.

## 4. What the runs check

| Run | Instance | Shows |
|---|---|---|
| `vault_contention` | 1 subject, 3 threads in 2 processes, 3 tokens, every fault | exclusion, no abandoned lease, no home left behind but in the three ways of item 1 below, acknowledged outcomes are stored, the vault implements `CredentialRegister` |
| `vault_exceptions` | 2 subjects, 2 processes, the faults `open`, `mkhome`, `body`, `spoil`, `seal`, `put`, `lockfile` and crashes | a failed call changes nothing, no lost refresh, no resurrection or crossing of subjects; every call returns |
| `blob_files` | 1 key, 2 blobs, 3 threads in 2 processes, failing calls, crashes, power loss | lock-free reads are whole and current, confirmed outcomes survive a power loss |
| `helper_calls` | 2 helpers, 2 clients of any kind, timeouts of a few ticks | answers are true, only those behind another authorized client time out, a successor is reachable, the helper comes free |
| `coordinator_flows` | 1 subject, 2 callers, 2 flows, every fault | one live flow, a revoke leaves no older flow |
| `coordinator_outcome` | 1 subject, 1 caller, 2 flows, dying clients, failing exits, restarts | `AUTHORIZED` exactly when a credential was stored; a cancelled flow ends |
| `client_session` | a pipe of 2 lines, every fault, notifications of others | readiness is genuine but for the two confusions above, every wait ends |
| `read_answers` | 2 readers, 1 retry, every fault | a reconnect is asked for only when no usable credential was there, a missing one is reported, every read answers |
| `gate_rotation` | 2 calls, 2 keys, good tokens and one for each thing that may be wrong | a published key is found, a withdrawn one dies, three looks at a token differ only about time |
| `controller_epoch` | a week of four 4-minute days with a day off, every anchor, 2 estimates | the runway holds, nothing is held back at the end, monotone admission, active minutes are the minutes of the windows, waiting is safe, estimates cover what such passes burn, v2.2 spends its reserve at the end and not before |
| `windows_snapshots` | one result with up to two windows, each with one thing out of the ordinary, or up to two results of any providers and dates, perhaps a stray | Swift shows no whole-minute figure that Python does not, plain windows mean the same to all three, fresh is young |
| `relay_pairing` | 2 workers, 2 subjects, 2 pairings, 1 companion with pushes that overlap | tables agree, bindings stay, answers are kept, pairing ends |

Types are no property of a run: `TypeCorrect` of the proof modules, and `ClientTypeCorrect` for `AppServerClient`, prove them.

Why the bounds suffice. *Threads:* two threads of one process plus one of another: `flock` excludes descriptors, so
threads of one process compete like threads of two, but die together; `vault_exceptions` gives up one thread for the second subject; one holds, one waits, one times out or crashes. *Tokens:* a lost
update needs the stored token, its refresh and a competing write: three. *Subjects* are
independent except for the lease and blob maps; two suffice to see one leak into the other.
*Calls* of the coordinator: `coordinator_flows` leaves out `close`, the other run allows all four. *Flows:* properties relate a flow to its predecessor or to a revoke: two. *Blobs:* one to be replaced
and one to replace it; keys share nothing but the fsync, which only helps. *Pipe:* the readiness
boundary needs a completion and an update; a foreign message comes before, between or instead of them: two lines at a time, since lines are read and more are written. *Readers:* one holds the lease while
the other waits, times out or retries; a third adds no new kind of step, and the login and the revoke are there already. *Helpers and clients:* a successor needs a predecessor that
cleans up; a queue needs one client in front; `MCCasts` lets that one be of every kind. The timeouts keep the order of the code's (15 s to read, 10 s for
`systemd-creds`, 15 s for the caller). *Keys and calls:* two calls make the answers of two fetches overtake each other, two keys make a rotation;
the run is longer than the lifespan and a fetch together. *Relay:* a disagreement needs two claims of one subject or of one pairing on two
workers; a third worker only refuses more. *Snapshots:* two on their way overtake each other, the clock passes the maximal age. *Week:* it begins and ends inside a
working window, has a day off, and anchors are taken at every minute, also with fewer active minutes than the release span and with none; the allowance
is eight points of two units, the estimates one point and two and a half. v2.2 has 16 hours, a release and an advance of 6, a base lookahead of 2: 72, 72 and 24 of 168
in their order, with time before them. `MaxExcess` bounds what nobody admitted. The proofs below remove these bounds for
everything except liveness.

Initial states include unreadable blobs (a rotated key or a damaged file). Symmetry is used in `vault_contention`, over tokens and subjects,
and in `gate_rotation`, over calls. Their temporal formulas, `ImplementsRegister` and the action properties, have the form `Init /\ [][A]_v` and do not
name the permuted values, so that a step and its image satisfy them alike. No run with a liveness property uses symmetry.

### Fairness

* `AuthVault`: `WF(Advance(w))`. Each step of a call is a bounded system call or a wait with a deadline, and the `with`
  bodies are bounded by the read (30 s) and authorization (600 s) timeouts. Crashes are not fair; that a lease outlives no crash is the safety property `NoAbandonedLease`.
* `QuotaRead`: `WF(Advance(r))`. The lease, the crypto helper and the requests to Codex have deadlines. The user, the upstream
  service and damage to the blob are not fair.
* `AuthorizationCoordinator`: `WF(Work(f))` for worker steps, `WF(Answer(t))` for calls that have begun.
  Nothing is assumed of the user, of new calls or of the 600-second limit, so `CancelEnds` shows that
  cancellation itself ends the flow. The fault `thread` (a worker that cannot start) is left out of that run: such a
  record stays `STARTING` for good, as the hazard list says.
* `CryptoHelper`: `WF(Tick)`, `WF(Serve(i))`, `WF(Receive(c))`: time passes, the helper's loop and a waiting client run. No client has to send, no
  helper has to start or to be stopped.
* `QuotaRelay`: `WF(Step(m))`: the requests of the companion time out after 12 seconds and its timers fire, and an answer may always be an error. Nobody has to
  claim, no worker to answer, no lock to be released.
* `TokenGate` and `QuotaWindows` state safety only.
* `AppServerClient`: `WF(Loop \/ Select \/ Read)` and `WF(Deadline)`: the thread runs and the clock ticks. Codex may say anything or nothing.

### Where code and documents differ, and facts a reader of the code may not expect

No run is spent on these; each follows from the lines named.

1. `materialize` makes and fills the temporary home before its `try`
   (`sealed_auth_store.py:254-259`), so an error in `_write_private` leaves a partial
   plaintext credential, against the docstring "removed in all cases". `NoOrphanedHome` is checked with every fault and names this
   path, an `rmtree` that removes nothing and a dying process as the only ways a home stays.
2. `begin` asks `exists` before it takes the lock (`authorization_coordinator.py:200-204`). When the pending flow
   is authorized in between, a second device login starts for an authorized subject. The model contains it.
3. `_read_message` selects on the pipe but reads through a text buffer (`quota_backend.py:147,162`). Two lines in one burst
   leave the second unseen until something else arrives; the login then times out although it succeeded. The model contains it.
   A completion that names no login counts as one's own (`quota_backend.py:251`), and after one's own completion any account that is announced counts as
   the new one. When `start` raises, nothing ends the child (`quota_backend.py:74-79`).
4. The deployment crypto provider raises a plain `RuntimeError` for a blob that does not open (`deployment_providers.py:417`), which
   `classify_recovery` maps to `BACKEND_FAILURE`. Test 192 (`tests/TEST_CASES_V3_0_RECOVERY.md:8-9`) wants `NEEDS_REAUTH`, so the user
   is told to wait for something that only a new login can repair. The model contains it.
5. Behind the transport a `ReauthorizationRequired` becomes `QUOTA_UNAVAILABLE` (`mcp_transport.py:260-274`). No composition in
   the repository puts the wrapper there.
6. `references/14_WORK_SCHEDULE_RUNWAY.md` gives a base lookahead of
   840 active minutes, while the code and `references/10` take the soft day, 780 minutes by default.
7. `put_bytes` fsyncs the directory after `os.replace`, so
   it can raise although the blob was replaced (`deployment_providers.py:210-217`). The fault `sync` is
   that case; `FailureChangesNothing` and `StateTellsPersistence` hold exactly without it, and the theorems assume its absence by name.
8. The helper's client timeout counts per `recv` (`crypto_helper.py:60-70`), so a client that keeps sending keeps the helper; a request whose
   caller has given up is carried out all the same; a stranger may see a broken pipe instead of its refusal. Cleanup looks and unlinks in two steps
   (`crypto_helper.py:354-359`): two helpers started at once by hand can leave neither reachable (`raced`).
9. When a claim is refused with `SUBJECT_ALREADY_BOUND` (`quota_relay.py:331`) there is no rollback: the connection keeps its write
   lock and others answer "database is locked", two of them possibly until one restarts. A claim whose commit failed is read back as
   `CLAIMED` by the same connection (`quota_relay.py:320`), answered and pushed under, and lost when that worker dies. `AnswersAreKept` therefore ends
   with the first "database is locked".
10. A subject stays bound for good, so a companion that lost its token cannot be bound to it again. `save` deletes the old
    item before it adds the new one (`main.swift:17`), so a failed second save leaves a new id without a token, and an app that ends in between a new id with the
    old token (`main.swift:465`); pushes fail until the user pairs again.
11. The normalizers differ in both directions. Swift skips windows that the Python companion refuses with the whole payload (no duration, a percentage
    out of range, an unreadable reset), takes the only result whatever its provider and never says `STALE`. But it also skips windows that Python accepts: a duration under
    `window_seconds`, a numeral instead of a number, a null `usedPercent` beside a `used_percent` (`main.swift:231-244` against
    `quota_telemetry.py:99-127`); and it refuses an array with a stray element, which Python filters. A fraction of a minute is rounded by Python and cut
    off by Swift, so that the same window may be a weekly one to one and another to the other. `SameMeaning` says what is left: of whole minutes Swift
    shows nothing that Python does not show, and plain windows mean the same. The Plugin takes the last window of a kind. The macOS sensor is
    waited for before its output is read and without a limit (`main.swift:203`). A snapshot without
    a readable date is judged from its arrival (`quota_relay.py:390`).

## 5. What is proved

The proofs assume only the named assumptions on the constants (`VaultAssumption`,
`BlobAssumption`, `QuotaReadAssumption`, `CoordinatorAssumption`, `ControllerAssumption`, `HoursAssumption`, `HistoryAssumption`, `PayloadAssumption`,
`RelayAssumption`, `GateAssumption`, `HelperAssumption`) and, where stated, the absence of a fault.
Those of histories and payloads only say what they are sequences of. TLC evaluates each for its instance.

**AuthVault_proofs.** `TypeCorrect` stands alone. `MutualExclusion` and `LeaseIsLive` follow from `LeaseInv`: a
worker inside its lease is the recorded holder and the holder is inside. Exclusion alone is not inductive,
because it says nothing of who holds. `GrantInv` and `AuthInv` say that a stored token is a current grant of
its subject, that subjects share no grants, and that what an operation may still save is unspent or is what is stored. They use
the lease: only its holder can make another's plaintext stale. From them follow `Refinement` (the vault implements
`CredentialRegister`), `LostRefreshImpossible` and `ResurrectionImpossible`. `OutcomeInv` gives
`Acknowledged`; `EntryInv` gives `CleanFailure` without `sync`; `HomeInv` gives `NoOrphans`, for every set of faults: a
home that a worker has is removed, or given up with its reason, before its call is over.

**BlobProvider_proofs.** `InvHolds` carries one conjunction: a writer holds the lease of its key, the visible entry may survive and is
never damaged, a reader has seen the present entry, and what a writer will confirm is among the attempts and, before the
directory fsync, visible. The lease makes it inductive: only its holder changes an entry or clears the attempts. `WholeReads` and
`Durable` follow.

**QuotaService_proofs.** *The read.* `CauseInv`: whoever fails with an exception of the reconnect class still has its cause among the values
seen, and a spent copy comes from a spent credential. `ReauthIsJustified` is not inductive without it, because the answer is made
two steps after the cause, when the store may hold something else. `MissInv` follows a missing credential the same way.

*The client.* `ClientTyped` adds to the types that a session makes at most two requests. `ReadyInv` looks at the line of everything Codex wrote and
nobody took, buffer before pipe: unless a completion without a name was sent, whatever completes in it belongs to this login, and an account that
follows a completion, in the line or already taken, comes after the reload or after a foreign account. The order matters, so the invariant speaks of positions:
`FirstTaken`, `LastWritten` and `WritingKeeps` say what taking and adding a line does to them.

*The windows.* `DatedInv`: whatever is under way or in the table carries no date, or that of its own measurement; it needs that no choice is
made between results (`OneResult`). From it `FreshYoung` is arithmetic on the clock. `SameMeaning` is about computations on lists of any
length. `SelectionOf` gets the recursive function its equations, `SelectionSet` and `OfKindSet` say what a selection contains. `WholeMinutes` is the arithmetic:
for whole minutes the three roundings agree. With it `FiguresAgree` shows that what Swift keeps and Python accepts is the same figure, and `PlainKept` and
`PlainListed` that of plain windows nothing is lost and nothing differs.

**QuotaController_proofs.** `ActiveTime` is the fact about the day loop that the rest uses: what is left at a minute is what is left at the next, plus
that minute if it is one of work. It is an induction over days, comparing two runs of the loop. `CountTheorem` is the same induction over
minutes; `ActiveTimeShrinks` is a corollary of `ActiveTime`. No prover here can instantiate the library's induction rule, which takes a predicate; `SetInduction` replaces
it by least elements of sets of numbers (well-foundedness of `<`), and `TotalExists` gets the recursive function its equations.

`RunwayTheorem` follows the net use of the epoch (used and owed, less the anchor and the excess): an admission
adds an estimate that `LaunchFits` bounds by what the horizon leaves, a burn moves from owed to used, and a tick only extends the
horizon (`TargetMonotone`, from products of monotone factors). The meter's lag is below a point, which is the margin `Headroom` keeps.
`MonotoneTheorem` is `admission` alone, over all headrooms. `WaitingTheorem` combines the monotone target with an `admission` that is monotone in the
headrooms (`AdmissionWithMore`). `NothingHeldBack` needs `AnchorIsShown`, an invariant of its own: with an anchor between two points of the meter the target
would be off by the fraction. `ReserveTheorem` is the v2.2 trajectory at its two ends: before the release (`TargetBeforeRelease`) both headrooms are parts of
one line, at the reset (`TargetAtReset`) they are all that remained. For `HistoryFitsTheorem` the lemmas on `Ascending`
(`SortedPlace`, `SortedRises`, `SortedScales`) give the order statistics of a history without an algorithm, and `EstimateCovers` shows case by case
(one, two, three to five recent passes) that the estimate is at least a typical burn and a point.

**AuthorizationCoordinator_proofs.** `IndexInv`: a live flow is the indexed one of its subject and is not
terminal; it gives `OneFlowAtATime`. `RevokeInv` follows a revoke through its cancel, wait and delete: before the delete the only older
flow that may live is the one it works on, at the delete none; with the life cycle of flows it gives `RevokeWins`. `PersistInv` relates the
exception a worker unwinds with to the save; it gives `OutcomeIsTruthful` without `sync`.

**QuotaRelay_proofs.** `BindingsAgree` is not inductive: a commit writes what a worker has pending, so the pending claims of one worker
must be at odds neither with each other nor with the tables, and only the holder of the write lock has any. With these conjuncts `Apply` preserves agreement
(lemma `Halves` for the first of two commits), and `BindingKept` follows because what is pending is for unbound subjects. `AnswersKept` adds what
was told and saved: as long as nothing was refused as locked, nothing is pending between steps.

**TokenGate_proofs.** `GateInv` says that both gates are configured alike and that a verified token passed the first. With it `OnlyTimeDiffers` is
arithmetic over the three looks at the clock, the second of which `since` remembers. `Ages` bounds by lifespan and fetch time how old a cached or fetched key may be, which gives `KeyDies`. `Rotating` says
that whatever a call has fetched since it arrived contains every key that was published all the time, which gives `RotationHolds`.

**CryptoHelper_proofs.** `AnswerInv`: a client is in one queue or handled by one helper (`Placed`), and as long as it is, nothing has been answered or
encrypted for it (`Fresh`); only providers get to `systemd-creds` (`Admitted`). Without `Fresh` a second answer could follow the first. `Prompt` says where
a client is that found no authorized one before it: behind strangers, who are answered in no time, or being read, with all its time left, or at
`systemd-creds`, with more time left than that has; `HelperAssumption` asks that its timeout is the shorter one. `PathInv` says that nobody else is in
a window, or remembers the newest helper's socket as his own, from that helper's bind to the end of its service, unless `raced`.

**Only model-checked:** the liveness properties `EveryCallReturns`, `CancelEnds`, `EveryWaitEnds`, `EveryReadAnswers`, `HelperComesFree` and `EveryPairingEnds`, since
fairness and `ENABLED` are out of the provers' reach. Every safety property and action property that a run checks is a
theorem, `FailureChangesNothing` and `StateTellsPersistence` in the absence of the fault named above.

## 6. What is not modelled, and why

* Wording of errors, validation of JSON, sizes and key formats: a document is valid or not.
* Directory and file modes, symlink checks: they guard against the local environment.
* A partly written line, and the undrained stderr pipe, of Codex; a request to the helper that arrives in pieces.
* The subject key's derivation: subjects are values, assumed distinct.
* The development store (`subject_store.py`) and `staging_server.py`: plaintext homes without leases, for development only.
* The policy for secondary limits of the v4 controller: one comparison with a threshold, no state.
* The relay's HTTP front, which the repository does not have; the companion's window and command line.
* Packaging, validation scripts, workflows and the probe: they run at build time and keep no state.
* The parent of the blob directory: `put_bytes` creates the directory on first use and never fsyncs its parent. That of a temporary file
  or a home a dead process leaves behind nothing is ever read again is taken from the names the code uses.
