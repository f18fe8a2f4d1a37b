# Verification of elysium's sessions, accounts, rate limiter and server process

elysium is an authentication service in Go: HTTP and gRPC servers over Dgraph,
which stores users, service accounts and sessions, with Vault for secrets. This
directory holds TLA+ models of its concurrent core, the configurations TLC
checks them under, and proofs TLAPS checks. `PROJECT.json` maps every
definition to the lines it models and lists runs, mutants, hazards and theorems.

## Inventory

| Component | Source | State | Operations | Talks to |
|---|---|---|---|---|
| Session store | `internal/repository/dgraph/session.go`, `internal/domain/session.go` | session nodes in Dgraph | Create, GetByAccessTokenHash / RefreshTokenHash / ID, ListForUser, RotateTokens, Revoke, RevokeAllForUser, Touch, DeleteExpired | Dgraph transactions |
| SessionService | `internal/service/session.go`, `internal/token/opaque.go` | none of its own; one touch goroutine per authenticated request | Create, VerifyToken, Refresh, Logout, LogoutAll, RevokeSession, ListSessions, ActivateContext | session store |
| HTTP boundary | `internal/handler/http/handler.go`, `internal/middleware/middleware.go` | none | login, service login, refresh, logout, logout-all, list, revoke, activate, verify, me, register, provision | SessionService, AuthService, ServiceAuth |
| Rate limiter | `internal/middleware/middleware.go` 83-138, 219-259 | one map of limiters, 32 shard tokens, a cleanup goroutine | getLimiter, Allow, eviction | in front of every HTTP handler |
| User accounts | `internal/service/auth.go`, `internal/repository/dgraph/repository.go` | user nodes, zookies | Register, Login, GetUser, UpdateUser, DeleteUser, ListUsers, ActivateContext (a check without state) | Dgraph |
| Service accounts | `internal/service/service_auth.go`, `internal/repository/dgraph/service_account.go` | service-account nodes | Provision, Login, Deactivate | Dgraph |
| Vault client | `internal/vault/client.go` | token, renewal goroutine | renewToken, Shutdown | Vault |
| Boot and shutdown | `cmd/server/main.go` | servers, connections | startup order, shutdownAll | everything |
| gRPC server | `internal/handler/grpc` | none | the same calls as HTTP | the same services |
| Transit/JWT signers, config, secrets | `internal/token/jwt.go`, `internal/vault`, `internal/config` | read once at boot | no request uses them | Vault |

What is hard here. Every request is a goroutine of its own and every operation
is several Dgraph calls, so that another request runs between any two. One of
the operations (RotateTokens) is an interactive transaction that may lose its
commit; one (RevokeAllForUser) is a query in one transaction and a mutation in
another; ActivateContext checks, revokes and creates in three. Calls fail,
answers of commits get lost, the server restarts; times are cut to the second
in storage while checks use the full clock; a detached goroutine writes
`last_seen_at`. An account is updated by reading and rewriting its whole node,
deleted in two transactions, and read from states that may be old. A service
account is checked at its login only, so what ends its sessions is time. The
process keeps a Vault token alive while it boots, serves and stops, and has to
end although requests may hang. There is no test in the repository.

What makes each component correct:

* session store and service: a refresh token is rotated once, a chain of
  rotations ("family") has at most one live session, what is replaced is
  revoked, revocation is final and effective, a logout-all and a replay end
  what they should, nobody ends another user's sessions, expiry windows hold;
* rate limiter: an address gets no more than its budget, the locks exclude
  what they should, nobody waits for ever;
* accounts: a write is read by the request that follows it, concurrent updates
  do not lose each other, ended accounts stop working;
* service accounts: a client id has one account; a deactivation is final, and
  its account loses its sessions in bounded time;
* Vault client, boot and shutdown: the token does not lapse while renewals
  succeed; every way out of the process releases what was taken, once and in
  order, cuts nothing off before the deadline, and ends in bounded time.

## Modules

| Module | What it is |
|---|---|
| `SessionStore` | The nodes, what a query selects, and one operator per committing operation of `SessionRepo`, with the conflict rule of the RotateTokens transaction. The invariants of the store. |
| `SessionService` | The handlers of the session endpoints over the store. One action per Dgraph call with the local work up to the next one. Faults, touch goroutines, clock. |
| `SessionLifecycle` | The abstract contract of the repository interface: a session is opened once, replaced at most once and only while live, and ended. |
| `SessionServiceProofs` | The theorems about `SessionService` and their proofs. |
| `SessionTimesProofs` | The proof about expiry times, over `SessionServiceProofs`. |
| `SessionHistoryProofs` | What the answers of the endpoints promise: revoked tokens, logout-all, replay, list, ownership, orphans. Over `SessionServiceProofs`. |
| `SessionLifecycleProofs` | The refinement: `SessionService` implements `SessionLifecycle`. Over `SessionHistoryProofs`. |
| `AccountSessions` | Service accounts composed with `SessionService`: provisioning, login, deactivation, and the sessions they leave behind. |
| `AccountSessionsProofs` | The theorems about the composition and their proofs. |
| `SessionClaims` | Statements of the repository's comments that the code does not satisfy, one run each. |
| `UserAccounts` | Registration, update, deletion, login and the reads of the accounts, over the committed states of Dgraph. |
| `UserAccountsProofs` | The theorems about the accounts and their proofs. |
| `RateLimiter` | The per-address limiter with its sharded mutex and cleanup goroutine. |
| `RateLimiterProofs` | The theorems about the mutex, the types and the budgets, and their proofs. |
| `VaultClient` | The client's login, renewal goroutine, timers and shutdown, with Vault counting the token down. |
| `Server` | `run` and `shutdownAll` over `VaultClient`: boot, two servers with their requests, signals, the four stages of the shutdown. |
| `ServerProofs` | The theorems about `Server` and its Vault client, and their proofs. |
| `MCSessionService`, `MCAccountSessions`, `MCUserAccounts`, `MCRateLimiter`, `MCServer` | The instances TLC checks. |

`SessionService` extends `SessionStore`; `AccountSessions` extends
`SessionService`; `Server` extends `VaultClient`. `SessionService` instantiates
`SessionLifecycle` as what it implements.

### How the session model corresponds to the code

`sessions` is the set of nodes. A session stands for its uid, its token pair and
its refresh JTI together: they are minted once, together, and looked up by
SHA-256, so a lookup by hash is a lookup by session. `parent` and `family` are
history. `txn` and `conflicted` are the open RotateTokens transactions and the
ones that another commit has overtaken. `reqs` holds the handlers: `pc` names
the next Dgraph call, `token` is the session whose token was presented,
`target`, `draft` and `found` are the locals that survive a call; `before`,
`dead` and `faulted` are history for the properties. `decided`, in a draft, and
`delay`, in a session, are history too: when the handler decided to mint (the
expiry check of a refresh, the account read of a service login, the revocation
of an activation), and how long after that it read the clock for the expiries.
`held` is what clients have
been given, and clients present only that or an unknown token. `touches` holds
the goroutines of `lookupAndCheck`.

| Endpoint | Actions in order |
|---|---|
| login, service login | `Login` / `ServiceLogin`, `Mint`, `Create`, `ReadBack` |
| refresh | `StartRefresh`, `RefreshLookup`, `Mint`, `RotateRead`, `RotateCommit` or `RotateAborts`, `ReadBack`; on a replay `BulkRead`, `BulkWrite` |
| every authenticated one | `Authenticate` first, which starts a touch |
| logout | `StartLogout`, `LogoutLookup`, `Revoke` |
| logout-all | `StartLogoutAll`, `BulkRead`, `BulkWrite` |
| list | `StartList`, `List` |
| revoke by id | `StartRevoke`, `FindTarget`, `Revoke` |
| activate context | `StartActivate`, `ActivateLookup`, `ActivateRevoke`, `Mint`, `Create`, `ReadBack` |
| verify | `StartVerify` |

`Mint` is the generation of the tokens and the `time.Now()` after it
(`session.go:103`, `:301`). It is a step of its own because the clock is read
for a second time there: a refresh has compared the refresh expiry in
`RefreshLookup` (`:283`) and checks nothing again, and a service login has read
the account and compared the secret with bcrypt. Two readings are merged with
the call next to them: an expiry check with the query whose answer it looks at
(an expiry never changes), and the repository's own reading for `last_seen_at`
with the step it belongs to.

`TokenRequest` is the choice among those that present a token. Login starts
where the credentials have been accepted; the accounts are in `UserAccounts`,
which shares no state with the sessions, in the code as here. `CallFails` is a
call that has no effect, a failing random source included, `Reply` has a disjunct for a commit that is applied and whose answer is lost,
`Restart` ends all handlers, goroutines and open transactions.

What Dgraph is assumed to do is what this code relies on: a read-only
transaction sees the latest commit, a `CommitNow` mutation is atomic, and an
interactive transaction aborts at commit if another commit has written
`session.revoked` of the same node since its first query.

### How the service accounts correspond to the code

`accounts` holds, per client id, the `active` flag of each stored node, `admin`
the handlers of the two account endpoints, and `off` (history) the time of a
client id's first deactivation.

| Endpoint | Actions in order |
|---|---|
| provision | `CreateAccount`, `CreateAccountCommit` (one upsert request, which Dgraph runs as a query and a commit) |
| deactivate | `DeactivateLookup`, `Deactivate` (two transactions) |
| service login | `AccountLogin`, then `Mint`, `Create` and `ReadBack` of `SessionService` |

`AccountLogin` is the strong read of the account and what it decides. The
comparison of the secret and the clock reading for the session come later, with
`Mint`, and storing it later still; a deactivation may come before either. The
upsert aborts if another commit has written its client id, an
`@upsert` predicate, since its query. The query of `CreateServiceAccount` uses a
variable `$clientID` that it does not declare (`service_account.go:134`), which
Dgraph may refuse altogether; and the three `Vars` maps of that file use keys
without the `$` that the Dgraph client documents (`:143`, `:174`, `:199`). Both
are modelled as intended. Deactivation is
idempotent in the code, and `off` keeps the first time. A session step is one of
`SessionService`'s, with the accounts unchanged.

### How the process corresponds to the code

Time is counted in ticks; a goroutine whose timer is due or whose channel is
ready runs before the next tick. The lateness that matters is that of calls: a
renewal is granted by Vault at one moment (`VaultRenews`) and heard of at
another (`Renewed`), or never (`RenewFails`), at any time within `CallMax`, the
HTTP timeout of the Vault library, since `RenewSelf` takes no context. The login
may be as late: `Login` lets up to `CallMax` pass between Vault's grant and the
goroutine's start.

| Code | Model |
|---|---|
| `Client.renewToken` | `renewer`: `sleep`, `call` and `wait` are its two selects and the call; `timer` is what is left of its timer; `lease` is `c.secret`, `left` what Vault still grants |
| `close(stopCh)`, `wg.Wait` | `closes`, `RenewerGone` |
| `run` up to the listeners | `main` through `BootSteps`; each may fail (`BootFails` runs `vaultClient.Shutdown`) |
| the two serving goroutines | `http`, `grpc`; a failing one puts an error in `serverErr` |
| `select` on `serverErr` and `quit` | `BeginShutdown` |
| `shutdownAll` | `main` through `http` (`httpServer.Shutdown`), `grpc` (the select on `grpcDone` and the context), `vault`; `drain` is the goroutine of `GracefulStop`; `ctx` what is left of the context |
| the deferred `dgraphConn.Close` | `CloseConn` |
| handlers, touch goroutines | `request`, `touching`; nobody waits for a touch |

From the libraries: `http.Server.Shutdown` closes the listeners at once and
waits for the active connections or the context, leaving handlers running in the
second case; `GracefulStop` accepts nothing more and waits for the handlers;
`Stop` cancels the calls and, at the gRPC version the repository requires, does
not wait for their handlers (`cut`). `elapsed` is history and stops at `Late`.

### How the account model corresponds to the code

`commits` is the sequence of committed states of the user nodes, each with the
conflict keys its transaction wrote; an index in it is a commit timestamp, which
is what a zookie holds. `reqs` holds the requests: `draft` is the user being
registered or the `dgraphUser` of an update, `start` the start timestamp of the
open transaction, `zookie` what the read is made with, `result` what the client
is told.

| Endpoint | Actions in order |
|---|---|
| register | `Register`, `CreateQuery`, `CreateCommit` (one upsert request, which Dgraph runs as a query and a commit) |
| update | `Update`, `UpdateRead`, `UpdateCommit` (one transaction) |
| delete | `Delete`, `DeleteLookup`, `DeleteCommit` (two transactions) |
| login, get, list | `Login`, `GetUser` or `ListUsers`, then `Query` |

A stored user is the address, nickname, country and password; the first and the
last name are updated as the country is. `Merged` is what `omitempty` does to
the mutation of an update: an empty field is not written, which keeps the
password hash that Update never reads, and also means that an update to an empty
value is answered as done and leaves the stored value. A commit aborts if one of
its conflict keys was written since its start: the node, or the index entry of
an `@upsert` predicate. Whether the answer to a write arrives does not change
the server, so `CallFails` stands for calls without effect only. The zookie of a
read is none or that of the latest commit; an older one asks for less.

### How the rate-limiter model corresponds to the code

`free` is the set of shard channels that hold their token, `clients` the map,
`buckets` the tokens of each limiter object, `reqs` the requests inside the
middleware, `sweeper` the cleanup goroutine. A map access is a step that begins
and ends, so two may overlap (`Overlap`); then the process may stop (`Fatal`), a
write may be lost, or a read may miss an entry. The hash of an address is a
constant of any sign (the Go code multiplies and overflows `int`), and
`ShardIndex` reduces it as the code does.

## Runs

Passing runs (module `MCSessionService` unless said otherwise):

| Run | Instance | Shows |
|---|---|---|
| `races` | one user, three handlers, three sessions; login, refresh, logout-all | single use of refresh tokens, one live session per family, what a logout-all and a replay cover, revocation is final |
| `faults` | two handlers, one fault anywhere; login, verify, refresh, logout, activate | the inductive invariant itself, no use after revocation, no live session without a holder, refinement of `SessionLifecycle` |
| `timing` | a user and a service account, TTLs of one tick, two ticks; logins, refresh, list, revoke by id | the refresh window is absolute through rotation, lists, a user's session is revoked only by that user's requests |
| `accounts` (`MCAccountSessions`) | one client id, two sessions, two handlers of each kind, two ticks in a second, TTLs of one tick, three ticks, one pending touch; service login, refresh, activate | client ids are unique, an access token outlives its refresh expiry by one access lifetime and the pause of its own handler at most, a deactivation is final and bites within the two lifetimes and the pauses of the login and of the last rotation, a touch reopens nothing |
| `liveness` | two handlers under `FairSpec`, three sessions, one pending touch; login, refresh, activate; a replay runs what a logout-all does | every request is answered; a replay ends the user's sessions |
| `users` (`MCUserAccounts`) | two clients, three commits, two addresses of which one is spelled in two ways, two nicknames, pages of one and two | addresses are unique, an update undoes nothing and revives nobody, reads with a zookie and logins are fresh, pages partition a list |
| `server` (`MCServer`) | a tick of five seconds, leases of none, 1, 6 and 9 ticks, a shutdown timeout of two, one request per server | the token is kept while renewals succeed, release in order, nothing cut off early, exit in bounded time, shutdown ends, renewal goes on |
| `limiter` (`MCRateLimiter`) | two addresses in two shards, one of them by a negative remainder, two requests, cleanup every tick, eviction after one idle tick | one holder per shard, one bucket per address, the budget, every request decided |

Runs that end in a counterexample, each a statement of the repository that the
code does not satisfy:

| Run | Statement | What happens |
|---|---|---|
| `claim_logoutall` | "Revokes every session for the user" | a rotation commits between query and mutation; its new session stays live |
| `claim_owner` | "users may only revoke their own sessions" | service sessions all store the empty user id |
| `claim_nickname` | "Return domain.ErrUserAlreadyExists on unique-constraint violations" | Update does not look for another user with the nickname it writes |
| `claim_limiter` | 32 shards in front of one Go map | two requests in different shards are in the map at once, one writing |

`LogoutAllCovers` is the half of `claim_logoutall`'s statement that is true:
every session stored when the logout-all began is revoked.

Other differences met while modelling, without a run:

* Two refreshes that read the session live inside their transactions race at the
  commit; the loser gets Dgraph's conflict, which is not
  `ErrRefreshTokenReplayed`. It is answered as an invalid token and nothing is
  revoked, where `session.go:317` says "treat as replay" and the repository's
  README counts it as the second case of compromise. `OneLivePerFamily` and
  `RotatedAtMostOnce` hold all the same.
* `client.go:119` says "If renewal fails, retry every 5 seconds until success or
  shutdown". The loop waits five seconds and then goes back to its head, which
  sleeps two thirds of the whole lease again. A lease lasts one and a half times
  as long as that sleep, so one failed renewal loses the token, and nothing logs
  in again; `TokenKept` therefore speaks of successful renewals only, and
  `RenewalGoesOn` says that the calls do go on.
* `main.go:345` says of the Vault client "last — renewal goroutine must outlive
  all API callers". When the context runs out in `httpServer.Shutdown`, handlers are
  left running, the Vault client is stopped and the Dgraph connection closed
  under them, and "stopped cleanly" is logged; `CutOffOnlyByTimeout` says that
  this takes the timeout. `ShutdownTimeout` does not bound a `RenewSelf` in
  flight, which is why `ExitBounded` adds `CallMax`.
* `ActivateContext` checks validity one call before it revokes, so that two
  overlapping activations, or one that overlaps a logout, both mint a session;
  it mints through `Create`, which begins a new refresh window, so the "absolute
  lifetime" of a refresh token holds along rotations only.
* Nothing between the expiry check and the mint bounds a refresh: a handler that
  pauses between `session.go:283` and `:301` mints an access token that outlives
  the refresh expiry by the pause on top of the access lifetime.
  `AccessWindowBounded` says that it is that pause alone and that the pauses of
  earlier rotations do not add up. The same holds of a service login between
  its account read and its clock reading, in `DeactivationBites`.
* A failed revocation after a replay is dropped (`session.go:279`): the answer is
  the same and the user's sessions stay. `ReplayCovers` is about handlers none
  of whose calls failed.
* A deactivation revokes no session; `DeactivationBites` is what time does
  instead. Service sessions cannot activate, which it rests on: a deleted user's
  sessions, which can, have no such bound. Nothing sets `user.active` to false.
* A replay with a service token ends the sessions of all service accounts, for
  the reason of `claim_owner`.
* `UpdateUserInput` "carries validated fields" and nothing validates them;
  `ListForUser` orders by `orderasc` where its comment says newest first;
  `ListSessions` says "active" but expired sessions are listed;
  `PermissionVersion` is stored and never compared; nothing calls
  `DeleteExpired`.

### Bounds, and why they are enough

* `SessionId` (2 or 3): a login and two successors are what the shortest
  violations of the mutants need; a mint is enabled only while ids are left, so
  a run covers every history of that many mints.
* `Request` (2 or 3): the races here are between pairs of calls; three handlers
  add a bystander that reads between two writers. A slot serves any number of
  requests one after another.
* `MaxFaults` 1: the code keeps no state across faults, so a second fault meets
  a store that a first one could have left.
* `MaxTime` 2 at TTLs of 1 (`timing`): a session minted at once is met before,
  at and after both of its expiries, and rotated when a renewed window would
  differ from the carried one. Runs where time plays no part have 0.
* `MaxTime` 3 at TTLs of 1, two ticks in a second (`accounts`): a session's
  expiries are cut to the second below or not, by when it is minted; a refresh
  that passed its check at the last moment pauses before it mints; a
  deactivation at 0 is followed by the clock reading of a login it raced, a tick
  later or more, a rotation at the last moment of the window, and a refresh that
  comes too late. Two admins are two racing provisions, or a deactivation
  between two logins or beside a provision under way.
* `MaxTouches` 1, and 0 where no property depends on touches: a touch writes one
  field of one node and nothing else reads it but the order of the list. The
  run `accounts` lets one write after its session was rotated away, `liveness`
  while an activation revokes; that no touch undoes a revocation is proved for
  any number (`RevocationsAreFinal`).
* `server`: leases of 1 (below the shortest sleep), 6 (long enough for no
  delayed call: `LongEnough` needs more), 9 (long enough) and none, so that
  `TokenKept` is met on both sides of its condition; `CallMax` 1 puts every
  answer before and after a tick; `Timeout` 2 is longer than a call, so a
  shutdown meets both a drain that ends in time and one that does not. One
  request per server, since they only count as some or none.
* `MaxCommits` 4 (three writes) of the accounts: a registration, then two of an
  update, an update and a deletion, which is what a lost update, a revived user
  and a stale read take, or three users for the pages. One country, so that the
  two nicknames are what updates change; one client reads, for reads disturb
  nobody.
* `MaxTime` 2 and `MaxAllowed` 3 of the limiter: an entry is made, evicted and
  made again; an address may be let through once more than its budget, and does
  so in the mutants. Once map accesses have overlapped no further request
  arrives. A tick is minutes, so none passes between the two adjacent
  statements that fetch a limiter and ask it, and an idle entry's bucket is full
  when it is evicted (`Rate * IdleLimit >= Burst`; 10 per second, 30 and five
  minutes by default).

Handlers are symmetric in the safety runs; those with liveness use no symmetry.

### Fairness

`SessionService!FairSpec` asks weak fairness of each handler's next call: Dgraph
calls return, with an error if the request's context ends, and the scheduler
runs the goroutine. Nothing is assumed of clients, touches or time.
`RateLimiter!FairSpec` asks strong fairness of each request and of the cleanup
goroutine, because goroutines that wait to receive from a channel are queued and
served in order. Nothing is assumed of arrivals or the clock.
`Server!FairSpec` asks weak fairness of the boot, of main's shutdown, of the
`GracefulStop` goroutine, of the renewal goroutine (a timer that fires or a
closed channel wakes it, and the HTTP client ends a call) and of time. Requests
and touches may hang, listeners need not fail, and a signal need not come.

## Proofs

`SessionServiceProofs` proves, for any sets of sessions, users, clients,
contexts and handlers, any clock resolution and any bounds:

* `Invariance`: `Spec => []IInv`;
* from it `TypeCorrect`, `RotationIsSingleUse`, `FamilyHasOneLive`,
  `ReplacementRevokes`, `RotationKeepsIdentity` and the action property
  `RevocationsAreFinal`.

`IInv` is the type invariant, what the store keeps (`StoreInv`) and what each
handler relies on at its next call (`HandlerInv`). The heart is
`OpenTxnSeesLive`: a RotateTokens transaction that no commit has overtaken still
sees its session live. It is what makes `OneLivePerFamily` and
`RotatedAtMostOnce` inductive: RotateCommit revokes the only live session of the
family at the moment it adds the next, although the check was made a call
earlier; every writer of `session.revoked` goes through `CommitOver`, which marks
the transactions it overtakes. `HandlerInv` adds that the draft a handler is
about to store still has the identity of its parent, and that an activation's
parent is revoked before `Create`. The proof has a lemma per store operation,
for what a commit keeps, and a lemma per action; `NextKeepsInv` collects them.
Assumptions: `SessionStoreAssumption` and `SessionServiceAssumption`.

`RateLimiterProofs` proves that the shard a hash of either sign picks is one of
the channels (`ShardInRange`) and, for any number of shards, addresses and
requests, type correctness (`TypeCorrect`) and that each shard's token has one
holder (`ShardsExclude`, stating `OneHolder`). The two are inductive together
(`Inv`): the type supplies that a request's shard is one of the channels, and
that a limiter can always be allocated, by counting those the map and other
requests can refer to. Assumption: `RateLimiterAssumption`.

The limiter's budgets are proved from a second invariant (`BudgetInv`, that is
`Inv` and `Ledger`). Until two map accesses overlap, what an address was let
through and what its bucket holds are together at most a bucket and what time
has filled in, an address without an entry counting as one with a full bucket
(`Spent`). It takes three more facts. No two addresses share a limiter, since a
limiter is allocated only when nothing refers to it. A request that is past the
map asks the limiter of its own entry, last seen at this very tick (`AskedNow`);
that keeps the eviction away from it, and a request about to write still finds
no entry (`WriterIsNew`). And a bucket holds at least what its idle time has
filled in (`Refilled`), so that an entry idle for more than `IdleLimit` is full
and forgetting it gives nothing away; this is where the assumption
`Rate * IdleLimit >= Burst` is used. The program's defaults satisfy it (10 a
second, 30, five minutes); the rate and the burst are settings, and a deployment
that breaks it is outside the theorem.
`OneLimiter` and `BudgetIsKept` follow. Both are conditional on `~raced`, as the
properties are: the code does not exclude the overlap (`claim_limiter`).

`SessionHistoryProofs` proves what an answer promises about the past. The
statement is about a set of stored sessions and one handler (`HistoryOK`), both
passed as values, so that one lemma (`HistoryStays`) says that nothing promised
or relied on is lost while the store only grows: sessions are neither removed,
reopened nor handed to another user (`Grows`, which every step satisfies by
`NextKeepsInv`). Its parts are the endpoint each call belongs to (`StageOK`),
what a handler knows of the sessions at its next call (`RelyOK`), how far a
request on a dead session gets (`DeadOK`) and what the answer given promises
(`PromiseOK`). The heart is `CoversAllBut`: when RevokeAllForUser has run its
query, every session that was stored before is revoked or in the result, and it
stays so until the mutation, whatever rotations run in between, because those
revoke what they replace. A session minted after the query is not covered, which
is what the run `claim_logoutall` shows and why the theorem is about the
sessions stored when the request began. From `HInv`, which is `IInv` with
`History`, follow `RevokedTokensAreRefused`, `LogoutAllIsComplete`,
`ReplayIsComplete`, `ListIsComplete` and `OnlyOwnersRevoke`;
`NothingIsOrphaned` has an induction of its own over `IInv`.

`SessionLifecycleProofs` proves the refinement `Spec => ImplementsLifecycle`.
Under the mapping of `SessionService`, `Create` is `Open`, `RotateCommit` is
`Replace`, the three actions that revoke are `End`, and every other step leaves
status, account and successor alone. `Replace` needs its old session live, which
is `OpenTxnSeesLive` again, and its new one on the same account, which
`HandlerInv` has; `End` needs sessions of one account, which `RelyOK` has.

`UserAccountsProofs` proves, for any number of users, addresses, requests and
commits, `TypeCorrect`, `EmailsAreUnique`, `DeletedStay`, `ReadsFresh`,
`OnlyGiven` and `PagesShowEachOnce`. Its invariant is about the whole sequence
of commits: two states that disagree on a node have a commit between them that
wrote the node's conflict key (`NodesKeyed`), an address that is new has one
that wrote its index entry (`EmailsKeyed`), and a user is stored from the commit
it is named after until it is deleted, for good (`KeptSinceCreated`). A commit
that is not refused has met no such key since its start, so what its transaction
read then still holds of the latest state: the address it looked up is still
free, and the node it merged is still what it read. `ReadsFresh` is about what
is read: get, list and login. Update answers with a struct of its own, filled
before `omitempty` drops the empty fields from the mutation, and nothing is
claimed of that answer. The paging theorem is arithmetic: the pages cut the indices of the list into intervals that are
disjoint and cover it.

`SessionTimesProofs` proves `AccessWindow`: an access token outlives the refresh
expiry of its session by at most one access lifetime and the time its handler
took between the expiry check and the mint. It adds to `IInv` what a handler
knows of the times in its draft: a rotation was inside its refresh window when
it was decided (`HandlerTimes`). Minting turns the time since into the draft's
`delay` (`MintTimes`, `MintedWindow`), and from there on draft and session keep
the bound (`InWindow`). A rotation copies the refresh expiry and has a delay of
its own, so nothing of its parent's delay remains. Rounding a time down to the second loses less than a second,
so the theorem assumes `TicksPerSecond <= RefreshTTL + 1`; with a shorter
refresh lifetime a login's refresh expiry may round to before the login itself.

`AccountSessionsProofs` first notes that the steps of the composition are steps
of `SessionService` or leave its variables alone (the lemma `SpecCarriesOver`,
which says nothing of the code), to use the invariants above. From the upsert's
bookkeeping follow `ClientIdsAreUnique` and `DeactivationsAreFinal`: a creation
that commits has met no other commit on its client id since its query, so there
was no account, and hence none that was deactivated. `DeactivationTakesEffect`
has an invariant of its own. `BoundInv` gives every client a latest time at
which a login can have found it active: now, until it is deactivated, and the
deactivation's time from then on (`LatestStart`), which only grows. A login that
is still to mint was decided by that time (`Decided`); a draft about to be
created and every stored session keep within the two lifetimes of it, the delay
of their login and their own (`Within`). A rotation copies the refresh expiry and
stays in the family, so it is the first login's delay that counts, and no service
session activates (`HandlerTimes`).

`ServerProofs` proves, for any leases, timers, timeout and requests, type
correctness, `TokenIsKept`, `StoppedInOrder`, `CutOffIsATimeout` and
`ExitIsBounded`. The invariant has four parts. `RenewalInv` relates what Vault
still grants to the goroutine's timer, place by place: it is what makes a
sleep of two thirds and two late calls fit into a lease. `ReleaseInv` says what
is open at each stage of main, `ServingInv` that a request is cut, or left
behind, only at a spent context, and `ElapsedInv` that the ticks since the
shutdown began, what is left of the context and what is left of the call add up
to no more than the bound. Assumptions: those of `VaultClient` and `Server` on
their constants.

Only model-checked: the liveness properties (`EveryRequestAnswered`,
`ReplayRevokes`, `EveryRequestDecided`, `ShutdownEnds`, `RenewalGoesOn`), since
fairness and ENABLED are out of the prover's reach. Every invariant, action
property and refinement of a passing run is stated by a theorem. The claims of
`SessionClaims` and the other runs that expect a violation are refuted by TLC.

## Plan

1. An abstract specification of the user accounts, as a registry whose
   operations are atomic, and the proof that the transactions implement it;
   the theorems of the sessions stated for the composition with the accounts.
2. The refresh cookie of a browser, as the handlers set and clear it, over the
   session model.
3. A run for the retry statement of the Vault client (`client.go:119`).

## Not modelled

* `DeleteExpired`: nothing calls it.
* JWT and Transit signing, secrets and configuration: built at boot, where
  `Server` has them as steps that may fail; no request uses them.
* The gRPC server separately: its login and token check call the methods
  modelled for HTTP; only its updates differ (`GrpcUpdates`). The protobuf code
  is generated.
* Request parsing, cookies and headers, password hashing, what input validation
  accepts.
* Memory the Vault client shares: `c.secret` is written by the renewal goroutine
  and read by nothing else after the boot.
