# A TLA+ model of hugr

hugr (this repository) packages the hugr query engine as a server: it reads the
configuration, sets up authentication, mounts an OAuth proxy for MCP clients,
serves HTTP, and brings the schema of its core database up to date with a
separate tool. The engine itself (queries, schema, cluster protocol) lives in
another repository and is external here.

The project models the parts in which state survives a step and several actors
meet: the **migrate tool**, the **OAuth proxy** (its authorization code flow, and
what it forwards to the OIDC provider), **authentication** (set-up of the chain of
providers on each node, and requests that pass through it), the **life of the
server process** and the **CORS middleware** in front of it. TLC checks them on
small instances; TLAPS proves every safety property that the runs check, for every
value of the constants.

## 1. Inventory

| component | state | operations | interacts with | hard because |
|---|---|---|---|---|
| migrate tool (`cmd/migrate/main.go`) | the core database: does it exist, which statements of which scripts are in force, the row of table `version`; per run: version, list of scripts, position | `checkDBExists`, `initDB`, `openDB`, read version, select and sort, loop (`Exec`, version row), final version, checkpoint | database (DuckDB file or Postgres), other runs of itself | killed between any two calls; several runs on one Postgres database; DuckDB commits statement by statement; the row lags behind |
| migration scripts (`migrations/`) | - | SQL statements | migrate tool | some cannot be repeated, 0.0.13 drops tables, most set the version row themselves, 0.0.15 does so first |
| OAuth proxy, code flow (`pkg/auth/oauth`) | none in memory but a key; what it hands out encrypted: state parameter, authorization code | `handleAuthorize`, `handleCallback`, `handleToken` (authorization_code) | browser, MCP client, OIDC provider, other nodes with the same key | flows interleave over nodes; callbacks and codes come late, twice, elsewhere; clocks differ; nodes restart with another key |
| OAuth proxy, the rest | none | refresh, revoke, register, metadata | MCP client, OIDC provider | calls without a time limit; refresh tokens that can be used once, and answers that get lost |
| authentication (`pkg/auth/auth.go`, `oidc_provider.go`) | list of providers, cached keys | `LoadFile`, `Configure`, `Authenticate`, claim mapping | engine, identity provider, `main` | providers come out of Go maps; settings that override each other; requests that wait for keys while keys change and tokens expire |
| server process (`cmd/server`) | listener, engine, service endpoint, signal context | start-up checks, listen, wait, shutdown | all of the above | a goroutine that may end the process; one time limit for two shutdowns |
| service endpoint (`pkg/service`) | second HTTP server | `Start`, `Stop` | server process | its start error is only logged |
| CORS (`pkg/cors`) | none | headers of one answer | server, browser | the effect is decided by the browser, in three steps |
| node info (`pkg/info`) | none | a constant table | engine | - |

What makes each component correct:

* migrate tool: the version row never promises what is missing, because the next run
  skips it, unless a script that is still due creates it again; "migrations applied
  successfully" is true, as far as a run without `-to-version` goes;
  scripts take effect in version order; complete runs never block later ones;
  repeated runs finish.
* OAuth code flow: tokens and redirects reach only the party whose state parameter came
  back with the code; one login gives one authorization code; the time limits hold on both
  sides, as exactly as the time stamps allow.
* server: a request meets an initialised engine that is not closed; a signal ends
  the process; requests under way get their time, and exit status 0 is earned.
* OAuth refresh and revoke: a confirmed revocation is true; a session is lost only
  with an answer that is lost.
* authentication: a token that was rejected never becomes anonymous access; who gets
  in has a genuine token and a role that it grants; all nodes agree on it; the OAuth
  proxy hands out tokens that its own node accepts; every request is decided.
* CORS: foreign pages neither read answers nor execute what needs a preflight; pages
  of listed origins get through all steps.

## 2. Modules

| module | models | extends |
|---|---|---|
| `Versions` | `compareVersions`: names as sequences of numbers | - |
| `Migrate` | the migrate tool, one action per database call | `Versions` |
| `CoreSchema` | abstract: a schema with scripts, missing tables and a version row; implemented by `Migrate` | - |
| `MCMigrateFolder`, `MCMigrate` | instances; the second assumes a well-formed folder | `Migrate` |
| `VersionsProofs`, `MigrateProofs` | proofs | `Versions`, `Migrate` |
| `OAuthProxy` | the authorization code flow on several nodes | - |
| `MCOAuthProxy` | instance: two clients, two nodes | `OAuthProxy` |
| `OAuthProxyProofs` | proofs | `OAuthProxy` |
| `OAuthForward` | refresh and revoke requests that are passed on to the provider | - |
| `OAuthForwardProofs` | proofs | `OAuthForward` |
| `AuthConfig` | environment and file become a chain of providers (`LoadFile`, `Configure`) | - |
| `Auth` | nodes that start, requests through the chain, the fetch of keys | `AuthConfig` |
| `Access` | abstract: one verdict per request, one that the configuration has; implemented by `Auth` | - |
| `MCAuth` | instance: five environments, five files, ten kinds of requests | `Auth` |
| `AuthProofs` | proofs | `Auth` |
| `Cors` | the middleware, its settings, and the browser | - |
| `MCCors` | instance: seven settings, pages of two origins | `Cors` |
| `CorsProofs` | proofs | `Cors` |
| `Server` | `main` of cmd/server, both HTTP servers, connections, signals | - |
| `MCServer` | instance: eight configurations, three connections | `Server` |
| `ServerProofs` | proofs | `Server` |

Operators whose comment starts with *Fault* are deliberate mistakes: each one,
put in place of the definition after it, violates the property it was written for.
They are not part of any specification.

### Migrate

State and code: `db`, `done`, `gone`, `recorded` are the database. `done[f]` are the numbers of
the statements of script `f` that are in force; `gone` are the tables that a script has
dropped and none has created since, and what was done to them is missing in the meantime
(`InForce`). For every run `m` of the tool, `pc[m]` is the place in `main`, `target[m]` the
flag `-to-version`, `version[m]` and `todo[m]` the variables `version` and `files`, `pos[m]`
how far DuckDB has got in the current script. `Exit` clears them: nothing survives a process.

| action | code |
|---|---|
| `Start` | flags, `dbType` |
| `CheckDBExists` | `checkDBExists` |
| `CreateDatabase`, `InitSchema` | the two halves of `initDB`; the tool then ends |
| `OpenDB` | `openDB` |
| `ReadVersion` | `SELECT version`, `WalkDir` with its filter, `SortFunc` |
| `ExecScript` / `ExecStatement` | `conn.Exec(parsedSQL)` on Postgres / one statement of it on DuckDB |
| `BumpVersion` | the `UPDATE` in the loop, which writes the version *before* this script's |
| `FinalVersion`, `Checkpoint` | the `UPDATE` after the loop, the log line, the DuckDB checkpoint |
| `Abort` | any `os.Exit(1)` after an I/O error, or a kill |

Taken from the drivers (external): pgx sends a script without arguments as one
simple query, so Postgres runs it as one transaction; DuckDB commits each statement
and locks its file against other processes. A version is abstracted to the numbers
`Split` and `Atoi` make of it, a script to a sequence of statements, each of one of six kinds
on one table (`Statements`). `Effect` and `GoneAfter` are what one statement does,
`Fails` is when it returns an error: its object is there already, or its table is not.
`ScriptShape` is how the scripts of `migrations/` are written: a DROP is followed by the
CREATE of the same table, as in 0.0.13, where twelve DROPs come before twelve CREATEs.
A created table has the columns that earlier scripts have added, as there. A table that
`CREATE TABLE IF NOT EXISTS` makes again after a DROP is a new one: what later scripts did to
the old one is lost (`Anew`). Indexes and rows are left out. The file name is not modelled:
all versions of this repository are folders.

Three conditions are needed for the tool to be right, and nothing checks them
(`WellFormed`): no version that can get into the version row is written in two ways
(a `-to-version` may be, 0.0.010 for 0.0.10: it only selects); a script that sets the version
row is the last one of its version and, on DuckDB, does it in its last statement;
the scripts that work on a table after one that creates it are of later versions, and
tables are dropped on Postgres only with a single migrator. The DROPs and CREATEs of
0.0.13 satisfy them on DuckDB. The passing runs assume them, the theorems have them as
hypotheses, and two runs show what happens without the second and the third.

Even so the tool is not right in one case, and the properties say so. A run that is killed
between the DROPs and the CREATEs of 0.0.13 on DuckDB leaves tables missing that the row
(0.0.11 or 0.0.12) promises. `RecordedIsApplied` and `SuccessMeansApplied` therefore have one
exception, spelled out in `Resetting`: a table that a newer script, still due, has dropped
and not yet created. Nothing else may be missing. See section 3 for what the tool does then.

`CoreSchema` is what a server that reads the database relies on: a set of complete
scripts that changes by one script at a time, in their order; tables that are missing as long
as a script that renews them is not installed; and a version row whose promise is kept
after every step, but for these tables. `ImplementsCoreSchema` maps `installed` to the scripts
with all statements done, `missing` to `gone` and `level` to the version row; half executed
scripts, migrators and their deaths disappear.

### OAuthProxy

The handlers keep nothing, so the state of the model is what is under way:
`accepted` (authorize requests answered, with the encrypted state parameter),
`logins` (callbacks the provider has sent browsers to), `calls` (`handleCallback`
waiting in `Exchange`), `redirects` (codes handed to clients), `released` (answers
of `/oauth/token`), with `key` and the clocks of the nodes. These sets only grow (but
`calls`): everything handed out can be delivered again, late, or to another node.
A ciphertext is a record with the key it was made with; `from`, `at`, `issued` and `life` are
history fields that no handler reads.

`handleCallback` is split where it waits for the provider (`CallbackStart`,
`ProviderExchange`, `CallbackFinish` or `CallbackFail`). It reads the code and the state
parameter of a callback one by one and checks no tie between them, so `CallbackStart` takes
any code of the provider with any state parameter that is about. What binds tokens to a party
is the state parameter: `TokensOnlyToRequester` and `RedirectMatchesState` speak of the request
whose state parameter came back, which is the one that started the login if the callback is as
the provider sent it. The lifetime of tokens begins at `ProviderExchange`; the answer may take
any time, since `Exchange` sets no limit, and `ExpiryOverstated` counts this time in. The checks of
`handleAuthorize` and `handleTokenAuthorizationCode` are the guards of `Authorize` and
`TokenAuthorizationCode`, in the order of the code; a refused request changes nothing.
Time is counted in ticks, several to a second, because the time stamp is cut to seconds
and the age is compared exactly.

Idealised: AES-GCM (decrypts with the right key only, nothing is forged), SHA-256
(no collisions), the random client id. External: the provider, which exchanges a
code at most once. A state parameter comes back to `/oauth/callback` and a code to
`/oauth/token`; the other way round is not modelled. The bound `Horizon` makes time depend on how
much is under way: a single flow gets all of its ticks, two get one instant.

### OAuthForward

`handleTokenRefresh` and `handleRevoke` keep nothing, but what passes through them cannot
be repeated: the provider (external) replaces a refresh token when it is used. The state
is one session: the tokens that the provider accepts, the one the client holds, and for
each call where it is. `Send`, `Unsupported`, `PostRefresh`, `PostRevoke`, `PostFails`,
`ReplyRefresh` and `ReplyRevoke` are the handlers; the provider acts in
between (`ProviderRefresh`, `ProviderRevoke`, `ProviderBusy`), and a broken connection may
hide what it did. `Vanish` is a client that has gone: the handlers do not look at the
context of the request, so it changes nothing before the reply. Requests without token or
with a malformed body get a 400 at once and are left out. Tokens are numbers in the
order of their issue; bodies are one of them, an OAuth error, nothing, or unreadable.

### AuthConfig and Auth

`AuthConfig` has the data flow: `Unmarshal` with the tags of each format, `Apply` (the
file overrides the receiver of `Configure`), `Chains` (API keys, JWT providers, secret
key, OIDC, anonymous; the first two in any order that Go's maps may give). `Auth` has the
actors. Each node runs `Configure` and `Mount` (the part of `main` that builds
`/auth/config` and the OAuth proxy from what `Configure` has left behind). A request
walks through the chain of its node (`Arrive`, `Try`), and waits where the signature
cannot be checked with the cached keys; one fetch serves all that wait (`FetchAnswered`,
`FetchFails`, `Cancel`). The identity provider changes its keys (`Rotate`), time passes.

`claimString` and `RoleOf` are the claim mapping: a string is a sequence of words, so that
a prefix is really cut off. External, modelled from the errors that `Authenticate` chooses
for it: the middleware of the engine (`Proceed`), go-oidc, API keys and JWT providers. What
a wrong API key does is left open, and so is whether reading a cookie fails (`OIDCOutcomes`).
The bearer token of a request is the one in the header Authorization or, without it, in the
argument access_token. `Configure` may fail on any file. The answer to a fetch carries the keys that are
published when it arrives. The header that overrides the role of an API key is not modelled.

Two properties have conditions that the code does not enforce. `NodesAgree` is claimed for
requests with at most one API key and for an `Unambiguous` file: Go ranges over the maps of
the file in any order, so of two API keys with the same header and value but different
roles, or two JWT providers with the same issuer and key but different prefixes, each node
takes whichever came first. (The secret key always comes after the keys of the file and
needs no such condition.) `MCAuth` assumes `Unambiguous` of its files. `StalenessBounded` is
claimed where OIDC_TIMEOUT is set: with 0 the HTTP client has no time limit, and nothing
bounds how long after its expiry a waiting token gets in.

`Access` is what a deployment promises to whoever sends it requests. It has no nodes, chains,
keys or clock, only environment and file (`policy`), the credential of each request and the
verdict on it. `Rights` says what the configuration has for a credential: the first kind of
provider that is responsible for it decides, among API keys of the file, JWT providers,
secret key and OIDC, and anonymous access is only for who shows no token. A refusal is
always allowed (keys may be missing, tokens expire), another grant never. The mapping:
`Sent` and `Verdict`, which read them off `req`; `ImplementsAccess` is the refinement. It
needs no `Unambiguous`: where two keys match, `Rights` has the roles of both. So neither property
says which of two matching API keys wins: the order of the map decides, on each node anew.

### Cors

`Middleware` gives the headers of one answer from the settings, `GetStringSlice` is viper's
reading of an environment variable: the fields between white space. `Words` is what the
documentation means by a list, `ListedGetsThrough` what it promises, and `SpacedGetsThrough` what
the code keeps. The browser (external, the Fetch standard) asks with
OPTIONS where it must, sends the request and reads the answer: `Preflight`, `Request`,
`Read`. Only here it shows what the headers are worth.

### Server

`pc` is the place in `main`; `api` and `service` are the two HTTP servers with their
goroutines, `conn` the connections to both, `engine` the query engine as far as its
calls in `main` go, `left` what is left of the shutdown context, `status` the exit
status. `Exit` ends the process and cuts off what is under way: `os.Exit` skips the
deferred `engine.Close`, only `Close` and `Return` go that way.

Each action of `main` covers the code between two points where another goroutine
matters: `LoadConfig` (until `NotifyContext`, a signal before it kills the process),
`Configure`, `InitEngine`, `Mount`, `Listen`, `StartService`, `Stop` (the signal),
`Drain` and `DrainService` (the two calls of `Shutdown`), `Close`, `Return`. `ListenAPI`,
`FailAPI` and `ListenService` are the goroutines; a listener that starts after
`Shutdown` was called does not open, but may still fail and end the process. `Forward`
is a refresh or revoke request, which waits for the provider without any limit.

External: `net/http` (Shutdown closes the listener, waits for busy connections, looks at
them before it looks at the context) and the engine, whose calls are assumed to return.
Connections that a handler has taken over (WebSockets) are not waited for by `net/http`
and are not modelled.

## 3. Runs

| run | instance | result |
|---|---|---|
| `migrate_duckdb` | 2 runs on a DuckDB file, 5 scripts in 4 versions, one that cannot be repeated, one reset; 2 kills; `-to-version` 0.0.9, 0.0.010 or none | `TypeOK`, `RecordedIsApplied`, `SuccessMeansApplied`, `CreatedOrInterrupted`, `ScriptsInOrder`, `ConflictOnlyAfterAbort`, `ImplementsCoreSchema`, `MigrationCompletes` hold |
| `migrate_postgres` | 2 runs at once on Postgres, no reset | the same hold, but for `ConflictOnlyAfterAbort`, which is not claimed: the slower of two runs may find the object that the faster one created |
| `migrate_early_version` | a script that sets the version first, DuckDB | `SuccessMeansApplied` is **violated** |
| `migrate_shared_reset` | a reset script, 2 runs on Postgres | `SuccessMeansApplied` is **violated** |
| `oauth` | 2 nodes whose clocks differ, 2 keys; 2 flows with 2 logins at once, or 1 flow over 14 ticks of a third of a second | `TypeOK`, `TokensOnlyToRequester`, `RedirectMatchesState`, `YoungIsAccepted`, `StaleIsRefused`, `ExpiryOverstated` hold |
| `oauth_forward` | 3 calls that may overlap, 3 new tokens | `TypeOK`, `RevokedIsRevoked`, `SessionKept` hold |
| `auth_requests` | 1 environment and file, 2 nodes, 2 requests of 10 kinds, 1 change of keys | `TypeOK`, `NeverDowngraded`, `AdmittedGenuine`, `NodesAgree`, `StalenessBounded`, `ImplementsAccess` hold |
| `auth_live` | 5 environments, 5 files, 1 node, 2 requests | `ProxyMatchesChain`, `RequestsDecided` hold |
| `auth_no_timeout` | the same without OIDC_TIMEOUT | `RequestsDecided` is **violated** |
| `server` | 8 configurations, 2 requests, 1 scrape, a limit of 2 ticks | `TypeOK`, `ServedByReadyEngine`, `CleanExit`, `CutOnlyAtLimit`, `SignalEnds` hold |
| `cors` | 7 settings, 6 pages | `ForeignKeptOut`, `SpacedGetsThrough` hold |
| `cors_commas` | the same | `ListedGetsThrough` is **violated** |

Bounds. The folder has one script of each kind, a version with two scripts, and
0.0.10, whose path sorts before that of 0.0.9. The scripts stand for those of
`migrations/` (0.0.3, 0.0.4, 0.0.6 and 0.0.8 cannot be repeated). Start states: no
database, a database before the first script, one in the middle. Two migrators are
enough for every pairwise race, two kills for a kill during the recovery from a kill.
The reset drops two tables and creates them in another order, so that a kill can leave none,
one or both of them missing, under a row of 0.0.9 or 0.0.10, and a `-to-version` can stop short
of it. `oauth` has two flows with two logins, so that the codes and state parameters of two
flows can be mixed up, and one flow with enough ticks to pass both limits at every phase of the
second; both together would be out of reach, and the properties relate either two flows or one
flow and time. Provider codes are symmetric; no liveness is checked. `oauth_forward` has a call that
refreshes, one that uses the token a second time, and one that revokes. The tokens of
`auth_requests` are good, expired, forged, of another issuer, without role, with the role
in the scopes behind items that do not count, in the header or the cookie, alone or with
an API key; time goes on past expiry and time limit together. Nodes and requests are
symmetric there, and no liveness is checked. Two nodes with chains of different order are
enough for `NodesAgree`, which compares two requests. In `server` one request can hang
while another ends, and the limit can pass between the two shutdowns. Deadlock is not
checked in `server`, `oauth_forward` and `cors`, where everything may have ended.

Fairness (`FairSpec` of `Server`): main runs on and time passes. No request need end and
no listener need open; this is what the time limit is for.

Fairness (`FairSpec` of `Auth`): goroutines run, time passes, and the HTTP client gives up
when its time limit has passed. The identity provider need not answer, clients need not
give up, nodes need not start.

Fairness (`FairSpec` of `Migrate`). A process that has started goes on (weak fairness of `Step`);
whoever runs the tool starts it again until it succeeds, which is what a container's
restart policy does for the automigrate image. Kills are not fair and bounded.
`MigrationCompletes` is stated for behaviours in which, from some time on, a migrator that
has succeeded is left alone (on Postgres every further run rewrites the version row for a
while, and a stream of new runs could keep it behind for ever), nobody uses `-to-version`, and no
script fails on what an interrupted run has created already or dropped. Without the last
condition it is false: after a kill the next run can fail for good, the price of a row that lags
one version behind. It speaks of a database that has its schema: one that a run left without
(`CreatedOrInterrupted`: only a death does that) fails every later run at `SELECT version`.

### What the violations show

* `migrate_early_version`: 0.0.15 sets the row in its first statement. On DuckDB a kill
  right after it loses the rest of the script: the next run skips it and reports success.
* `migrate_shared_reset`: two replicas migrate one Postgres database; the slower one
  executes the DROP and CREATE of 0.0.13 after the faster one has finished, and what
  0.0.14 and later did to these tables is gone when the faster one reports success.
  The slower one goes on to repeat these scripts, unless it dies.
* `auth_no_timeout`: the documented default of five seconds for the OIDC client does not
  exist; without OIDC_TIMEOUT a fetch of keys that gets no answer holds every request
  that needs it until its client gives up.
* `cors_commas`: the documentation calls the three CORS settings comma separated lists. viper
  splits them at white space, so the documented example is one origin that no page has, and
  the pages of both of its origins are blocked.

Differences that the models contain as the code has them, and that no run is about:

* A run killed between the DROPs and the CREATEs of 0.0.13 on DuckDB leaves tables missing
  under a row of 0.0.12, or of 0.0.11, if the same run had executed 0.0.12. A run without
  `-to-version` then repeats 0.0.13 and repairs this if the row is 0.0.12; if it is 0.0.11, it
  repeats 0.0.12 first, whose ALTER TABLE fails on the missing table, each time. A run with
  `-to-version 0.0.12` on a row of 0.0.12 logs "migrations applied successfully" while the tables
  are missing. All three are reached in `migrate_duckdb` (0.0.10 and 0.0.9 there; `gone`, `Fails`); they are the
  exception in `RecordedIsApplied` and `SuccessMeansApplied`, and the last premise of
  `MigrationCompletes`.
* Most scripts set the version row themselves, under the comment "Update version"; the
  loop then overwrites it with the version *before* the script (`cmd/migrate/main.go:156`)
  until the next version or the end of the loop.
* `auth.md:12`, `:50` and `:53` use `api_keys`, `managed_api_keys` and `secret_key` in YAML; the
  tags of the YAML format are `api-keys`, `managed-api-keys` and `secret-key`, and other keys are
  passed over without an error (`Tags`; `DocFile` of `MCAuth` is such a file).
* With managed API keys and no provider at all, `Configure` returns no configuration and the
  flag is lost (`pkg/auth/auth.go:97`; `Configure`, `ClosedDoor`).
* A file with an OIDC issuer replaces all OIDC settings of the environment, OIDC_CLIENT_SECRET
  too, and a JSON file has no key for it: the OAuth proxy is then not mounted (`Apply`,
  `Unmarshal`). `anonymous.allowed: false` in a file has no effect.
* With `*` as the only origin a browser still refuses requests with credentials and the
  header Authorization (`pkg/cors/middlewares.go:36`; `PreflightPasses`).

## 4. Proofs

All proofs are checked by TLAPS without omitted steps, for arbitrary sets of
migrators, scripts, nodes, keys, queries, environments, files, credentials and pages.
Assumptions on the constants, evaluated by TLC in every run:

* `PartsAssumption`, `MigrateAssumption`, `OAuthAssumption`, `ForwardAssumption`,
  `ServerAssumption`, `AuthAssumption`: types of the constants, the clock bound, S256
  without collisions, markers such as `None` that differ from real values;
* `ConfigAssumption`, `CredentialsAssumption`: the Go types behind a file that was read and
  a request (maps and headers are finite, the values of the map `api_keys` are API keys, a
  time limit is not negative, names and claims are finite lists);
* `CorsAssumption`: settings are words with separators between them, and an origin is one word.

Hypotheses of single theorems: `WellFormed` (four theorems about `Migrate`), `Exclusive`
(`ConflictOnlyAfterAbortThm`), `Unambiguous` (`Agreement`).

* `VersionsProofs`: `VersionOrder` - `compareVersions` is a total preorder, and 0
  exactly for equal sequences of numbers continued with zeros. The loop over the
  common width is replaced by the first difference at any place
  (`FirstDifferenceUnbounded`), which exists by well-foundedness of the naturals.
* `MigrateProofs`: `Typing`, `RecordedIsAppliedThm`, `SuccessMeansAppliedThm`,
  `ScriptsInOrderThm`, `CreatedOrInterruptedThm`, `ImplementsCoreSchemaThm`. `RecordedIsApplied` alone is not inductive: the row is written
  from the variable `version` of a run that read the database long ago. The inductive
  invariant `MInv` adds, for every run: its list is exactly what is left of its
  selection and everything before it is in force (`ListIsRest`); how far the current
  script is (`CurrentScript`); its variable never promises more than is in force
  (`RowIsBehind`); what it has logged is true (`LoggedIsTrue`); and on DuckDB only one
  run has the file open (`OneAtATime`). Statements stay done, but for those of later scripts on
  a table that is dropped or made anew. `MInv` speaks of what was done; what is there besides
  needs `GoneIsReset`: every table that is gone was dropped by a script that has not created it
  again, and that is then not complete (`InForceOrReset`), so the row cannot promise it. `FullInv`
  is both. `Named` says that only stored versions reach the row and the variable, never a
  `-to-version`. The refinement follows from
  the same invariant: a step that completes a script finds all earlier ones complete
  (`ExecEvolves`), and a step that writes the row writes a promise that is kept (`RowStep`).
  `ConflictOnlyAfterAbortThm` needs no `WellFormed`, only that one migrator at a time is at
  work (`Exclusive`: DuckDB's lock, or a single migrator). Its invariant `CInv` says the
  opposite of the others: what is *not* in force. As long as nobody was cut short, nothing
  newer than the row is in force while nobody works, and of the list of the one at work
  only the statements that it has run itself (`Untouched`, `Ahead`); and the only tables that
  are gone are those that the script at work has just dropped (`GoneBy`). A statement could only
  fail on one of these, and by the shape of a script it does not (`NoFailure`).
* `OAuthProxyProofs`: `FlowInv` says that every state parameter carries the values of
  its query, every call and code those of the state parameter that came with it, every release
  those of its code, and that the tokens of a login are in one place only: still at the provider,
  with one waiting call, or in one redirect, however codes and state parameters are paired. It
  gives `TokensOnlyToRequesterThm` and `RedirectMatchesStateThm`. `TimeInv` says that a time stamp is at most a second behind
  and at most `MaxSkew` ahead of the time it was made; it gives `YoungIsAcceptedThm` and
  `StaleIsRefusedThm`. `GrantInv` says that `expires_in` is within the lifetime that the
  provider granted, and that tokens are made before they are in a code; with the age of the code
  it gives `ExpiryOverstatedThm`. `OAuthTyping`
  takes half of the types from `FlowInv`.
* `OAuthForwardProofs`: `ForwardTyping`, `RevokedIsRevokedThm`, `SessionKeptThm`. The inductive
  invariant says that the provider accepts at most its newest token, and that no call has
  a token newer than the client's. So a call that is granted a new token was sent with
  the newest, and no other new token is on its way (`OneOnItsWay`); and the newest token is
  with the client, on its way, or lost with an answer (`NewestSomewhere`).
* `ServerProofs`: `ServerTyping`, `ServedByReadyEngineThm`, `CleanExitThm`,
  `CutOnlyAtLimitThm`. The inductive invariant adds `Phases`: where main is determines
  the state of the engine, which listeners are closed for good and which connections are
  quiet. Its heart is that a server that was shut down never serves again, so that what
  is quiet after `Shutdown` stays quiet.

* `AuthProofs`: `TypeCorrect`, `Undowngraded`, `GenuineIsAdmitted`, `Agreement`, `ProxyAndChain`,
  `StalenessIsBounded`, `AccessImplemented`. The first part shows how every chain is laid out (`ChainLayout`:
  API keys, JWT providers, secret key, OIDC, anonymous, with all values of each map between
  fixed boundaries, whatever the orders), and what each outcome of a provider tells about the
  credential (`AuthenticateFinds`, `OutcomesTell`). The inductive invariant `IInv` has four parts:
  a node that has started has the settings and a chain of environment and file (`NodeInv`);
  cached keys are ones of the identity provider, and a fetch has time left (`KeysInv`);
  every provider that a request has passed did not match it, and a token that it looked at
  has marked the request as rejected, while the provider that admitted it was entitled to
  (`ReqInv`); and for a request that waits, clock plus remaining time of the fetch stay within
  expiry plus time limit (`WaitInv`), which a tick preserves because it takes from the one
  what it adds to the other. `NeverDowngraded` follows because the anonymous provider is the
  last one: the request has passed all others, and none may have seen a token.
  `AdmittedGenuine` needs that the first hit of `claimString` exists (a set of naturals has a
  least element), and that prefix and rest make up the item again (`PrefixAndRest`).
  `NodesAgree` compares two chains of one configuration: before each boundary they have the
  same providers, so a provider that admits here was passed there (`NotSeparated`), unless
  both are between the same boundaries; there `Unambiguous` decides. `AccessImplemented` shows
  that every step of `Auth` is one of `Access` or none (`StepMoves`). What a request has been
  granted is in `Rights`, because it has passed all providers before the one that admitted it:
  behind the boundary of a kind of provider, no provider of that kind was responsible for the
  credential (`AllPassed`), so `Rights` comes to the same kind (`AdmitsRight`).
* `CorsProofs`: `ForeignIsKeptOut`, `SpacedIsServed`. The invariant says, for a page of a foreign
  origin, that it was never allowed anything (`ForeignInv`). The heart is that what viper makes
  of a setting are runs of the words that stand in it, so an origin of one word is on the
  list only if it is a word of the setting; and where white space alone separates the words,
  the fields are exactly the words (`FieldsAreWords`).

The invariants `IInv` of `AuthProofs` and `CInv`, `FullInv` of `MigrateProofs` were also checked by TLC
on the instances of the runs before they were proved.

Only model-checked: liveness (`MigrationCompletes`, `SignalEnds`, `RequestsDecided`), which is out of
the prover's reach.

## 5. Not modelled

The query engine and cluster coordination (another repository). Register and metadata of
the OAuth proxy (answers from constants and a random name, no state), the node information
source (a read-only table over constants of the process), settings that `main` only passes
on to the engine, installing DuckDB extensions, packaging and tests: I/O without decisions
of their own. Of the migrate tool: the listing of tables with `-verbose`, the vector size
in templates, `s3://` paths, which end the run at once. Of the authentication: `PrintSummary`
and the log, login and logout addresses that `/auth/config` only shows.

## 6. Plan

1. Done: `Versions`, `Migrate` with `CoreSchema`, `OAuthProxy`, `OAuthForward`, `AuthConfig`, `Auth`,
   `Server`, `Cors` with their runs; proofs of all their safety properties.
2. Done: `Access`, the abstract specification of what `Auth` grants, and the proof that nodes,
   chains and fetches implement it.
3. Next: the same for the code flow of the OAuth proxy: one exchange per login between client
   and provider, as if the proxy held a table in memory, implemented by what it encrypts and
   hands out.
