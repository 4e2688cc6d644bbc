# Verification of bst_api

bst_api is the HTTP service behind a score tracker for two dance games. It logs in to the
e-amusement site with the passwords of its users, keeps the cookies of those sessions in PostgreSQL,
and with them loads pages of the site into its own tables: on request, and once an hour for everybody.
This directory specifies in TLA+ what can go wrong between those parts: between goroutines that
write the same rows, between statements that no transaction joins, and between a page and the table
it is meant for. TLC checks small instances of each specification and TLAPS proves, for every size,
the invariants that matter most.

## The system

| Part | Code | State | Operations |
|---|---|---|---|
| Accounts and sessions | `common/user.go`, `eagate/user/profile_state.go`, `db/user_db/sql.go` | table `eaGateUser`: account, API user, cookie, expiration | `LoginPost`, `LogoutPost`, `LoginGet`, `ForceUpdatePost`, `CreateClientForUser`, `RunUpdatesOnAllEaUsers` |
| Client | `eagate/util/ea_client.go`, `ea_jar.go` | one cookie jar and user model per client, one limiter for the process | `GenerateClient`, `LoginState`, the deferred `UpdateCookie` |
| Page loading | `eagate/ddr/ddr_songs.go`, `ddr_users.go` | local to a call: a list, an error count, a WaitGroup | four `...ForClient` functions with a goroutine for each page |
| DDR tables | `ddr/ddr_implementation.go`, `ddr/router_ddr.go`, `db/ddr_db/sql.go` | songs, difficulties, player, playcounts, scores, statistics, workouts | `UpdatePlayerProfile`, `refreshDdrUser`, `SongsPatch`, `SongsReloadPatch`, read-only handlers |
| DRS tables | `drs/`, `db/drs_db/sql.go`, `eagate/drs` | player, playcount snapshots, songs, difficulties, statistics, scores | `ProfilePatch` (`refreshDrsUser`), read-only handlers |
| Hourly job | `jobs/job_manager.go` | none of its own | session updates, then one profile update and the mini games for each API user |
| API profiles and status | `common/gate.go`, `db/api_db/sql.go` | table `bstProfile`, a two-minute status cache | `Status`, `Cache`, `PutBstUser` |
| Management token | `utilities/auth0_mgmt.go` | a cached token and its expiry, two package variables | `UserHasScopes` |
| Glue | `server.go`, `utilities/`, `db/db_instance.go`, `db/db_builder` | flags, one database handle | routing, JWT validation, `ProfileFromToken`, `RunDbMigration` |

How they interact. A request or the job fetches rows of `eaGateUser`, makes a client from one (jar and
user model), loads pages through it, sequentially or by a fan-out, stores them in the game's tables,
and as a deferred call writes the client's cookie back to `eaGateUser`. Handlers run in goroutines of
net/http, which recovers their panics. The job's goroutine and those of a fan-out are not recovered: a
panic there ends the process, and systemd starts it again (`bst_api.service`). Nothing is locked across
goroutines except the jar's write and the append to a list of results, and no statement is part of a
transaction. Three package variables hold the status and two the management token, which a
handler needs when it asks for a user's scopes; every request reads and writes them.

What is hard about it, in short (PROJECT.json lists each hazard with its line): whole rows
written back that were read several site requests before; a login that leaves half of its work to a
deferred call; two spellings of one key; unlocked counters, maps and globals in the fan-outs; a marker
("this playcount has been loaded") stored in one order by an update and in the other by a refresh; pages of
the wrong kind that parse as empty, and pages of which only a part comes or is parsed; statements whose errors are dropped; documents read one after the other
while the player plays; caches announced fresh before they are; a process that dies in the middle of
all this.

What makes each part correct:

* **Accounts**: no session or link ever gets to an account or API user that it does not belong to, a dead
  session leaves the table, a login has the effect its comment states.
* **Client and page loading**: the result of a call says truly whether it has every page, the requests
  of the clients stay within the limiter, every call comes back.
* **DDR tables**: the playcount marker stands for scores that were not stored only where the code is known to
  put it there, an update that reports no error has stored what it read, nothing good is overwritten by something
  worse.
* **DRS tables**: what a refresh stores belongs together, although its three documents are of different
  moments, and its foreign keys refuse nothing that it read.
* **Profiles and status**: a profile is written only for whom the caller may act, and keeps what was not
  sent; an answer about the database is no older than the cache allows.
* **Management token**: a yes about a user's scopes is true, and no expired token is presented.

## Modules

| Module | Models |
|---|---|
| `EaSession` | the table `eaGateUser` and all goroutines that use it |
| `Accounts` | what all those goroutines together may do to the table; `EaSession` implements it |
| `EaSession_proofs` | its inductive invariant, and the refinement |
| `LoneLogin`, `LoneLogin_proofs` | `EaSession` with a history variable, and what a login that runs alone promises |
| `Fetch` | what callers assume of a `...ForClient` function: one atomic answer |
| `FanOut` | the fan-out, the limiter, the jar's map and the error count; implements `Fetch` |
| `FanOut_proofs` | its inductive invariant and the refinement |
| `DdrSync` | the songs and charts and one player's tables against the site |
| `ScoreKeeping` | what the chains of `DdrSync` amount to for scores and playcount; `DdrSync` implements it |
| `DdrSync_proofs` | its inductive invariants and the refinement |
| `Auth0` | the permissions that the identity service knows (external) |
| `Scopes` | what callers assume of `UserHasScopes`: one atomic question |
| `MgmtToken` | the token and its expiration, and the calls that share them; implements `Scopes` |
| `MgmtToken_proofs` | its inductive invariant and the refinement |
| `ApiStatus`, `ApiStatus_proofs` | the status cache, its inductive invariant |
| `Profiles`, `Profiles_proofs` | the table `bstProfile`, whom a request acts as, and the handlers that need a scope; built on `Scopes` |
| `DrsSync`, `DrsSync_proofs` | one player's DRS tables against the site, and their inductive invariant |
| `MCEaSession`, `MCLogins`, `MCFanOut`, `MCDdrSync`, `MCServices` | finite instances |

`DdrSync` takes a fan-out over pages that do not change while it runs as one step, which is what `Fetch`
says and `FanOut` implements; the one over statistics, whose pages do change, is a step for each page.
`Profiles` asks the questions of `Scopes`, which
`MgmtToken` implements with three requests and two unlocked variables.
`EaSession` and `DdrSync` share no variable: DDR and DRS operations are, for the accounts, a client that makes
requests (`Use`), and the account of a player is fixed for `DdrSync`.

Definitions whose comment begins with "Bug:" are not part of a specification. Each is a plausible error
in the code behind the definition that follows; putting it in that definition's place violates one
property, which shows that the property depends on that code.

### EaSession

State: `stored` and `row` are the table; `issued`, `owner`, `live` are the site's sessions; `loc` holds the local
variables of each goroutine (`pc`, the client's `name`, `model` and `jar`, the row `copy` it will write back, the
rest of a loop); `proven` is history: who gave the site which account's password. `NickName` and
`EaSubscription` are payload and left out; of `Expiration` only whether it is set is kept, and
whether it has passed is left open (`Fetch`).

One action is one statement or one site request. `LoginPost` is `StartLogin`, `LoginAccepted` or
`LoginRefused`, `LoginSave`, then the deferred `DeferRead`, `DeferSave` (or `CookieUnchanged`, `DeferPanic`);
`LogoutPost` is `StartLogout`, `LogoutRead`, `LogoutSave`; the requests that act for a user are `StartRequest`, then for each
account `NextItem`, `Fetch`, `ClientRead`, `ClientCheck`, any number of `Use`, and the deferred store; the updates
are `StartUpdates`, then `NextItem`, `ClientRead`, `ClientCheck`, `UpdCheck`, `UpdSub`, `UpdSave` or `Clear`; a tick of the job
goes on with `SelectProfiles` and `NextProfile`, once for each account with a cookie of each API user, because the query
joins the two tables. `Save` is gorm's upsert of a whole row. Faults are
constants: a lost answer (`net`), a failing statement (`db`), new cookies (`rotate`, `anon`), a race that the
runtime catches (`race`), an answer that is neither a refusal nor a page (`busy`: maintenance, a server error), which
`LoginState` takes for that of a good session (`Misread`). A panic ends a request and, in the job, the process (`Panic`, `Restart`).

`Accounts` has no goroutines and no faults: the site issues cookies (`Login`, `Visit`, `Exchange`), and one `Store` changes one row,
to a web user who earned the account and a session of that account or of a visitor. `link` and `session` are the
two columns of `row`. It is what the rest of the program may rely on, whatever stale row is written back.

`LoneLogin` adds `crowded`, which tells for each request whether another goroutine was under way while it ran.
It only watches: its steps are those of `EaSession`.

### FanOut and Fetch

State of `FanOut`: the global limiter pointer `s` with the limiters that exist, their queues and holders; for each
caller its limiter, the page inside `SetCookies`, the page that holds `mtx`, `errCount`, the `list`; the step
and local variables of each page's goroutine; whether the process has died. One action is one access to a
shared variable, so `errCount++` is two (`ReadCount`, `WriteCount`), `append` is two under the lock (`Lock`,
`AppendResult`), and the check and the creation of the limiter are two (`CheckLimiter`, `CreateLimiter`). A page is one of
`data`, `empty`, `bad`; a body that was cut short is one of them too, by what is left of it. The page of a song may
show a picture, which `songDataFromDocument` loads with `http.Get`: another client, without a jar and without
the limiter (`ImageReply`, `NoImage`, which panics as the other requests do), and a cell without a line break
makes it panic (`ParsePanics`). The four functions differ in how they learn the pages (`SongIdsForClient`
asks the site first: `FirstPageFails`, `FirstPagePanics`) and in whether a page may be empty; the module has all
of these behaviours for every caller.

`Fetch` has no goroutines: `Ask`, `Learn` each page, `Return` everything or an error.

### DdrSync

State: `plays` is what the player has played, the truth the site shows; `known`, `marker`, `songs`, `diffs`,
`scores` and `stats` are the tables. Play number i is the i-th of `plays`, so the playcount of the site is the
length of `plays`, and a statistics row is the number of the last play it tells of. Two variables are history, and
name the two ways in which the playcount row gets ahead of the scores: `owed` is the largest playcount that a
refresh stored ahead of its scores, until they are all there; `missed` are the plays under an update's playcount
that its page left out, until something stores them.

The four operations are chains of steps, which `UpdateOrder`, `RefreshOrder`, `PatchOrder` and `ReloadOrder` list in
the code's order; each step is an action named after the function it calls (`AddSongStatistics` is two: it reads the
table, `DropKnownStatistics`, and then writes). Faults: a page that cannot be read (`site`); a page of another kind or of which
only a part comes or is parsed (`page`); a player with workouts (`workout`); failing statements (`db`); a crash. `Shown` is what a parser
finds of what a page should hold: all of it or, with `page`, any part. The code gives three reasons for a
part: `GetPageContentAsGoQuery` overwrites the error of `ReadAll`, so that a body cut short is parsed; `recentScoresFromDocument`
passes over a row without a link; and another page has none of the rows. An update asks only whether there is any recent score, so
with a part of them it goes on (`RecentScores`, `unseen`).

The foreign keys that `createDdrConstraints` declares refuse charts without a song (`AddDifficulties`) and scores
without a player or chart (`AddScores`). The model lets the statements of statistics and playcounts through:
`ForeignKeysHold` shows that the order of the steps never gives the keys a reason to refuse one. It is about the keys
among the tables of this module; those of `ddrPlayerDetails` to `eaGateUser` and of the workouts are not in it.

`ScoreKeeping` keeps only the number of plays, the playcount row, the stored plays and what is owed or missed: the
player plays (`Play`), plays become stored and promises end (`Store`), and the playcount row rises, over plays that are
stored (`Mark`), by a promise (`Promise`), or, where pages may come in part, over plays that are missed from then on (`MarkPart`).
`MarkerTells` is what the row tells a reader.

### MgmtToken and Scopes

State of `MgmtToken`: `token` and `expiration` are the package's variables, `calls` the local variables of
each call, `granted` what the identity service knows; `issued` and `lapsed` number the tokens that exist and
may have expired. `UserHasScopes` is `StartCall`, `ValidateToken`, if needed `RefreshToken`, `StoreToken`, `StoreExpiration`,
then `SendToken` and `Lookup`. Writing a string is not atomic in Go: a token that was written by two goroutines
at once, or read meanwhile, is no token (`Refused`), and the identity service refuses it; so is the empty one that
`refreshToken` stores when a good answer has no `access_token`. A time that is not zero is compared
by one of its words; reading it during the very first store may give any value (`HalfExpiration`).
`refreshToken` throws the result of `expiration.Add` away, so a token counts as expired as soon as
the clock has moved: nearly every call takes a new one. It is this error, and not the order of the two
stores, that keeps old tokens from being used.

`Scopes` has only the question (`Ask`), the answers (`Yes`, `No`) and permissions that change; a yes needs `held`,
that the user had all the scopes at some moment since the question was asked. A no promises nothing.

### ApiStatus

State: `nextUpdate`, `cachedDb`, `cachedGate`, the world they tell of (`now`, `site`, `dbUp`), `reader` for each goroutine, and
history (`dbAt`, `gateSeen`, the times in `reader`). `Status` is `CheckStatus`, then, if it is time, `SetNextUpdate`, `Ping`, `StoreDb`,
`LoadGate`, `StoreGate`, and `AnswerStatus`. The comment on `Status` says that the values "are still regenerated every
page load"; the code does so every two minutes. A site without an answer makes `LoadGate` panic, and
net/http ends that request.

### Profiles

State: `rows` is the table, `request` each goroutine's variables, with `could` (who had which permission since the
request began) and `overtaken` (another request wrote the profile it read) as history. `PutBstUser` is `StartPut`, `Who`,
`Impersonate` if the header asks for another user, `ReadProfile`, `SaveProfile`, `AnswerRequest`; `Cache` is `StartCache`, `ReadProfile`,
`InsertProfile` for a new user, `AnswerRequest`. `ForceUpdatePost` and `RunDbMigration` begin alike and are one
operation here (`StartForce`, `Who`, `CheckScope`, `ScopeChecked`, `ForceUpdate`): what they do when allowed is in `EaSession`, or creates tables
that exist. `PutBstUser` takes the subject as it is, while the scope is looked up for it in lower case (`LowerSub`).

### DrsSync

State: the site (`catalogue`, `played`, `chartOf`), the tables (`player`, `snapshots`, `songTable`, `diffTable`, `statTable`, `scoreTable`) and `work`
of each goroutine. Play number i is the i-th; a snapshot and a statistics row are the number of the last play they
tell of, a score row is the play it was stored for. `refreshDrsUser` is `CheckLogin`, `LoadDancerInfo`, `LoadMusicData`, `LoadPlayHist` and then
the functions of `drs_db` in the code's order. The loaders look at no status: JSON of another kind decodes to zeros without an error (`IsOtherJson`),
which gives a playcount of 0, rows that belong to nobody, or an empty history, by the document it comes for; `AddPlayerSongStats` is two, because it first reads the table
(`DropKnownStats`). `Transform` panics on an empty history. `Stored` gives the rows that the statements of one
function may leave: all of them, unless a foreign key refuses one or a statement fails, and then any part,
because the rows go into several statements. (`batchCount` is never reset, so the second statement holds all
that the first did not; which row is in which is left open.) `drsDifficulties(mode)` and `(difficulty)`
are not unique, so PostgreSQL refuses the foreign keys to them, and only those to songs and to the player count.

## Runs

| Run | Instance | Checks |
|---|---|---|
| `session_accounts` | 2 accounts, 2 API users, 2 cookies, 1 request of any kind, the job; `net`, `db`, `rotate`, `anon`, `busy` | `TypeOK`, `RowSessionIsOwn`, `LinkIsEarned`, `SessionIsRequesters`, `SessionInv`, `AccountsSpec` |
| `session_logins` | 1 account in 2 spellings, 2 API users, 2 cookies, 1 request, the job; `rotate`; fair | `SessionsAreLowerCase`, `RowsComeFromLogins`, `DeadSessionsAreCleared`, `LoneInv`, `LoneLoginReplacesWebUser`, `LoneLoginUpdatesCookie` |
| `session_mixed_case` | 1 account in 2 spellings, 1 request, no fault | violates `LoginUpdatesCookie` |
| `session_stale_update` | 1 account, 2 API users, logins and the job, no fault | violates `LoginReplacesWebUser` |
| `fanout` | 2 callers, one with up to 2 pages and one with 1, limit 1; `net`, `cookie`, `page`; fair | `FanOutInv`, `ResultIsComplete`, `LimiterBound`, `FetchSpec`, `Answered` |
| `ddr_profile` | 1 request of any other kind and 1 updater, 1 song with a chart, a recent page of 2 plays, 3 plays, all faults | `SyncInv`, `ScoresFollowMarker`, `UpdateStoresPage`, `NamesAreKept`, `ForeignKeysHold`, `KeyInv`, `KeepingSpec` |
| `ddr_early_marker` | 1 goroutine, 1 song, 1 play; `site` | violates `UpdateAddsScores` |
| `ddr_partial_page` | 1 goroutine, 1 song, a recent page of 2 plays, 3 plays; `page` | violates `UpdateStoresScores` |
| `ddr_stale_statistics` | 2 goroutines, 1 song, 3 plays, no fault | violates `UpdateAddsStatistics` |
| `services` | the parts below | `TokenInv`, `TokenIsFresh`, `AnswersAreTrue`; `StatusInv`, `StatusIsRecent`; `ProfilesInv`, `ActsAsEntitled`, `LonePutIsExact`, `CacheChangesNothing`; `DrsInv`, `SnapshotNotOlder`, `RefreshStoresCharts`, `LoneRefreshStoresStats` |
| `status_unreachable` | 1 goroutine, a period of 2 seconds | violates `UnreachableIsBad` |
| `drs_later_play` | 1 goroutine, 1 chart, a history of 1 play, 2 plays, no fault | violates `RefreshStoresPlays` |

`services` explores four modules that share no variable but `granted`, so their product would say no more than each of
them; `MCServices` chooses a part at the start and takes only its steps:

| Part | Instance |
|---|---|
| `token` | 2 calls that ask for two scopes of one user, 2 tokens, a clock of 2 |
| `status` | 2 readers, a period of 1, a check of at most 1, 4 seconds; the database may go down, the site be lost and come back under maintenance |
| `profiles` | 2 goroutines that put or cache one profile of 2 columns with 2 values, statements that fail |
| `impersonation` | 1 goroutine that puts or forces an update, for itself or another, while permissions change |
| `drs` | 1 refresh after another, 2 songs of a chart each, one released later, 2 plays, a history of 2, all faults |
| `drs_pair` | 2 refreshes that overlap, 1 song, 2 plays, no document and no statement fails |

What they show beyond the table:

* Although operations undo each other's writes, what they put back is always something that was once
  earned: no interleaving gives a session to another account, or an account to an API user who never
  logged in to it. Within those limits a logout or login can be undone (`session_stale_update`).
* A login does what its comment says when nothing overlaps it and the name is in lower case
  (`LoneLoginReplacesWebUser`, `LoneLoginUpdatesCookie`, with the history variable of `LoneLogin`), and each fails as soon as
  that is given up: one run for each.
* A lost `errCount++` does no harm, because the callers only ask whether the count is zero and a lost
  increment never takes it back to zero. An append without the lock would. The limiter created twice
  doubles the bound and no more; but the requests for the pictures of songs are outside of it, and nothing bounds them.
* The marker may run ahead of the scores, but only where a refresh put it there or an update whose page of recent
  scores came in part; then the next update believes there is nothing to do (`ddr_early_marker`). The second
  needs no second goroutine and no failure that the code notices: the part is stored, the playcount after it, and the update ends well
  (`ddr_partial_page`). What is promised of an update is therefore in terms of what its page showed (`UpdateStoresPage`), and
  with whole pages it is everything. Statistics have no such guarantee
  even without failures (`ddr_stale_statistics`).
* `AddSongStatistics` drops the errors of its statements, but none of them comes of a foreign key: its player and charts
  have their rows by then, whatever failed before. Storing a refresh's playcount before the player would break that.
* The two unlocked caches are safe for what they promise, for reasons that are not in sight: the token because
  its lifetime is lost, the status of the database because whoever set `nextUpdate` last is still checking or has
  stored since. The status of the site is not (`status_unreachable`).
* A put may lose what another put saved between its two statements, and nothing else: alone, it changes what was
  sent. `Cache` never resets a profile that came in between.
* A DRS refresh reads the playcount first and the history last, so a snapshot is never older than
  its key; read the other way round it could be. The order of its statements satisfies the foreign keys, and
  since no row is ever deleted it is enough that each refresh follows it by itself. Of the plays of a chart it
  keeps one (`drs_later_play`).

### Bounds

The constants are finite in a check, and for each of them the interesting case needs no more than the
instance has: a cookie or a link that goes astray needs two accounts and two API users; a lost update
needs two goroutines; rotation needs a second cookie. `Cookies` is finite, so after two the site issues no
more and only the behaviours up to there are explored; the theorems have no such bound. In `FanOut` a
lost increment needs two failing pages, a queue more requests than the limit, a limiter created twice two callers. In `DdrSync` the recent page
holds two plays, so that a part of it can be found, and the player makes three (`MaxPlays`), so that one scrolls off it; one
song with one chart is enough, because the steps treat songs and charts each by itself, and updates run in one
goroutine, beside which the other runs what is not an update. The theorems bound none of these. In `MgmtToken` the second token is the one that comes after a pause (`MaxTokens`,
`MaxClock`); in `ApiStatus` four seconds (`MaxNow`) hold two periods with their checks; in `DrsSync` two plays
are enough for one to come between two documents or to be of a chart that was played before. `EaSession` and `FanOut` have no counter except `errCount`, which the pages bound.

`CHECK_DEADLOCK FALSE` stands in the fan-out configuration: calls end, and a process that died
does nothing. Symmetry is used in the runs without liveness, on sets whose elements the specification
and the properties never tell apart (in `services` the two goroutines, of which the parts say the same).

### Fairness

`EaSession!FairSpec`: every goroutine that has started goes on (Go's scheduler, and site requests that end), and the
ticker starts the updates. Nothing is assumed of requests: they may never come, and the site need not
keep or drop sessions. The run has neither lost answers nor failing statements, because a clear that always
fails leaves the session where it is, nor `busy`, because a site that never refuses a dead session keeps it there. `FanOut!FairSpec`: goroutines go on, and a request is answered or
dropped in the end; the `http.Client` has no timeout, so a site that is silent for ever blocks the code.
The other modules have only safety properties.

### What the environment is assumed to do

* `MgmtToken`: a token lives longer than any period in which calls overlap without a pause. A token from
  the identity service lives for hours and a call takes a second, so it lapses only when, since its issue, the clock has moved at a
  moment without calls (`Tick`).
* `ApiStatus`: a ping of the database takes at most `CheckTime`, any number of seconds; nothing in the code bounds it. The
  properties speak of answers in terms of `CheckTime`.
* The site shows plays in order and takes none away; the identity service answers truly or not at all.

## Proofs

All theorems are for any constants that satisfy the named assumptions of the modules
(`NamesAssumption`: lower-casing is idempotent on the names; `ConstantsAssumption`: the empty string is no name, user or
cookie and the job is no request; `LimitAssumption`, `ListsAssumption`, `NilAssumption`, `FaultsAssumption`; `SyncAssumption`: a recent page of at least one play; `Auth0Assumption`,
`TokenAssumption`, `StatusAssumption`, `ProfilesAssumption`, `DrsAssumption`: bounds are numbers, the sets that are
chosen from are not empty), with every fault allowed.

**EaSession_proofs.** The properties are not inductive: a row is written from what a goroutine carried for
several steps. `SessionInv` adds `Carries` for each goroutine: the cookie in its jar was issued to the account it
names, the row copy it holds fits that account, the loop's remaining rows fit theirs, and it touches only
accounts that its API user earned (or, in the updates, any that was earned). Every action is shown
to consist of a step of the site that forgets nothing, at most one row saved whose contents fit, and a local
state that carries what fits; `Preservation` turns these parts into the invariant, so no action's proof
deals with the goroutines that do not move. The same parts show the refinement: under `SessionInv` a statement is a `Store` of
`Accounts` or leaves the table alone, an answer of the site is a `Login`, `Visit` or `Exchange`, and everything else stutters.
`AccountsAreEarned` is about `Accounts` alone: its rules are enough for `NothingUnearned`, the properties of links and
sessions restated for its variables. Theorems: `SessionInvariant`, `TypeCorrect`, `SessionsAreOwn`, `LinksAreEarned`,
`OnlyLowerCaseSessions`, `OnlyLoginsAddRows`, `RequestersOwnSessions`, `ImplementsAccounts`, `AccountsAreEarned`.

**LoneLogin_proofs.** These theorems assume `StatementsWork`, that no statement of the database fails: when its save
fails `LoginPost` answers with an error, and when the deferred one fails the cookie is lost with a line in the log; the
comment of `LoginPost` cannot be meant of either. All other
faults and any number of goroutines are allowed. `LoneInv` says that a request that nothing overlapped finds every other
goroutine idle (whoever starts or goes on makes it `crowded`), and that a login's row is as it stored it, also in the copy that the
deferred call saves back. Theorems: `LoneInvariant`, `LoneLoginsReplaceWebUser`, `LoneLoginsUpdateCookie`.

**FanOut_proofs.** `FanOutInv` says for each page what its goroutine has done and left behind; the clause that makes the
unlocked counter harmless is that a page that is done and was bad implies a count above zero, which
holds because a goroutine writes what it read plus one. The lock is needed for another clause: a goroutine about
to append has a copy equal to the list. Theorems: `FanOutInvariant`, `ResultsAreComplete`, and `ImplementsFetch`: every step of
`FanOut` is a step of `Fetch` or leaves its variables alone. `LimitersBound` adds `LimiterInv`: the holders of a limiter are
exactly the requests under way in the transports of clients that took it, and no more than its units. Mapping each such request
to its limiter and its number among the holders is then an injection, which bounds their number.

**DdrSync_proofs.** `SyncInv` adds to the marker property what each goroutine carries (`Carries`): an update that
has read the recent scores page covers, with what it found and what the page left out (`unseen`), every counted play that the
site still shows, and from `AddScores` on the table does in place of what it found. So its playcount, when it comes to be stored, is ahead
of the scores by no more than `unseen`, which becomes `missed`; and `unseen` is empty where pages come whole. A refresh
stores its playcount first and only adds to `owed`, which the statements of scores take back. Two facts do the work: plays only move
the recent page on and scores are never removed, so what a goroutine knows stays true while others move
(`CarriesStays`); and each step of a chain hands on what the next one needs (`Proceeds`, over the order of the steps). The
foreign keys have an invariant of their own over the same chains, `KeyInv`: a goroutine past the step that
finds or stores the player has his row, and one that is about to store statistics has the charts'. For the refinement to
`ScoreKeeping`, `SyncInv` supplies what each step that touches the scores or the playcount must show: an update's `AddPlaycounts` is a
`Mark` because the table covers its count by then, or a `MarkPart` for what its page left out, a refresh's is a
`Promise`, and `AddScores` keeps it. `KeepingTells` is about `ScoreKeeping` alone, and holds for any chains that follow
it. Theorems: `SyncInvariant`, `MarkerFollowed`, `UpdatesStore`, `KeyInvariant`, `ForeignKeysAlwaysHold`,
`ImplementsKeeping`, `KeepingTells`, and `NamesKept`, an action property that needs no invariant.

**MgmtToken_proofs.** `TokenInv` says that a token from before the last pause comes with an expiration before the
clock, so that no call gets past the check with it; whoever stores a token stores one issued since. Theorems:
`TokenInvariant`, `TokensAreFresh`, and `ImplementsScopes`: `HeldOK` makes a yes of `Lookup` a step that `Scopes` allows.

**ApiStatus_proofs.** `StatusInv`: the last goroutine that set `nextUpdate` is still checking, or the value stored is at most a check older than
that. Whoever stores last found its value within `CheckTime`, so the order of the stores does not matter. Theorems:
`StatusInvariant`, `AnswersAreRecent`.

**Profiles_proofs.** `ProfilesInv` keeps for each request that the question under way is about the right user and scope
(`RightQuestion`), that `could` covers what it does (`Entitled`), and that the row it read is the row in the table until it
is overtaken (`RightRow`). Theorems: `ProfilesInvariant`, `OnlyEntitled`, `LonePutsAreExact`, and the action property
`OnlyPutsChangeProfiles`.

**DrsSync_proofs.** `DrsInv`: what a refresh has read is of the past (`ReadIsPast`), and what it has stored without a failed statement
is there, because no statement deletes a row (`StoredIsThere`); only the statistics are overwritten, so for them the
refresh must be alone (`StatsAreOwn`). That a history has a newest play is taken from the well-founded order of the
numbers. Theorems: `DrsInvariant`, `SnapshotsAreNotOlder`, `RefreshesStoreCharts`, `LoneRefreshesStoreStats`.

Every property that a passing run checks is also proved, but for two. Only model-checked: the liveness properties
`Answered` and `DeadSessionsAreCleared` (liveness and ENABLED are beyond the proof system used here), and what the
violation runs show. `session_logins` checks `SessionsAreLowerCase` and `RowsComeFromLogins`
with cookies that change as the only fault; the theorems have them for all faults.

## Not modelled

* Captcha pictures, HTML and JSON parsing: pure functions of a page, tested in the repository with
  saved pages. The models take from them which pages give nothing, an error or a panic.
* JWT validation, configuration, routing, migrations: libraries and glue without lasting state.
* Read-only handlers: they write nothing.
* `SetSubscriptionForUser`, `RetrieveRandomHelper` and the automatic jobs of `db/api_db/sql.go`: nothing calls them.
* The foreign keys from `ddrPlayerDetails` to `eaGateUser` and of the workouts: accounts are never deleted, and no workout reaches
  a statement.
* Batches of a hundred rows: a statement of them fails or not; that some of several may fail is modelled.
* What two site requests of one fan-out do to the jar's cookie when answered out of order: it would need to say which
  of its cookies the site still accepts, and nothing in the code tells.
* The mini games (`eagate/janken`): they repeat as long as the page offers choices and keep nothing.
* Two spellings of one API user: `eaGateUser.web_user` is lower-cased and `bstProfile.user_sub` is not, so the job finds only
  profiles whose subject is in lower case. Whether the identity service issues others is outside the code.

## Plan

1. Done: `EaSession`, `Fetch`, `FanOut` and `DdrSync`, `Scopes`, `MgmtToken`, `ApiStatus`, `Profiles` and `DrsSync`, each with
   its runs and proofs; `Accounts` and `ScoreKeeping`, which `EaSession` and `DdrSync` implement; `LoneLogin`.
2. An abstract specification of the DRS tables and of the profiles, as `ScoreKeeping` is of the DDR tables.
3. `DdrSync` for several players, of whom one is read under the account of another.
4. The liveness of an hourly update in `DdrSync`: when plays and faults stop, the tables catch up.
