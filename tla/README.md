# Formal models of gltchbot

TLA+ specifications of gltchbot's bot modules, its HTTP API and what the two are built
on, TLC configurations that
model-check them on small instances, and TLAPS proofs of the properties that
matter most for every size of instance.  Paths are relative to the root of the
repository (`src/` here); `tlc -workers 2 -config X.cfg M.tla` runs a model,
`tlapm M.tla` checks the proofs of a module.

## 1. The system

Two Go programs share one PostgreSQL database and nothing else.

    Discord <--gateway, REST--> cmd/bot --sqlc--> PostgreSQL <--sqlc-- cmd/api <--HTTP-- dashboard

* `cmd/bot` opens a discordgo session.  discordgo reads gateway events in order,
  updates its own copy of the guild (the *State*), and starts **a goroutine per
  event and handler**: two events of one user can be handled at the same time and
  finish in either order.  Handlers talk to Discord (REST), to PostgreSQL (each
  statement its own transaction, wrapped in `db.WithRetry`) and, for JoinToCreate,
  to a TTL cache in memory.
* `cmd/api` serves HTTP.  It edits the same tables (parent channels, module
  switches) and, when it disables a module, runs the module's `OnDisable` in *its*
  process.  It never tells the bot: whatever the bot has cached stays.
* `docker-compose.yml` restarts both (`restart: unless-stopped`).  Nothing is
  swept at start-up.

### Components

| Component (sources) | State | Operations | What makes it hard | What makes it correct |
|---|---|---|---|---|
| **JoinToCreate** `internal/bot/modules/jointocreate` | rows of `jtc_parent_channels` and `jtc_active_channels`, channels and users at Discord, State, parent cache | voice event (clean up the channel left, then make, record, move), channel-delete event, `/jointocreate setup`, `remove`, API writes | four parties change the same thing, three calls without a transaction, crashes between them, stale cache and State | a row keeps its parent; a temporary channel is never forgotten; every join is served; an empty channel goes |
| **TTL cache** `internal/cache` | map of entries with an expiration, cleanup goroutine | Get, Set, Delete, DeleteIf, Clear, StartCleanup, Stop | Get checks and deletes under different locks, stop channel reused | only due entries go, all due entries go, Stop ends the goroutine |
| **Token bucket** `internal/bot/ratelimit` | tokens, `lastUpdate` | Wait, SetRate | reservations ahead of the clock, cancellation | never above the rate, withholds no more than was reserved |
| **AutoRole** `internal/bot/modules/autorole` | `auto_roles`, `autorole_user_triggers` | join, message, reaction events, `/autorole add`, `remove`, OnDisable | check-then-act, OnDisable in another process | at most a round per goroutine, a recorded trigger was served, a bounded rest after a disable |
| **Module registry, switch** `internal/bot/modules/registry.go`, `internal/api/routes/modules.go` | `guild_modules.enabled` | EnableForGuild, DisableForGuild | the switch and OnDisable are two steps | as for AutoRole |
| **ReactionRoles** `internal/bot/modules/reactionroles` | `reaction_roles`, reactions and roles at Discord | reaction added, removed, `/reactionrole add`, `remove`, `fix`, OnDisable | opposite events in concurrent goroutines, `fix` works from old pages | a member has the role exactly when the reaction is there |
| **API rate limiting** `internal/api/middleware/ratelimit.go` | global bucket, table of buckets per address | serveHTTP, getOrCreateLimiter, cleanup | Load and Store are separate, cleanup races a request, a refused request has reserved a token | the rates hold, few buckets per address, only full ones are forgotten, idle ones go |
| **Discord rate limiting** `manager.go`, `session_wrapper.go` | buckets, global and per endpoint | Manager.Wait, wrapped session | two waits in a row | as for the bucket |
| **Retry** `internal/db/retry.go` | none | WithRetry, backoff | a statement applied but reported as failed, or applied later | one effect, a transient error is retried, delays bounded, every call returns |
| **Client, start and stop** `cmd`, `internal/bot/client.go` | session | New, Start, Stop, READY, guild create | order of registration and connection | handlers registered before the session opens |
| **API middleware, audit** `internal/api/middleware`, `internal/api/server.go`, `internal/audit` | one request and its response | CORS, security headers, rate limit, size limit, recovery, logging, key, audit, route | the order of the layers, bodies of unknown length, sizes that overflow, panics | routes only for a known key, with the whole body; the limit holds; the log says what the client got |
| **Lists in pages** `internal/api/routes/guilds.go`, `jointocreate.go`, `internal/api/pagination` | none between requests | count, query, next_offset | rows come and go between two statements and between two pages | the walk ends and misses nothing that stayed |
| **Configuration, validation** `internal/config`, `internal/api/validation` | none | one value | sizes that overflow | pure functions |
| **Logging**, **purge-commands** | none | one line; run by hand | | |

### How the components meet

* discordgo -> handlers: one goroutine per event, from `Registry.Register`.
* JoinToCreate -> TTL cache: `getParentChannel` reads it, falls back on the
  database, writes it; `handleChannelDelete` and `handleRemove` delete entries.
* API -> PostgreSQL -> bot: the bot sees a change only at its next query.
* API middleware -> token bucket: `Wait` with a context cancelled beforehand.
* Client -> `RateLimitedSession`: `internal/bot/client.go` wraps the session for
  itself; the handlers receive discordgo's raw session, so the limits do not apply
  to what they call.

## 2. Modules

A *step* is one call to Discord, PostgreSQL or the cache (or what happens under
one lock) and the local computation up to the next such call: the points where
other goroutines, the other process or a crash can come in between.

| Module | Models | Extends |
|---|---|---|
| `JoinToCreate` | JoinToCreate with Discord, gateway, State, database, cache abstraction, API writes, failures, crashes | |
| `MCJoinToCreate` | the symmetry of its instances | `JoinToCreate` |
| `JoinToCreateProofs` | its theorems | `JoinToCreate` |
| `TTLCache` | the cache and its cleanup goroutine | |
| `TTLCacheProofs` | its theorems | `TTLCache` |
| `Limiter` | the token bucket | |
| `LimiterProofs` | its theorems | `Limiter` |
| `RateTable` | the rate limits of the API: the global bucket, the table of buckets, the cleanup; its global bucket implements `Limiter` | instantiates `Limiter` |
| `RateTableProofs` | its theorems | `RateTable`, instantiates `LimiterProofs` |
| `AutoRole` | AutoRole, the registry's switch and `OnDisable` | |
| `MCAutoRole` | the symmetry of its instances | `AutoRole` |
| `AutoRoleProofs` | its theorems | `AutoRole` |
| `ReactionRoles` | ReactionRoles on one message, with Discord's reactions and roles, the switch and `OnDisable` | |
| `MCReactionRoles` | the symmetry of its instances | `ReactionRoles` |
| `ReactionRolesProofs` | its theorems | `ReactionRoles` |
| `APIChain` | one request through the middleware of the API, up to the route and back | |
| `APIChainProofs` | its theorems | `APIChain` |
| `Statement` | abstract: what a caller of `db.WithRetry` may assume of a statement | |
| `Retry` | `db.WithRetry` and its delays; implements `Statement` | instantiates `Statement` |
| `Paging` | a client that walks a list of the API page by page | |
| `DatabaseProofs` | the theorems of the last two | `Paging`, `Retry` |

`Statement` is what `JoinToCreate`, `AutoRole` and `ReactionRoles` take one step for: a call that
succeeds, fails, or is applied and fails.  `Limiter` is what `RateTable` says of its global bucket.
`RateLimit` of `APIChain` is a choice between the two answers `RateTable` can give.

Each module also holds a few definitions marked *Faulty variant*: a definition
above with a plausible mistake in it.  They are not used by `Next`; substituted for
the definition that follows them, they make the run of the property they are meant
for fail, which shows that the property depends on that line of the code.

### JoinToCreate

| Variable | In the system |
|---|---|
| `live`, `used`, `voice` | Discord: existing channels, ids ever given out, where users are |
| `gateway` | events Discord has sent and discordgo has not read |
| `parents`, `parentOf`, `enabled` | the tables and `guild_modules.enabled` |
| `seen` | discordgo's State |
| `cache` | the parent cache: no entry, an entry that says "no parent", a parent |
| `pc`, `arg` | next call and locals of each goroutine |
| `up` | the process runs |
| `lost` | history: temporary channels that a failed call, a cascade or a crash left behind, noted when it happens |

The handler `handleVoiceStateUpdate` (events.go:16-92) is the chain `CleanupLookup`,
`CountUsers`, `DeleteEmpty`, `DeleteRow` (`maybeCleanupChannel`, for the channel
left), then `CacheLookup`, `QueryParent`, `StoreParent` (`getParentChannel`), then
`CheckEnabled`, `MakeChannel`, `InsertRow`, `UndoCreate`, `MoveOwner`.
`handleChannelDelete` is `DropRow`, `Forget`; `handleSetup` is `CheckSetup`,
`MakeParent`, `InsertParent`, `Publish`; `handleRemove` goes through the lookup and then
`DeleteParent`, `Invalidate`, `DeleteChannel`.  `Deliver` is discordgo's dispatch: State
first, then the goroutine.  `Fault` is the alternative of every call to Discord or
the database in which it fails, with what the code does then.  The writes also have the outcome
where they are applied and reported as failed: `Create` (a channel at Discord that the bot has no id of),
`InsertRow`, `InsertParent` (the retry meets the unique key), `DeleteRow`, `DeleteParent`.
When `CountUsers` cannot count and the channel cannot be fetched either, `DeleteRow` takes the row without an attempt
to delete the channel (events.go:185-191).  External: what Discord does (`UserMoves`, `Kick`, `AdminDeletes`,
`AdminCommands`, `Send`) is modelled from how the code uses it; an id is never reused.

Abstracted: names, positions and permissions of channels, guild ids (one guild), log
lines, the text of responses, roles checked before a command runs.

### TTLCache

`store` maps a key to its expiration (`Never` for the zero time) or `Absent`.  `Get`
reads under the read lock, `Check` decides after the unlock, `Remove` is the `Delete` that
follows.  `SetWithTTL` computes the expiration before `Store` takes the lock.
`StartCleanup`, `Stop` and the loop (`EnterSelect`, `TickerFires`, `StopSeen`, `Sweep`) keep the
channel `stopCh` as a number and `closed`: older channels are closed.  Values are left
out; `JoinToCreate` keeps the values and lets an entry disappear at any time.

### Limiter

`WaitGranted` and `WaitReserves` are `Wait` up to the unlock, with and without a token;
`Wake` and `Cancel` are the two branches of its `select`.  `NewTokens`, `Filled`, `Base` are
the replenishment.  Time is in ticks, so `Rate` is an arbitrary number of ticks;
what is dropped by the integer division is dropped in the model too.

### AutoRole

The three event handlers are `FetchMember` (reactions only), `CheckEnabled`,
`CheckTriggered`, `ListRoles`, `AssignRole` (once per role), `RecordTrigger`; the commands are
`CheckCommand`, `AddExists`, `AddCreate`, `RemoveRow`; the API's PATCH is `Enable`, or
`Disable`, `WipeRoles`, `WipeTriggers`.  A request cut off between two statements (the client goes
away and its context ends, or the API stops) is a failure of the next statement.  Every write may be applied
and reported as failed (`Applied`); after such a `Disable` the switch is off and `OnDisable` does not run.  History: `given` (who got a role for what), `rounds`
(how many goroutines assigned), `off`/`clean` (whether a disable has gone all the way
since the last enable).

### ReactionRoles

| Variable | In the system |
|---|---|
| `rows`, `enabled` | `reaction_roles` of one message, with the add that inserted each row, and the switch |
| `reacted`, `has` | Discord: who has reacted with what, who has which role |
| `pending` | goroutines discordgo has started for an event and that have made no call yet, counted: they may go in any order |
| `pc`, `arg` | next call and locals of each goroutine that has made one |
| `wiping` | how many requests of the API are between clearing the switch and `OnDisable`; none waits for another |
| `settled`, `spoiled`, `calm`, `cut` | histories the properties need, see section 4 |

`handleReactionAdd` is `StartEvent`, `Lookup`, `Assign`, `Revert`; `handleReactionRemove` is
`StartEvent`, `Lookup`, `Revoke`.  `handleAdd` is `CheckCommand`, `AddExists`, `AddCreate`,
`AddReact`, `Undo`; `handleRemove` is `CheckCommand`, `RemoveFind`, `RemoveRow`, `Unreact`;
`handleFix` is `CheckCommand`, `FixList`, `FixMessage`, `FixMembers` (three snapshots), then
`FixUsers` and `FixRemove` for each emoji, then `FixBot`.  `FixUsers` reads one page of users per emoji
(100 of them, here any part: `Pages`), never a second one.  A reaction removed by the bot causes
the same event as one removed by its owner.  `CreateReactionRole`, the deletion,
`GuildMemberRoleAdd` and the bot's own reaction may be applied and reported as failed.

Abstracted: emojis are model values (`parseEmoji` and `formatEmojiForStorage` give the same
string for the same emoji); the page of members (1000 of them) is any part of them; other bots; the
permission check of commands.

### RateTable

A request is `WaitGlobal`, `SelectGlobal`, `Load`, `Store`, `Wait`, `Select`: `serveHTTP` calls `Wait` with
a context that it has cancelled, so a request that finds no token reserves one and is refused,
unless its timer has fired when it comes to the `select`.  `Load` and `Store` are the two halves of
`getOrCreateLimiter`; between them another request may store its own bucket.
`StartSweep`, `CheckEntry` (the decision, under the mutex of an entry), `DeleteEntry` (after it)
and `EndSweep` are the goroutine that removes idle entries.  Every bucket ever made stays in
`bucket`, because a request may still hold one that the table no longer has.  The properties
need histories: grants of a bucket since it was `born`, when it was `used`, how often an
address was `stored`, and for the global bucket what `Limiter` counts.

`Global == INSTANCE Limiter` maps a request in the global `Wait` to a sleeping caller and a refused
one to a cancelled caller; `GlobalIsLimiter` is its specification.

Abstracted: a step reads the clock and uses it; `Load` is the clock, the lookup in the `sync.Map` and the note of
the access under the mutex of the entry, taken as one (ratelimit.go:131-137).  An address is a value, and so is
whether a request has a key.  A global rate of zero (no global bucket) is left out.

### APIChain

The variable `pc` is the layer the request has come to; `Inner` is the order in which `server.New` wraps
the handlers, from the outside: CORS, security headers, rate limit, size limit, recovery,
logging, the mux, and behind it for `/api` the key, the audit and the route.  Recovery does
something only on the way back (`Panic`, `Completed`, `Recovery`).  `wire` is the
first status sent, `rw` what the writer of Logging has captured; `WriteHeader` and
`WriteBody` are that writer's methods.  `SizeLimit` is the middleware with its
`io.ReadAll(io.LimitReader(..., max+1))` as `Read`, and `Limit` the product in `parseSizeBytes`, both in integers
that wrap around at `Half`.

Abstracted: a body is its length and whether it ends in an error, a header its presence, a
status its class, the log a set of lines.  What the routes do is in the other modules; here one
answers with any status and may panic before or after.

### Retry and Statement

`Attempt` is an attempt that is answered; `AttemptLost` one whose answer is an error: nothing
happened, the effect happened, or the server still works on it (`AppliedLate`, `DroppedLate`).  `Failed`
is what `WithRetry` does with the error, `Wake` and `GiveUp` the two branches of its `select`.
An insert that meets its own row is refused with an error that is not retryable: so `error`
does not mean that nothing happened, and `Statement` does not promise it.
The names of `Retry` that every module has (`RetryInit`, `RetryNext`, `RetrySpec`, ...) tell it apart from `Paging`: `DatabaseProofs`
extends both.  Delays are in quarters, which makes the jitter of 25 percent exact.  `Backoff` computes in an int64
(`Signed`): the base is doubled before the cap, so that with enough attempts it would wrap around and the cap
would not apply.  `WidthAssumption` says how far the attempts may go; the one configuration
there is (three attempts, 100 milliseconds) is far from it.

### Paging

`Count` and `List` are the two statements of a page, `Fault` a failure of either, `Insert` and `Delete` what
others do to the table.  `rows` is the table as sorted, `created` the `created_at` of its rows.  The query for
guilds is `ORDER BY created_at DESC` and nothing else, so that guilds of one time (two transactions that began in the
same microsecond) come in any order, and in another one with the next page: `Orders`.  `Insert` may also put a row
behind a later one, since `now()` is the start of the transaction.  Parent channels have no order at all, which is the
same as one time for all of them.  The client starts with any `limit` and `offset` (`Numbers`: in range, too large for an int32,
or one of those that `ParseQuery` replaces: negative, unparsable, none).
`ParseLimit`, `ParseOffset`, `HasMore`, `NextOffset`, `InInt32` are `ParseQuery`, `NewResponse` and
`SafeInt32`.

## 3. Runs

| Run | Shows | Properties |
|---|---|---|
| `jtc_safety` | with a failed call, a crash, an admin or API operation and a mute or cache expiry anywhere, a row keeps its parent and a channel is lost only in one of five named ways | `TypeOK`, `ActiveHasParent`, `TrackedOrLost` |
| `jtc_live` | without failures, with two users, each join is served or refused by Discord, and a channel somebody sat in does not stay empty | `JoinServed`, `EmptiedIsRemoved` |
| `jtc_truly_empty` | *violated*: an occupied channel is deleted | `TrulyEmpty` |
| `ttl_cache` | the sweep takes only what is due and all of it, Stop ends every loop | `TypeOK`, `FreshKept`, `ExpiredGo`, `StopEnds` |
| `ttl_start` | *violated*: `StartCleanup` on a new cache starts nothing | `CleanupStarts` |
| `limiter` | the rate holds, reservations are spread out, nobody is held back before the first cancelled wait, and afterwards for no longer than the waits cost | `TypeOK`, `RateBound`, `ReservedApart`, `DebtBounded`, `PromptUncancelled` |
| `rate_table` | the API's rates hold, an address has few buckets, the cleanup forgets only full ones and all idle ones, the global bucket is used as `Limiter` has it | `RatesHold`, `BucketsBounded`, `GlobalIsLimiter`, `ForgetsOnlyFull`, `IdleForgotten` |
| `api_chain` | routes are behind the key and get the whole body, the size limit holds, the log ends with what the client got | `TypeOK`, `RoutesGuarded`, `BodyWhole`, `LimitEnforced`, `LogTellsAnswer` |
| `retry` | `WithRetry` implements `Statement`, retries what is transient within its delays, and returns | `TransientRetried`, `DelayBounded`, `KeepsPromise`, `Returns` |
| `paging` | a walk over a list, from any offset, ends, misses nothing that stayed and has its place to itself and, while nobody joins, repeats none of that | `TypeOK`, `Complete`, `NoRepeats`, `WalkEnds` |
| `autorole` | how often roles are assigned, what a recorded trigger stands for, what a disable leaves | `TypeOK`, `RoundsBounded`, `FiredWasServed`, `LeftoverBounded` |
| `reactionroles` | roles follow reactions, rows are shown on the message, `fix` repairs it where a page holds all users of an emoji | `TypeOK`, `InSync`, `ShownOrSpoiled`, `FixRestores` |

A violated property states what a comment or the README of the repository says; section 5 has the traces.

### Bounds

* `jtc_safety`: one user, one parent, one temporary channel, two goroutines, one event
  under way before the world pauses (the bot's own events are never held back), and
  one each of fault, crash, admin/API operation and noise (a mute, a cache
  expiry).  Every hazard of safety listed here is between two goroutines or a goroutine
  and one other party, and about one channel.  The theorems of section 6
  lift all these bounds.
* `jtc_live`: two users, so that somebody else can be the last to leave or the first
  to pass through; two goroutines; no faults, crashes or admin operations, because
  with them both properties are false (a failed `MoveOwner` or a crash loses a channel,
  see `TrackedOrLost`) and the code does not repair.  One temporary id: one join, of either
  user, is followed to the row and the move, and every other one, before, beside or after it, to its own call of
  `MakeChannel`, where Discord refuses it (`Refused`): a join whose goroutine ends earlier is a violation.  What
  comes after the creation reads nothing that an earlier join has left but the parent's row.  Two users with two ids
  are 3.8 million states, too many to check liveness of.
* `jtc_truly_empty` needs two users.
* `ttl_cache`: one key (keys are independent: no operation but `Clear` relates two),
  two callers so that a `Get` can race a `Set`, three ticks with a TTL of one so that an entry is set,
  is fresh, expires and is set again, two starts so that an old loop meets a new channel.
* `limiter`: three callers so that reservations queue up, a burst of two, an interval of
  three ticks so that fractions are dropped, fourteen ticks (four intervals and more), two cancellations.
* `rate_table`: two goroutines and three requests, so that first requests race, an entry is
  found again and a request meets the cleanup; one address (addresses meet only
  in the global bucket); three ticks with an expiry of two, so that an entry expires; a global
  burst of two and buckets of one token, so that both Waits refuse; a burst of zero, which
  `getOrCreateLimiter` raises to one; different rates with a key and without.
* `api_chain`: integers of four bits (`Half = 8`) with a unit of 4, so that 2 * 4 and 3 * 4 overflow to a
  negative limit, which is none, 5 * 4 to another limit, and the number 7 is the largest integer; bodies up to 5 bytes,
  longer and shorter than the limits 0 to 4; every key, origin, method, declared length and cut.
* `retry`: three attempts and the delays 2 and 3, so that the cap is reached at the second
  attempt; `WithRetry` uses three attempts too.  Integers end at 4 (`Half = 5`), the largest delay before the
  cap: one more attempt would break `WidthAssumption`.
* `paging`: up to four rows, three of them there at the start, pages of two by default and three at
  most, the largest integer 4; limits and offsets from -1 (negative, unparsable or none) to 5 (past an int32);
  three times, so that a guild can come in before, between and behind others and share its time with one of them; one
  failed statement: walks of one to three pages with rows coming and going at each point.
* `autorole`: two members, two goroutines, two API requests, one failure or crash,
  one role and one trigger (the reaction, whose handler has one step more than
  the others).  The members matter for `LeftoverBounded`, which counts rows.
* `reactionroles`: starting from any orderly message, three things people do (reactions,
  commands, disables, roles given by hand) and one failure or crash: enough for an add and a remove of one
  emoji to overlap with a reaction, for a fix to overlap with two of them, and for a reaction and its
  removal after a command.  Two emojis so that both can stand for one role; two
  goroutines besides those that wait in `pending`; one member, because a pair of a
  member and an emoji meets other members only through the row.  The pages of members and of users that a fix reads are any
  part of them, so that each user may be one that does not fit.

`CHECK_DEADLOCK FALSE` is set where the bounds on time, events and failures stop the
models, and where an idle bot, a call that has returned or a walk that is over is a proper state of
the program.  `api_chain` has no such state: a request is answered and the next one comes, and that
no layer is left without a next step is checked.

### Fairness

* JoinToCreate: weak fairness of `Deliver` (discordgo reads the connection), of the
  step of each goroutine (the Go scheduler; calls return because the HTTP client and the
  database have timeouts), of `Kick` (Discord disconnects users of a deleted channel) and
  of `Restart` (docker).  Users, admins, faults and crashes owe nothing.
* TTLCache: weak fairness of the calls under way and of each cleanup loop, including the ticker;
  strong fairness of `StopSeen`, because `select` chooses at random among ready cases:
  the closed channel is ready each time, and is not passed over for ever.
* RateTable: weak fairness of `Sweep`, the cleanup goroutine, whose ticker never stops.  Requests and
  the clock owe nothing.
* Retry: weak fairness of `WithRetry`: a call to the database returns, with an error if need be, and a
  timer fires.  The server and the caller's context owe nothing.
* Paging: weak fairness of `Walk`: the client asks for the next page and statements return.
* Limiter, APIChain, AutoRole and ReactionRoles: safety only, no fairness.

## 4. What the properties say

`TypeOK` of each module also says that a goroutine never reads a local it has not
set.  The others are stated at the end of each module, each with the code it is about.
Some need a word.

* `TrackedOrLost`: a temporary channel at Discord has a row, or a goroutine is about to
  write the row or delete the channel, or it is in `lost`.  Five things put a channel there, each at the call that goes
  wrong and not when the row goes: Discord made the channel and reported the creation as failed (events.go:60); the row went with its
  parent's (cascade); `ChannelDelete` failed, of an empty channel or of one whose row could not be inserted;
  neither the users nor the channel could be fetched, and the row is deleted without a
  `ChannelDelete` (events.go:185-191); the bot crashed between the creation and the row.  A deletion of a row in any other state is
  a violation, and so is an occupied channel that the handlers stop tracking.
* `JoinServed` asks, per join, for a recorded channel and the attempt to move.  `Refused` is the only way out
  besides leaving: this goroutine is at its creation and Discord has nothing left to give.
* `EmptiedIsRemoved` is weaker than the README's "Auto-deletes the channel when
  it becomes empty" (README.md:315), which an owner who leaves before the move refutes: it asks that
  somebody has been in the channel while it was recorded.
* `RoundsBounded` is the bound that does hold of the check-then-act in AutoRole, where "once per trigger"
  does not: as many assignments as goroutines can run at the same time, and as many again per failure.
* `DebtBounded`: a cancelled wait keeps what it reserved.  The property says how much that is: one
  interval per sleeper and per cancelled wait, and never more.
* `BucketsBounded`: `stored` counts the buckets an address was given since it had no entry.  Each is
  worth a burst, so this bounds what a race of first requests can gain.
* `ForgetsOnlyFull` names the three ways in which the cleanup may forget a bucket that is not full: a
  request came to the entry after the sweep began, was held up between the entry and its
  `Wait`, or the bucket is in debt.  It rests on `ExpiryAssumption`: a bucket fills up within `entryExpiry`.
* `LogTellsAnswer` relates the log to the answer although a panic skips the last line of Logging and
  Recovery writes past its writer.
* `LimitEnforced` and `BodyWhole` hold of limits that do not overflow, and of all but the largest
  integer: section 5.
* `Complete` and `NoRepeats` are about guilds that share their `created_at` with no other one (`Alone`).
  With a tie the query may return the two in another order on the next page, and the one is listed twice
  and the other never; nothing in the code or the schema excludes that.  `Complete` also holds of a list that
  fits into one page from the first row on, and has the exception the code has: the count and the page are two
  statements, and `raced` is a row inserted between them.
* Paging's `TypeOK` is about what `ParseQuery` makes of any query, and about the next offsets.
* `InSync` (ReactionRoles) is about the pairs in `settled`: the last event of the pair came when
  no goroutine was busy with it (but the one whose call caused it), the module was enabled and the
  emoji configured, and since then nobody changed the row, no other emoji and no moderator
  touched the role, and no call failed that the code does not repair.  The code orders
  nothing else: two events of one pair handled at the same time may end either way, and so
  may two emojis for one role.  `settled` names these gaps and the property excludes all others,
  among them a refused role (`Revert`), a fix over old pages and a removal by a moderator.
* `ShownOrSpoiled`: `spoiled` grows only where an insertion or its undoing failed, the bot crashed
  between the insertion and the reaction, or the bot's reaction was removed although the row was
  there.  A fix, or another add, clears it.
* `FixRestores` asks that the fix starts on a quiet message (`calm`) and is not disturbed, and says what
  it does for the emojis whose users fit into a page; `cut` names the others, of which it examines only the first.
  It does not say that valid reactions stay: section 5.

## 5. Where the code and its documentation disagree

With a run that shows it:

1. `jtc_truly_empty` (events.go:196, "Only delete if the channel is truly empty").  The
   count comes from State; a user who has joined at Discord, with the event still under
   way, is not in it.
2. `ttl_start` (ttl_cache.go:108).  The select at 112-119 continues only when `stopCh` is
   closed; `New` makes it open, so the cleanup never starts.  `jointocreate/module.go`
   is the caller, and never calls `Stop`.  Expired entries are still never *returned*.

Met while modelling; the properties above are what holds instead:

* commands.go:104 of JoinToCreate, "Users who join it will get their own temporary channel".  The new channel is
  visible from its creation: a second user who enters and leaves it makes the bot delete it,
  `GuildMemberMove` fails and is only logged, and the owner stays in the parent.
* README.md:341-342 (fix "Removes reactions from users who don't have the associated role" and "with unauthorized
  emojis").  commands.go:538 asks for 100 users of an emoji, once: the reactions of the others stay, and the command reports success.
* README.md:343 (fix "Keeps valid reactions from users with the correct role").  commands.go:489 asks for the first
  1000 members, once, and 571-576 take a user who is not among them for one who has left: their reaction is removed
  although they have the role, and the event of the removal takes the role.
* README.md:315.  An owner who disconnects before the move leaves an empty channel with a row, and no
  event will name it.
* Migration 000005, line 2 ("prevents assigning auto-roles multiple times for the same trigger").  The row is read
  before the roles are assigned and written afterwards.
* rate_limiter.go moves `lastUpdate` before `Wait` sleeps, and a cancelled wait does not move it back.
  The rejections of the API are such waits.
* server.go:76-80 calls Logging outermost ("to capture all requests") and puts the size limit before
  the rate limit.  The handlers are wrapped in that order, so Logging is innermost: a request
  refused by a limit or answered by CORS never reaches it, a panic skips its last line, and the rate
  limit comes before the size limit.
* guilds.sql:17.  `ORDER BY created_at DESC` has no tie-breaker: guilds of one time may change places between two pages.
* ratelimit.go:20.  An address keeps the bucket of its first request: with the rate for
  authenticated requests or for others, whatever comes later.
* config.go:334.  The product of number and unit can overflow to another limit or to none; with
  the largest integer `max + 1` is negative and a body is read as empty.
* Without an id from the client, Logging, the key check and the audit make one each: the
  `X-Request-ID` of a response from behind the key is not the one Logging has logged.

The repository's README (350-352) calls AutoRole "scaffolded"; it is implemented and
modelled as such.

## 6. Proofs

Every safety property that a passing run checks is also a theorem.  They hold for any values of
the constants that satisfy the module's assumptions; TLC evaluates the assumptions in each run.

`JoinToCreateProofs`, for any sets of users, channels and goroutines, any
number of faults, crashes and operations, and any length of the gateway:
`TypeCorrect` (`TypeOK`), `RowsHaveParents` (`ActiveHasParent`), `NoOtherLeak` (`TrackedOrLost`).
The inductive invariant is `TypeOK /\ ActiveHasParent /\ DeletedAreGone /\ CleanedIsGone /\ TrackedOrLost`.
`TrackedOrLost` is not inductive by itself: two handlers delete rows.  `DropRow` deletes the row of the channel a
delete event names, and only because that channel is gone does it lose nothing.
`DeletedAreGone` says so of every delete event under way or in the hands of a
goroutine; it needs that Discord never gives an id twice (`used`).  `ActiveHasParent`
rests on the foreign key and its cascade.  `DeleteRow`, at the end of
`maybeCleanupChannel`, is covered by `CleanedIsGone`: the channel is gone by then, or in `lost` because its
deletion failed or was not tried; a channel that is recorded or being counted has an id that was given
out, so one that is gone stays gone.  The proof has a lemma per kind of step:
the calls that only go on (`PlainMoves`), dispatch, creation, the world, the crash.
Assumptions: `Disjoint` (parents and temporary channels have different ids, `None` is
neither), `Bounds`.

`LimiterProofs`, for any callers, rate, burst and clock: `TypeCorrect`, `ApartCorrect`
(`ReservedApart`), `RateCorrect` (`RateBound`), `PromptCorrect` (`PromptUncancelled`), `DebtCorrect` (`DebtBounded`).
`RateBound` counts what was granted; to be inductive it must also count what is in the bucket and
what is reserved, and by when: `Bounded` says, for each time `x` not before the clock or
not before `lastUpdate`, that grants, tokens and the sleepers due by `x` fit in the burst
and the tokens earned by `x`.  `ReservedApart` supplies that a new reservation is the last one.
`Earned` relates an empty bucket to the last grant, for `PromptCorrect`.  `DebtBounded` breaks when a sleeper
wakes, unless one says of every later time `x` that `lastUpdate` is ahead of it by no more than
the sleepers it does not wake (`Late`) and the cancelled waits owe: `Owed`.
Assumptions: `RateAssumption` (a positive interval; `NewLimiter` is called with one),
`BurstAssumption`, `CallersAssumption` (finitely many goroutines), `BoundsAssumption`.

`RateTableProofs`, for any addresses, goroutines, rates and bursts:

* `GlobalRefines` (`Spec => GlobalIsLimiter`): each step of the table is a step of `Limiter` or
  leaves its variables alone.  `GlobalTyped` gives the ranges; `NoneLost` says that `refused` and the
  requests in the global `Wait` are no more than have arrived, so that `MaxCancels` is never in the way.
* `ServedCorrect` (`ServedBound`, half of `RatesHold`) follows from it: `Proved` instantiates `LimiterProofs`
  with the refinement mapping, so that `RateCorrect` holds of the global bucket, and `GrantedFirst` counts
  requests inside the second half as granted but not yet served.
* `RatesCorrect` (`RatesHold`) adds the buckets of the addresses.  `Fit` is `Bounded` of `LimiterProofs` for each
  bucket ever made: its grants, its tokens and the requests whose timer on it fires by `x` fit in the burst and
  what was earned since it was made.  `Timed` says that no such timer is later than `last`.  `AtBucket` sums up
  what a step of a request does to a bucket, and each kind has its lemma (`FindsKept`, `TakesKept`, ...); nothing
  is assumed of the table, so a request that holds a forgotten or replaced bucket is covered.
* `ForgetsCorrect` (`ForgetsOnlyFull`): `Spared` says, of the entry about to be removed, what was seen when it was
  checked or has happened since; a bucket stored in between is full or used (`StoringFresh`: until it is stored it is
  full, and nobody else has it).  `FullAgain` turns a last access longer ago than `Expiry` into a full bucket.
* `BucketsCorrect` (`BucketsBounded`): `StoresCounted` adds the requests that have made a bucket and not
  stored it to those that have.

Assumptions: `RatesAssumption` (the global limit has a positive interval, 0 switches one of the others off), `BurstsAssumption`,
`RequestsAssumption` (finitely many goroutines), `MaxAssumption`, and `ExpiryAssumption` for `ForgetsCorrect` only.

`TTLCacheProofs`, for any keys and callers: `TypeCorrect`, `FreshCorrect` (`FreshKept`).  The sweep compares with
a clock it has read before it took the lock; `TypeOK` has `at <= now`, and so what was due then is due now.

`AutoRoleProofs`, for any members, roles, triggers, goroutines, requests and failures: `TypeCorrect`; `FiredCorrect` (`FiredWasServed`), where
`ServedFirst` adds that a goroutine about to record has assigned; `RoundsCorrect` (`RoundsBounded`), where
`RoundsCounted` counts, before the row, a round per goroutine that assigns, and after
it also those that had not seen it; `LeftoverCorrect` (`LeftoverBounded`), where `LeftCounted` bounds rows and writers from the
moment the first table is cleared: a writer that writes a row is one writer fewer.

`ReactionRolesProofs`, for any members, emojis, roles, goroutines, requests and failures: `TypeCorrect`; `ShownCorrect` (`ShownOrSpoiled`),
one emoji at a time (`Shown`: reaction, spoiled, or an add on its way); `SyncCorrect` (`InSync`).  For the last, a settled
pair is in one of three situations (`Sync`): `Agrees` (nothing under way, role and reaction go together), `Waits` (one event that says what
the reaction is), `Handled` (one goroutine, at a call that will make them agree).
`SyncSame` is the frame: a step that changes nothing of the pair leaves it in its situation.  `Typed` with
`Fits` (the locals each call needs) carries the others.

`FixCorrect` (`Spec => FixRestores`) follows a fix through its calls while `calm` says that nobody disturbs it.  It cannot be
said of the message alone what a fix has achieved so far: it works with rows, emojis, members and users read at
four moments, and what it removes starts goroutines that take roles while it goes on (`OnlyRemovals`).  `CalmInv` is
therefore about what the fix still remembers.  `Snapshot`: its rows are those of the table; `Knows`: it knows of the bot's
reactions; `Sorted`, with the members' roles as they were listed: each reaction on the message is one that has its
role, or is yet to be looked at (`Left`: by its emoji's page or in the rest of it), or its emoji is in `cut`; and who loses a role meanwhile
(`Leaving`) is not among those that keep a reaction.  When nothing is left, `Knows` and `Sorted` are `Tidy`.

`APIChainProofs`, for integers of any width, any numbers, unit and bodies an integer can count: `TypeCorrect`, `GuardCorrect` (`RoutesGuarded`),
`BodyCorrect` (`BodyWhole`), `LimitCorrect` (`LimitEnforced`), `LogCorrect` (`LogTellsAnswer`).  Each of `Guarded`, `OneId`, `Bodies`, `Logged`
says what holds in each layer, and a step takes it to the next.  `WrappedSmall`, `WrappedRange` and `ReadIs` are the
arithmetic: a sum that fits does not wrap, and what is read is the body or one byte more than the limit.

`DatabaseProofs`, of `Paging`, for any limits, number of rows and of faults: `TypeCorrect` (`TypeOK`), `WalkComplete` (`Complete`),
`WalkOnce` (`NoRepeats`).  A page is cut from a table that has moved since the last one, so the invariant is about
positions: the guilds before the offset that the walk is about are listed (`Kept`; an insertion only moves rows
back, `InsertRows`), the count is not too small unless a row came since (`Counted`), and while none comes no guild
from the offset on is listed (`InOrder`).  Both are about guilds that are `Alone`: in each order the query may
return, such a guild is in its own place (`AlonePage`).  `First` says that a walk starts with nothing, which makes
it right to take the rows behind the first offset at the first count (`Behind`) for those the walk is about.  For a list in any
order, `OrdersSeq` and `OfferedRows` show that one that fits into a page is in it.  `Delete` takes a row by its position, so that its effect
(`DeleteRows`) needs no recursive operator.

Of `Retry`, for any number of attempts and delays: `RetryTypeCorrect` (`RetryTypeOK`), `TransientCorrect`
(`TransientRetried`), `DelayCorrect` (`DelayBounded`), `PromiseKept` (`RetrySpec => KeepsPromise`): each step of `Retry` is a step
of `Statement` or a stutter, by `Answered` (an answer `ok` has its effect).  `DelayCorrect` needs that no power of two is
0; instead of an induction, which the prover cannot do, `PowerPositive` counts the subsets of `1..n`.
Assumptions: `AttemptsAssumption`, `DelaysAssumption`, `WidthAssumption`; `LimitsAssumption` for `Paging`.

Only model-checked is liveness (`JoinServed`, `EmptiedIsRemoved`, `ExpiredGo`, `StopEnds`, `IdleForgotten`, `Returns`, `WalkEnds`): liveness
under fairness and `ENABLED` are beyond the installed prover.

## 7. Not modelled

* `Manager.Wait` is two limiters in a row, and the wrapped session is used by the client only; `SetRate`:
  only `SetEndpointLimit` calls it, and nothing calls that.
* `handleChannelUpdate`, `resolveChannelName`: channel names, which no property is about.
* Lists (`handleList`, `GetGuild`, `GetGuildModule`): one read each.
* Texts: of headers, responses, audit events and log lines.
* Configuration and validation besides `parseSizeBytes`, `ParseQuery` and `SafeInt32`: one string in, one value out.
* Migrations, the connection pool, the purge-commands tool: run at the start or by hand.

The list of hazards in PROJECT.json names, for each, the line and the properties
that would catch it; those without a property say why.  Most of these are
things that the code neither prevents nor repairs, so that the property would be false: a property says
what holds nevertheless, or excludes the case by name.

## 8. What could come next

1. `ParentCache`: an atomic map with expiry as the abstract specification, `TTLCache`
   shown to implement it up to the delayed `Remove` of `Get`, and JoinToCreate on top of it.
