# goshort in TLA+

goshort is a self-hosted URL shortener written in Go: a service over one SQLite
file, an HTTP API, an MCP server for AI tools, a cache of redirect targets, a
command line client and a static website. These modules model the parts in which
something can go wrong between two steps, check them with TLC on small instances,
and prove with TLAPS what holds for every size. Sources are named relative to the
repository.

## The system

| Part | State | Operations | Talks to |
|---|---|---|---|
| SQLite storage (`internal/storage`, `db/`) | tables `urls` and `counter`, the sequence behind `AUTOINCREMENT` | one method per query of `db/queries.sql` | a pool of one connection: queries are serialised, pairs of queries are not atomic |
| Service (`internal/shortener`) | none of its own | Create, CreateBatch, GetByCode, List, Delete, Update, IncrementClicks | storage; encoder, preview fetcher and URL checker during Create |
| Cleanup job (`internal/storage/cleanup.go`) | a ticker | hourly `DeleteExpired`, 1000 rows at most | storage |
| HTTP handlers (`internal/api/handler.go`) | none | create, batch, public create, redirect, list, get, update, delete, QR | service; the cache; a goroutine per redirect that counts its click |
| Cache (`internal/cache`) | `short:<code>` with a deadline, in a `sync.Map` or in Redis | Get, Set, Delete; errors are logged and swallowed | handlers only |
| MCP server (`internal/mcp`) | sessions, which are the SDK's | tools for the service's methods, resources, prompts; over stdio, under `/mcp` of the HTTP server, or on a port of its own | the same service, not the cache |
| Rate limiter (`internal/api/middleware.go`) | map from IP to token bucket, under a mutex; one for the protected routes, one for the public endpoint | decide on a request; evict idle entries every five minutes | `x/time/rate` |
| Router and other middleware (`internal/api/router.go`, `internal/mcp/auth.go`) | none | CORS, API key, limiter, in an order that depends on the route | handlers, MCP |
| Preview fetcher (`internal/preview`) | none | fetch a page through a dialer of its own, read its title | DNS, any site |
| Safe Browsing checker (`internal/safebrowsing`) | none | check a URL, let it pass when in doubt | Google |
| Lifecycle (`cmd/server/main.go`, `internal/mcp/server.go`) | none | start, serve, on a signal shut down in at most ten seconds, close the store | everything above |
| Command line client (`cmd/cli`, `internal/cli`) | a configuration file | one request, waited for ten seconds | the HTTP API |
| Encoder, configuration, website | none that a request depends on | | |

What is hard about it:

* **Two queries are two steps.** Create checks an alias, fetches a web page, then
  inserts; Update computes a deadline, then writes it; List reads a page, then the
  total. Everything else happens in between.
* **The cache is filled and invalidated from different requests.** A redirect
  stores what it read some time ago; a delete or an update removes the entry after
  the row. MCP tools change rows and do not know of the cache. Redis fails
  quietly and survives the server.
* **A cancelled request is not an undone request.** When the client leaves while
  its statement runs, `database/sql` reports the cancellation, although the row is
  written or deleted; the handler then returns early.
* **Clicks are counted by goroutines** that outlive their request and may find the
  row deleted or made anew.
* **Everybody's patience is limited**: the checker's (2 s), the preview's (3 s), the
  server's (10 s to write an answer), the client's (10 s), the shutdown's (10 s). A
  signal comes in the middle, and so may the end of the process.
* **The web talks back.** A name resolves to another address than a moment ago, a
  site redirects, a page breaks off, the checker does not answer.
* **Time is kept in two precisions**: whole seconds of text in SQLite, nanoseconds
  in Go, with `<` on one side and `After` on the other.
* **Integers wrap**, in the hours of `expires_in` and in the offset of a page.

What makes each part correct: codes and ids are unique and a generated code is
never issued again; links are never redirected and only go when deleted or
expired; the cache answers what the database would; a click is counted once; a
client is throttled as if its bucket were there for ever; a walk through the list
loses nothing that is not deleted; who waits is answered, and truly; a shutdown ends
and leaves nobody behind who was patient; a stranger without the key costs its
holder nothing; a preview goes to public addresses only. `PROJECT.json` lists every hazard at its line
with the properties aimed at it.

## Modules

| Module | What it is |
|---|---|
| `Storage` | The tables, and one operator per query. The base of `Shortener` and `Listing`. |
| `Registry` | Abstract: what the service promises about links and generated codes. |
| `Shortener` | The service over the storage, with concurrent calls, the cleanup job, clock and restarts. Implements `Registry`. |
| `Server` | HTTP handlers and MCP tools over `Shortener` (an instance sharing its variables), with cache and click goroutines. |
| `Listing` | A client that walks through the pages while the table changes, over `Storage`. |
| `TokenBucket` | Abstract: a bucket per client that is there for ever. |
| `RateLimiter` | The middleware with its map, mutex and eviction. Implements `TokenBucket`. |
| `Front` | The router: the middleware of each route in order, with two instances of `RateLimiter`. |
| `ExpiresIn` | Validation and parsing of `expires_in` in wrapping integers. |
| `Intake` | What Create does before it stores: validators, checker, `ExpiresIn` (extended), preview. |
| `Lifecycle` | The process from start to exit, and what becomes of requests and clients. |
| `ShortenerProofs`, `ServerProofs`, `ListingProofs`, `ExpiresInProofs`, `IntakeProofs`, `LifecycleProofs`, `RateLimiterProofs`, `FrontProofs` | The theorems. |
| `MCShortener`, `MCServer`, `MCListing`, `MCFront`, `MCIntake`, `MCLifecycle` | Instances for TLC. |

### Storage and Shortener

`urls` is a set of rows, so that the uniqueness of `short_code` is the INSERT's
doing and not the shape of the data. A query is one step because the pool holds
one connection and every query is one statement (a second process on the same
file, as `-mcp` starts one, changes nothing: SQLite serialises statements). `pc[p]`
says which query goroutine `p` makes next; `call[p]` is what it carries from one to
the next, `res[p]` what it will return. What is not a query (validators, the
checker, the encoder, the preview) only decides how a call goes on, and belongs
to the step before or after. A batch is one goroutine that makes one Create after
another, which the model allows any goroutine to do.

`QueryFails` is a query that fails and writes nothing; `Answered` lets a query that
did write be reported as failed (`Cancel`). `Encode` is any injective function,
which is what Sqids promises. `Alias` is the set of codes `ValidateAlias` accepts:
it may overlap the generated ones, because `aliasRe` requires no hyphen. Times are
ticks, `Second` of them to a second of the database.

### Server

A handler's service call takes the steps of `Shortener`; before and after it the
handler takes steps of its own, a cache operation each. `held[p]` is what Redirect
keeps between reading its row and storing it. `cache[c]` has one entry per code
with its deadline. `Redis` chooses between the two drivers: Redis outlives a restart
and may fail on any operation, the in-process cache does neither. An entry may
vanish at any time (`Evict`): memory pressure in Redis, and in `MemoryCache.Get` the
deletion by key of an entry found expired, which may hit a newer one.

A redirect reads its row at one time, reckons a TTL at another (`cacheTTL` is
relative) and has it counted from a third, when the cache stores the entry. The clock
goes on between them, up to `Delay` ticks from the query to `cache.Set`; the code has
no such limit, so every bound on what the cache may answer has `Delay` in it.

### RateLimiter

Buckets are objects and an entry points to one, since a request asks the bucket it
found after the mutex is released, when the entry may be gone. A token is `Minute`
grains and a tick brings `RPM`, so that the refill is exact. `granted[c][a]` is a
history: how many requests of client `c` were let through in this tick and the `a`
before it.

### Listing

One walker, because readers do not disturb each other. The page is a set of rows:
the ids order it. The walk ends when the last answer says there are no more pages.
There are finitely many codes (`CodeAssumption`): their length is limited.

### ExpiresIn

`Half` stands for 2^63; `Wrap` is two's complement. Texts that are no number are
refused by both functions and left out.

### Front

A goroutine goes through the chain of its route: `auth`, `limit` (the lookup under
the mutex), `allow` (the bucket), `handle`. The two limiters are two copies of the
same variables, one by EXTENDS and one by INSTANCE, with the clock in common;
`FrontTypeOK` says that a goroutine holds a bucket only of its own route's. An
instance of the program has one configuration: `keyed` and `limited` are drawn at
the start. CORS decides nothing but that it answers a preflight itself. There is one
address in the run, since two addresses share a mutex and nothing else; the theorems
hold for any number.

### Intake

The steps of one Create up to its INSERT, in the order of `service_impl.go`, each
with what the outside may answer: the resolver one or two addresses, other ones at
every lookup; the site a redirect, a page or nothing; the checker a match, none, or
no answer. `Private` is the list `privateNets`, and "localhost" where it is a host.
A page is the sequence of its tokens: the loop of `parseHTMLMetadata` ends at a
`<body>`, at the end, or where a limit cuts the page off. A request without
`expires_in` is represented by the text `0h`, which is refused when it is a text;
so every other number is asked for once.

### Lifecycle

`main` is the main goroutine, in either of two modes: the HTTP server, where Shutdown
holds it up, and the MCP server on a port of its own, where ListenAndServe does. The
handler of a create loops over its items; a single create is a batch of one. Rows are
`<<client, item>>`, which is enough to say whether an answer is true; what a row is,
and what else can happen to it, is `Shortener`'s matter; that the clicks still waiting at
the end are lost is `Server`'s (`Restart`). External calls take ticks
up to their limits, queries and answers take none. `age` is counted from when the
request was read, by which `WriteTimeout` and the client's own timeout are measured;
the client's is a little longer ago in truth, by its way there. The context of a
request is cancelled when its client has left, sooner or later (`Notice`); the HTTP
server never cancels it otherwise, a shutdown included.

## Runs

| Run | Question | Bounds |
|---|---|---|
| `ShortenerSafety` | Do keys stay unique, are codes issued once, does the service implement the registry? | 2 goroutines that create and delete, 2 generated codes of which one is a legal alias, 2 URLs, 2 rows ever, lifetimes of 2 in 4 ticks (2 to a second), a cleanup batch of 1 |
| `ShortenerProgress` | Does every call return, does every expired row go, and none that a reader would still be given? | 1 goroutine with every kind of call, 2 codes, 2 URLs, 2 rows ever, batch of 1, 6 ticks |
| `ServerOneRequest` | With one HTTP request at a time and patient clients, is the cache always right, and how long does it answer with an expired URL? Is a click counted once? | 1 request at a time, any number of click goroutines, 2 rows of one code, lifetimes 2 and 4, cache 3, `Delay` 2, 5 ticks |
| `ServerSafety` | With everything that can go wrong, how long is an entry stale? | 2 requests at a time, MCP tools, failing Redis, cancelled clients, restarts, 2 rows of one alias, cache 2, `Delay` 1, 4 ticks |
| `Listing` | What can a walk miss or repeat? | 6 rows ever, 4 at a time, pages of 2 |
| `Front` | Does eviction show? How much gets through in a minute? Does the order of the middleware hold what its comment says? | 1 address, 2 requests at a time, 2 tokens a minute for the protected routes and 1 for the public one, 4 buckets each |
| `Intake` | Where does the preview go, which title and which lifetime are stored, does anything outside refuse a URL? | 1 name, 1 public and 1 private address, 2 redirects, pages of 4 tokens with 2 texts; every number of a 6-bit integer in both units |
| `Lifecycle` | Is everyone answered, truly, before the process ends? Does it end? | a client that waits 3 ticks and one that leaves at will; batches of 2; checker and preview 1 tick each; write timeout and grace 3 |
| `AliasCollision` | Fails: an alias is a later generated code. | |
| `AliasRace` | Fails: two creates of one alias, the second is answered 500. | |
| `RaceDelete` | Fails: a redirect fills the cache after the delete emptied it. | |
| `McpShutdown` | Fails: the MCP server on its own port ends under a request. | as `Lifecycle` |

Why the bounds are enough. A conflict over a code takes two creators, and both can
be between check and INSERT at once; a code reissued takes two draws of the
counter; a row in the way of another takes two rows; the cleanup job removes what
expired in an earlier second, so the clock goes two seconds beyond the start (4 ticks)
where a lifetime is 2, and 6 where an update may add one; a batch of one with two rows
leaves an expired row behind. A stale fill takes a redirect and a mutation; an alias
that is taken again while its old entry is cached takes two rows and two URLs; the
entry of a row that went at once is to be gone after a cache lifetime of 2 and a `Delay`
of 1, and the fourth tick is the first at which it could be found too long. A page boundary that slides takes three pages. Tokens of 2 with ticks of
half a minute show a burst, a refill and an overflow of the bucket. A name that
resolves to two addresses, one of them private, takes those two; a chain of
redirects that ends takes two; a title that is opened, closed and opened again takes
four tokens. A single create takes 2 ticks at most and fits into limits of 3, as 5
seconds fit into 10, and a batch of two (4 ticks) does not, as one of fifty does not.

`ServerOneRequest` deletes a code and takes it again too, while clicks of the first
link are still to be counted. What no run is large enough for is steady inflow: with two
rows ever, `ExpiredGoes` does not show that the batches of the cleanup job (`LIMIT`
without `ORDER BY`) keep up with rows that expire all the time.

### Fairness

`FairSpec` of `Shortener` asks for three things. A call that can continue does:
goroutines are scheduled and queries end (the driver reports failure or success).
The clock goes on. The cleanup job's query succeeds again and again, if it could
(strong fairness): the job's loop continues after a failure
(`cleanup.go:22-27`), and a database that refuses every query for ever is not
promised anything. Nothing is asked of clients.

`FairSpec` of `Lifecycle` asks that the main goroutine goes on where it is not
blocked, that handlers do, and that the clock does; that is what ends external calls,
which have limits, and Shutdown, which has its grace. Nothing makes a signal come or
a stream's client leave. `IntakeSpec` asks for one step after another: each is a
computation or a call with a limit.

### What the failing runs show

* **Aliases are not apart from generated codes.** The documents rest the claim that
  they never collide on hyphens, which `aliasRe` allows and does not require.
  `ApartNeverConflicts` proves that this is the only thing missing.
* **The loser of an alias race gets 500** instead of 409: the UNIQUE violation is not
  mapped to `ErrAliasTaken`. `LoneAliasAnswered` proves that the race is the only way
  to it: with no other creation of its code beside it, an alias in use is answered 409.
* **Stale fills**: a deleted URL is redirected to for up to a day. Three more ways
  lead to the same property's violation and are why `ServerOneRequest` leaves them
  out: an update racing the redirect (the old deadline is cached), `delete_url`
  and `update_url` of the MCP server (no invalidation at all), and a client that
  leaves while its DELETE runs (row gone, early return, and the repeated DELETE is
  answered 404 without touching the cache). `DeletedIsNotCached` proves that there is
  nothing else: without these the property holds, whatever else overlaps.
  `StaleBounded` is what is left to rely on with them: none outlives the change by more
  than a cache lifetime and the time its redirect was held up.
* **The MCP server on a port of its own waits for nobody.** `RunHTTP` returns with
  ListenAndServe, which is when Shutdown begins; the five seconds its goroutine
  allows are cut short by the end of the process, and a tool at work with them.

Met on the way, and no run's matter because no interleaving is needed:

* A PATCH without `expires_in` panics: the empty text is "none" to the validator,
  and Update's parser indexes it (`service_impl.go:216`). The model says so:
  `RefuseUpdate` has the result `"panic"`. net/http recovers and drops the connection;
  the metrics do not count the request.
* `n * 24` overflows before it is compared with the maximum (`validator.go:159`), so
  that some absurd numbers of days are accepted. The lifetime that comes out is
  within bounds all the same (`LifetimesAreBounded`).
* An expired URL can be served from the cache. `cacheTTL` (`handler.go:521`) reckons what
  is left of a lifetime, and the cache counts it from when the entry is stored
  (`memory.go:57`, `redis.go:62`), so the entry outlives the URL by the time in between,
  where `docs/DESIGN.md` says "TTL aligned to expiry". `ExpiredSoonUncached` is what holds:
  for no longer than that. A removal by the cleanup job leaves the entry as well.
* A token bucket lets up to twice its rate through within a minute
  (`BelowTwiceTheRate`, proved as `RateIsBounded`), where `router.go:35` speaks of 5 requests a minute.
* `requests_per_minute` is not validated (`config.go:132`): zero or less, with the
  limiter on, refuses every protected request. `RateAssumption` excludes it.
* `mcp` is no reserved path (`validator.go:25`) but `/mcp` is mounted
  (`main.go:125`): an alias `mcp` is created and never redirected to.
* With `-mcp-http`, a port that is taken ends the program with status 0
  (`main.go:85-88`); the HTTP server exits with 1. A program started as an MCP server does
  not run the cleanup job.
* The batch tool answers `internal_error` for a URL that the checker flagged
  (`tools.go:287-302`).
* Batches are documented with up to 100 URLs (`README.md:39`, `CHANGELOG.md:133`);
  the limit is 50 (`service_impl.go:168`).
* The resource `goshort://stats/summary` is documented as the top URLs by clicks
  (`docs/MCP.md:208`) and lists the newest five.
* `shortener.default_expiry` (`README.md:259`) is read and never used.

## Proofs

For every set of goroutines, codes, aliases and URLs, every injective encoder and
every length of the second, `ShortenerProofs` shows:

* `TypeCorrect`, `KeysAreUnique`, `GeneratedHandedOutOnce`, `RowsAreKept`, and
  `Refinement`: the service implements `Registry`;
* `ApartNeverConflicts`: if no alias is a generated code, no INSERT of a generated
  code conflicts;
* `LoneAliasAnswered`: an alias in use is answered as such as long as no creation with
  it runs beside another of the same code.

`UniqueKeys` and `GeneratedOnce` are not inductive. The invariant that is has four
parts. `TypeInv` adds to the types that a call past its first step carries a code
and a URL. `Keys` adds that no id exceeds `lastId`. `Codes` is the argument for
generated codes: every code made so far encodes a number the counter has passed; a
code that is drawn and not yet inserted also does, is in no creation yet, and is in
the hands of one goroutine only. That survives an INSERT that fails (the number is
lost, never returned) and a restart (the counter is in the database). `Apart` is
needed for `ApartNeverConflicts` alone: rows under generated codes were generated;
and `StillFree` for `LoneAliasAnswered`: an alias that was found free is free until its
INSERT, since only an INSERT of the same code takes it.

`RowsAreKept` needs one fact of arithmetic: a time cut to whole seconds is not later
than the time, so that `expires < WholeSeconds(now)` of the cleanup job implies
`now > expires` of GetByCode.

`ServerProofs`: every step of `Server` is a step of `Shortener` or leaves its
variables alone (`ServesTheService`), so that the service's theorems hold behind the
handlers and tools: `ServerImplementsRegistry` and `ServerKeepsRows` say so of two of
them. What the handlers add rests on one invariant, `Inv`: the service's own, the types
of entries and histories (`Tables`), and of each goroutine that what it holds fits its
handler (`Shape`, `Paired`). Lemmas tell what one step can do to a row, an entry, an
answer in hand and a fill on its way (`RowFate`, `EntryFate`, `AnswerFate`,
`FillFate`), so that each theorem looks at fates and not at two dozen actions:

* `ClicksAreBounded`: a row's clicks and those still to be counted are no more than
  the redirects answered for its code. Clicks may wait for a code that has lost its row
  and be counted on the next, so the invariant bounds them where there is no row as
  well (`ClicksInv`).
* `StalenessIsBounded`, with the races, MCP tools, Redis and cut-off clients. An entry,
  an answer or a fill that the table does not bear out ends within a cache lifetime and
  `Delay` of the change (`Recent`); for that, a fill is never later than `Delay` after its
  query (`Timely`).
* `GeneratedLeadsToItsURL`: a URL in a row, an answer, a fill or the cache was created
  under the code beside it (`Sourced`), and a generated code that is no alias is
  created once. A run that shows it takes two generated codes and two requests at a time,
  beside the rest of `ServerSafety` too many states; it is proved only.
* `DeletedIsNotCached` and `ExpiredIsSoonUncached`. What is cached, answered or on its way
  is borne by the table until `Delay` before its end, or its row was removed by the
  cleanup job no more than `Delay` ago, or its deletion from the cache is pending
  (`Exact`). That is not so in general, so the theorems have premises: no redirect runs
  beside a mutation of its code (`NoOverlap`), no mutation comes by MCP, the cache is the
  in-process one, and no client is cut off. `ServerOneRequest` satisfies them all; each is
  one of the four ways to a stale fill above, except that Redis may also fail to delete.

`ListingProofs`, for pages and tables of any size: `FewAreMissed`, a walk misses at most
as many of the rows that were there all the time as were deleted meanwhile, and
`FewAreRepeated`, it comes by rows again at most as often as rows were inserted. The
rank of a row is the number of newer ones. An insertion moves every row one rank away
and a deletion moves older ones one rank towards the start (`InsertMoves`,
`RemoveMoves`); as no two rows share a rank, either carries at most one over the point
the walk has reached. The invariant settles that account: `Again` and `Skipped` hold
at every point of the walk, `Walk` and `Rows` say what has been read. The handler and
the tool compute the number of pages differently; both mean the same last page
(`LastPage`).

`ExpiresInProofs`: for every width, hour and day length, a granted lifetime is
within bounds, and a text within bounds is granted exactly. The invariant is that
the hours that were judged are the hours that make the duration, both after
wrapping around.

`IntakeProofs`: the same on the whole way of a Create (`IntakeLifetimes`: every step
of `Intake` is one of `ExpiresIn` or leaves its variables alone);
`PreviewStaysPublic`, for any resolver and any number of redirects, because a
connection is made to the very address that was checked and dropped before the host
changes; `TitlesAreRight`, for pages of any length. Its invariant says after every
token what the loop has found so far, and that it knows whether it is within a title.
`TypesCorrect` bounds redirects and tokens and says that connections are to addresses.

`LifecycleProofs`, for any number of clients, any size of a batch, and any limits of
which checker's and preview's add up to less than each of the others:

* `AnswersAreExact`: what is reported is what is in the table. The invariant (`Calls`
  and `Exact`) says that of every client that has not left, also while its batch is
  at work, and that only who has left has a cancelled context.
* `PatientAreAnswered` and `LossesAreLate`, of the HTTP server. The invariant adds
  that before the store is closed every request has ended or the grace is used up
  (`Drains`, `Ports`), and for a single create how old it can be at each of its
  steps: the time its present call has taken and those before it (`Times`).

`RateLimiterProofs`, for any number of clients, goroutines and tokens, and any times
that satisfy `IdleAssumption`: `EvictionIsInvisible`, the refinement of `TokenBucket`.
The invariant says that no two clients share a bucket (`Apart`), that the entry a
request found is still there when it asks the bucket (`Kept`), and that an entry
unseen for longer than `Pause` has a bucket that has been filling since (`Filled`).
An entry that goes is unseen for longer than a request can take and a bucket needs to
fill, so that it goes with a full bucket, as its successor begins with one.
`RateIsBounded`: a client gets through less often than twice its rate in any minute,
through evictions too. Its invariant (`Paid`) is an account for every stretch of ticks up
to a minute: what was let through in it and what is left are no more than a bucket and
the refill of these ticks.

`FrontProofs`: every step of the router is a step of the limiter of the protected routes
or leaves it alone, so that its theorems hold there (`ProtectedEvictions`,
`RatesAreBounded`); the limiter of the public endpoint is the same module and needs no
theorems of its own. `KeysDecide` and `StrangersAreFree` rest on where a goroutine can be
on its route and what that says of its key (`RouteInv`), `TypesCorrect` on that and on
whose bucket it holds (`Carried`, `PublicCarried`).

Only model-checked: liveness under fairness (`CallsReturn`, `ExpiredGoes`,
`OutsideNeverRefuses`, `Exits`), which is out of the prover's reach. None of the
theorems uses fairness.

## Not modelled

Which texts are URLs and aliases (what a host is and which hosts are refused is in
`Intake`); the Sqids algorithm; the description of a page, chosen as its title is; QR
codes; metrics and logs; the MCP transport, its resources and prompts, which only
read, and its stdio mode, which ends with its input; opening and migrating the
database; configuration, merged by a library and read once at start; the commands and
the output of the CLI; the website. They keep no state that another step reads, or
decide no more than whether a call goes on. `Redis` unavailable at start means no
cache at all (`cache.Build`), a server that never fills it. The two steps of
`MemoryCache.Get` on an entry found expired are folded into `Evict` of `Server`, which
may take an entry at any time.

Bounds in the guards (`MaxId`, `MaxCounter`, `MaxClicks`, `MaxTime`, `MaxServed`,
`MaxTokens`) cap counters that the program does not. `Pause` of `RateLimiter` is an
assumption: from lookup to Allow a request takes less than the ten minutes after which its entry may
go, by at least the minute in which a bucket fills (`IdleAssumption`). `Delay` of `Server` is
the time a redirect takes from its query to its `cache.Set`; any number will do, and the
bounds on the cache grow with it.

## Plan

1. Storage, Shortener, Registry, Server, RateLimiter, ExpiresIn, Listing: done.
2. Lifecycle, Intake, Front: done.
3. Proofs of every invariant and action property that a run checks: done, the cache's
   under the premises they need.
4. `MemoryCache` on its own, shown to implement a cache that may forget.
