# FloodPulse: a TLA+ verification project

FloodPulse (`src/`) shows flood risk, shelters and official warnings for
Karnataka, takes private citizen reports, and lets an administrator send alerts
through Telegram. This directory holds TLA+ models of the parts whose
correctness depends on the order of events, the TLC runs that check them, and
TLAPS proofs about them. `PROJECT.json` lists components, runs, mutants,
hazards, findings, theorems and, under `map`, the lines each definition stands
for.

## 1. The system

One FastAPI process (`backend/app/main.py`) serves all requests. Synchronous
endpoints, and the calls handed to `run_in_threadpool`, run in a thread pool, so
every store below is used by several threads at once; asynchronous endpoints
interleave at each `await`. Durable state is in PostgreSQL (READ COMMITTED
transactions, `FOR UPDATE` rows and transaction-level advisory locks), the rest
in memory, lost on a restart. Nothing runs in the background. Around it stand
Telegram, the weather, river, warning, routing and place-name providers, the
pages in citizens' and administrators' browsers, and a launcher that starts and
stops the processes.

| Component | State | Operations | Hard because | Correct when |
|---|---|---|---|---|
| Alert consent (`telegram_subscriptions.py`, `district_alerts.py`) | operator opt-ins; subscribers, their districts, append-only audit | `intake`, `operator`, `handle`, `recipients`, `forget_blocked` | Telegram repeats and reorders updates; a broadcast deletes rows without the lock commands take; restarts in another mode | only a later command moves a consent; the chat ID goes with the last district; the audit explains the state; demonstration stays private |
| Notifications (`notifications.py`) | message rows, deliveries, send budget | `create`, `claim`, `send`, `delivery`, `finish` | repeated approvals, dead threads, shelter, configuration and consent changing between review and dispatch | at most once per recipient; a settled message accounts for everybody; reviewed content only; budget kept |
| Citizen reports (`reports.py`) | reports with position, photos, audit, attempt windows | `submit`, `review`, `photo`, `withdraw`, `purge`, `reserve` | resubmission, stale moderation pages, two retention limits, opposite lock orders | one content per receipt; the audit trail is a chain; nothing removed returns; every preview is audited |
| Shelters (`shelters.py`) | shelter rows, audit | `save`, `rows`, `history` | two administrators editing, verification that expires, time taken before the lock | the public list is what was last verified; the history is in order |
| Sessions and attempts (`shelters.py`, `reports.py`) | sessions, windows of attempts, a password | `login`, `session`, `logout`, `reserve`, reset | windows turning while requests wait, resets while a password is hashed | limits kept; a session is earned and ends |
| Connection pool (`location_database.py`) | five connections | all stores | a claim needs a second connection while holding one and the message's row | every wait ends; nothing checked out is lost |
| Risk screen (`risk.py`) | three caches, locks, heights, river levels in memory and in a file | `grid`, `area`, `point` | awaits between reading and filling caches, retries, partial failures, a torn file | nothing served longer than it says; what is missing is admitted |
| River forecast (`river_forecast.py`, `river_flood_model.py`) | one cached forecast | `forecast` | two sources, malformed answers, the choice of a week's peak | no warning lost; nothing made up |
| Official warnings (`official.py`) | three caches, a cache of messages | `warnings`, `statewide` | one lock for all, partial failures, bounded feeds, midnight | no cancelled warning shown; days dated by the answer |
| Place names (`admin_place.py`, `location_address.py`, `home_geocoding.py`) | caches, queues, call times, budget | `nominatim`, `resolve` | one call at a time, second lookups, cool-downs while others wait | providers spared; an address as precise as the location |
| Limits (`rate_limit.py`, `routing.py`) | sliding windows, daily quota | `check`, `take` | eviction at capacity, window and day edges | limits kept for tracked addresses |
| Weather (`weather.py`, `location_weather.py`, `rainfall_outlook.py`) | none | one call each | the hour, day and week may turn during a call | days and hours are those of the reading |
| Location directory (`locations.py`, `location_database.py`) | two files, immutable versions, the active one | import, activation, `load` | files replaced and versions activated while they are read | readers see one version, whole |
| Launcher, webhook (`scripts/full_launcher.py`, `launcher_processes.py`, `app_launcher.sh`) | processes, receipts, ports, registered webhook | start, recover, watch, stop, register | crashes at each step, orphans, lost answers | nothing left behind, one generation |
| Webhook proxy (`scripts/telegram_webhook_proxy.py`) | places, connections with a timer each | handle, expire | a timer in another thread closes sockets it may not know yet | places given back; no handler blocked for ever |
| Set-up and upgrade (`scripts/upgrade_database.py`, `setup_admin.py`, `backend/app/mvp_database.py`) | schema, grants, account | upgrade, check, set-up | two runs, a crash between transactions | what is reported is so |
| Page logic (`frontend/src/use*.js`) | page state, timers, requests under way | fetch, refresh, resubmit | late answers | only the newest answer is shown |

Components without state of their own (photo conversion, static evidence, error
collection, offline training) and the page logic are not modelled; `PROJECT.json`
lists each with the reason.

How they meet: a broadcast reads its recipients from the consent store and
deletes those who blocked the bot; a message may carry a shelter's public
record, read on a second connection of the pool; notifications, reports and
shelters share the administrators' sessions, one engine and one `mode()` (live
or demonstration); the risk screen and routing count approved reports; citizens'
and administrators' place lookups share one queue; the launcher registers the
proxy's address as Telegram's webhook. The other services share only the process
and the clock.

## 2. Modules

| Module | Models | Abstract specification |
|---|---|---|
| `DistrictSubscriptions` | consent for alerts, with Telegram's queue, webhook threads, the broadcast as far as it meets consent | `ConsentLedger` |
| `Notifications` | preview, approval, budget, dispatch and outcome of messages | `Dispatch` |
| `CitizenReports` | submission, moderation, photo previews, withdrawal, retention | `ReportLife` |
| `ShelterRecords` | saves of shelters, their verification and history, the public list | `ShelterOffer` |
| `OfficialWarnings`, `DistrictWarnings` | requests, lock, caches and partial failures of the official sources; the days of district bulletins and the notices suggested from them | |
| `Launcher` on `WebhookRegistration` | the processes of a checkout under both launchers; the bot's one webhook | |
| `RiskScreen` on `RiskScores` | grid, area and point with their caches, locks and retries; the scores as operators | |
| `RiverForecast` | the cached forecast, its peak and level, the trained model beside it | |
| `Accounts` | sign-ins, sessions, password resets, attempt windows | |
| `ConnectionPool` | the pool under claims that take two connections | |
| `PublicLimits`, `PlaceLookup`, `ReverseGeocoding`, `WeatherFeeds` | limits and calls of other providers | |
| `LocationDirectory`, `Maintenance` | directory versions; schema, grants and accounts | |
| `WebhookProxy` | connections of the ingress, with handler and timer of each | |
| `Services` | the services that share nothing but the process and the clock, one scene each | |
| `*_proofs` | theorems about the module of that name; `Services_proofs` about all scenes of `Services` | |
| `MC*` | values for TLC | |

### DistrictSubscriptions

`optin` is `telegram_subscriptions`, `subscriber`, `districts` and `audit` are
the three district tables, `pending` what Telegram keeps until it gets HTTP 200.
`Receive` is `intake` up to its first transaction, `MaxAge` the day after which
it ignores a command; `Operator` the operator transaction. `handle` is one
transaction of several statements, and `forget_blocked` takes no advisory lock,
so it is split wherever the refusal can commit in between: `ReadLog` (mode,
advisory lock, log), `ReadRow` (subscriber), then either `HandleWrite`, which
locks what it changes until the commit (`ForeignKeyFails` is what the database
may answer), or, for a subscription to a district already held,
`WriteNothing`: no row is updated and `ON CONFLICT DO NOTHING` inserts none, so
nothing is locked, and `Commit` may find the rows gone. `Answer` is the HTTP
200; `Fail` a 503, a lost answer or a killed thread. `Claim`, `Contact` and `Forget`
are the broadcast's meetings with consent. Update identifiers grow within a
second only and may be reseeded, and message dates have whole seconds while the
server clock has not, as the ordering by `(command_at, update_id)` presupposes.
Malformed updates, which get 422, are left out.

### Notifications

`note` is `admin_notifications` together with `district_notifications`,
`deliveries` `telegram_district_deliveries`, `bucket` the budget row. `create`
is `Preview` (configuration and shelter read outside the transaction) and
`Draft`; `claim` is `Approve` (row locked, checked, recipients fixed), `Stamp`
(shelter read on another connection, time taken), `Look` (advisory lock, budget
row looked up) and `Commit` (count, commit): the wait for the lock lies between
time and count, and between the lookup and the update a sign-in, which holds
another lock, may delete the row as older than `Hour` (`Purge`,
`shelters.py:100`), so that the update counts nothing. As in `Accounts`, a claim
that cannot be counted within `Patience`, the time-outs of the pool and of a
statement, fails. `send` is `Hand`, `Record` and `Finish`, each its own commit.
`handed` counts what Telegram was asked, `missed` keeps the claims not
counted and `dead` those whose thread died; all three are history variables. `Fail` may end a request at
every step and nothing resumes it.

### CitizenReports

`report` is `citizen_reports` with its position row, `photo` the image row as
its expiry, `trail` and `views` the audit rows of transitions and of previews.
`Submit` and `Review` are one locked transaction each. `withdraw` locks the
report and then deletes the photo, `purge` deletes photos and then locks
reports: they are split there, and `BreakDeadlock` is PostgreSQL's answer when
they wait for each other. `View`, `ViewAudit` and `Serve` are the three steps of
`photo`; its audit row refers to the report and so waits for the report's lock.
`wire` keeps every submission sent, so that copies may arrive at any time. A
review is asked for from any revision that some page may have shown.

### ShelterRecords

`shelter` is a row of `emergency_shelters`, `trail` its rows of `shelter_audit`.
`save` takes its time and the page's revision (`Begin`), waits for the row and
compares (`Lock`), and writes row and audit entry in one commit (`Update`);
a new shelter is written at once (`Create`). A request refers to any revision the
row has had, so pages may be out of date by any number of saves, also across
restarts in the other mode. The four confirmations of the form are one Boolean,
and of the facts only whether they leave room is kept. What `rows` lists is the
operator `Listed`; `Offer` shows it to the abstract `ShelterOffer`.

### OfficialWarnings

`queue` is the service's `asyncio.Lock` with its holder first; `cache` holds
`imd_cache`, `nowcast_cache` and `rss_cache`, `read` is `cap_cache`. `Start` is
what the holder does before its first `await`; each call that ends is a step of
its own (`ReadBulletin`, `ReadFeed`, `ReadMessage`), in any order between the
sources, with success or failure; `Serve` releases the lock, and `Answer` is what
the request is then told. Bulletins are their time of issue, messages say what
they cancel and when they expire, if they do: an alert without a readable expiry
(`None`) is dropped without a word, and one whose expiry has no zone
(`Zoneless`) makes the whole request fail, as comparing the two kinds of time
raises a `TypeError`. It is assumed that the feed lists the newest message first
and that a message never changes under its link. A bulletin is read as of the
end of its call.

`DistrictWarnings` takes up where that module stops: one district's bulletin is
kept for a while and midnight may pass meanwhile, so `karnataka_districts` counts
the days when the answer is given and `official_suggestions` picks today's and
tomorrow's. The lock is in `OfficialWarnings`; the server's clock is not behind
IMD's.

### Launcher and WebhookRegistration

A process is a role and a run; `alive`, `parent`, `doomed` and `up` are what the
kernel knows, `receipt` the two files on disk, `at` what each launcher is doing.
`Launch`, `Lock`, `Recover` and `Check` come before anything is started;
`StartLeader`, `Record`, `Proceed`, `StartService` and `Serving` are the starts;
`Cease` is any reason to stop, `Grace`, `Kill`, `Abandon` and `Finish` the stop.
`Die` may hit any process at any step, `Reboot` all of them; orphans go to the
next subreaper above. A worker carries no mark of its run and is found by
ancestry only. Registration (`Inspect`, `Set`, `Verify`, `Registered`) may lose
the answer of `setWebhook`. The server registers itself (`Elsewhere`) but not
between a launcher's inspection and its change, which
`docs/FULL_SYSTEM_LAUNCHER.md:110` asks of operators. Who holds a port listens at
once, and the end of a stop (`Finish`) frees the ports of the whole target,
the proxy's too. Permission checks, reading of configuration and `--check` change
nothing and are left out.

### Risk screen, river forecast, weather

`RiskScores` is the scoring of `risk.py` as operators over readings: a reading is
a set, empty when the source could not be read. `RiskScreen` is `RiskService`:
`Ask` joins the key's lock, `Cached` serves, `Begin` reads the sources, one call
of a cell standing for one chunk, in the order of the list; `Fail` and `Wake` are
a failed attempt and its pause, `Ground` the step from rain to elevation and river, `RiverLevels` and
`Unwritable` the levels fitted once and kept in a file that a crash may tear.
Database reads take no time. `RiverForecast` keeps of a day the share of runs
above each level; a malformed answer of the rain source is an `AttributeError`
that nobody catches (`Malformed`). In `WeatherFeeds` each request is one call
whose answer is judged by the hour of its arrival.

### Accounts, limits, places

`Accounts` takes the time of a request (`Come`) before the lock under which it is
counted. Sign-ins and reports share the table of windows but not the lock: a
sign-in (`CountSignIn`) purges the rows of all keys that are older than an hour
and counts under one, a report looks its two rows up (`SelectTotal`,
`SelectAddress`) and updates them (`CountReport`) under another. A row purged
in between is not counted, and `missed` remembers the report. Hashing behind its
gate lies outside both transactions, so a reset may come in between (`overtaken`
remembers whom it found under way). That a sign-in may also delete the row of the
account between another's lookup and update is left out: nothing is claimed of the
limit of an account. One account is
modelled; using a session is one transaction. A request that cannot be counted within
`Patience` (the time-outs of the pool and of a statement, five seconds each,
`location_database.py:68`) is answered with 503 (`Unavailable`); were it to wait for ever, a sign-in in a later window could purge the
row of its own and the limit start again. `PublicLimits` is `rate_limit.py`
with its bound on tracked keys and the daily quota behind it. `PlaceLookup` is the
lookup that citizens and administrators share, `ReverseGeocoding` MapTiler behind
its budget: `calls` keeps of the queue of call times one time for each job, which
stands for the two calls reserved with it, since no two jobs begin at once.
`ConnectionPool` follows a claim from its first connection to its commit; each
wait of the model stands for the statements made at that point, and other
transactions, which take one connection, appear as claims of a message without a
shelter.

### Directory, database, proxy

`LocationDirectory` reads both files twice, as an import does, while `Replace`
changes them, and gives readers the snapshot of their transaction. `Maintenance`
runs upgrades and set-ups side by side, each broken off anywhere; one username,
tables as what each migration adds. A grant made by hand exists only from before;
the scripts for the server's machine are left out. `provision` is atomic: its race
for the unique name ends in one account and one error. `WebhookProxy` interleaves
each handler with its timer, whose mark and whose closing of sockets are two
steps.

## 3. Runs

Every run lets threads interleave at the split points and, unless it says
otherwise, fail at each of them. Deadlock checking is off because the bounded
behaviours end when the bounds are used up.

| Run | Bounds | Shows |
|---|---|---|
| `DistrictBroadcast` | 1 person, 2 districts, 2 threads, 2 commands, broadcasts, 3 half-seconds | chat ID, opt-out, `ConsentLedger` and an audit that replays to the state but for what a refusal took from under a re-subscription, against repeated and reordered commands and a broadcast's deletions |
| `OperatorConsent` | 2 people, 1 an operator and test chat, 2 threads, both modes, 2 commands, fairness | demonstration stays private; operator opt-ins follow `ConsentLedger`; commands are answered once failures cease |
| `StopIsFinal` | 1 person, 2 commands, 1 thread | *violation*, section 6 |
| `Broadcast` | 1 administrator, broadcast with a shelter and direct message, 2 recipients, 2 threads, 2 configurations, fairness | shape, at most once, complete when settled, only reviewed content, `Dispatch`, a claimed message is settled unless its thread dies |
| `Budget` | 1 administrator, 3 direct messages, 1 thread, limit 1, window 1, rows kept for 2, a wait of 1, the clock to 4 | the budget is kept, but for one attempt whose row a sign-in purged |
| `BudgetRace` | 2 administrators, direct messages, limit 1, 2 threads | *violation*, section 6 |
| `Reports` | 1 report, 2 contents, both modes, 2 threads, 2 days, 2 submissions, 1 preview, fairness | audit chain, honest receipts, audited previews, `ReportLife` with the other mode left alone, erasures that end although they lock in opposite orders |
| `Shelters` | 1 shelter, 2 administrators, 2 threads, both modes, 3 revisions, 1 hour | shape, audit chain, history in order, the verifier named, `ShelterOffer` |
| `Official` | 2 requests, 1 bulletin source and the feed, an alert and its Cancel, an alert without expiry and one without zone, lists of 2, 2 units of time | sources asked sparingly, fresh answers, no gap but those said |
| `NothingDropped` | the same with 1 request | *violation*, section 6 |
| `Launch` | 2 runs, the first with Telegram, the second the application alone or with Telegram; the backend's port contested; fairness | what dies leaves a launcher or a receipt, no two generations live, a clean exit leaves nothing, a foreign webhook is kept, stops end |
| `Services` | the other services, one scene each, below | each service's property |

`Services` holds the services that share nothing but the process and the clock. A
scene is chosen at the start and only its service moves: exploring independent
services together would multiply their states and show nothing more. Each
property is asked in its own scene.

| Scene | Bounds | Property |
|---|---|---|
| `grid`, `area`, `point` | three cells and one request, two cells and one request, one cell and two requests; 2 attempts with a pause of 1, bodies live 3, partial ones 2, failed ones 1 | `ServedInTime`, `ProvidersSpared`, `NothingMadeUp` |
| `river` | 2 requests, 2 rivers, one trained, 5 weeks | `NothingMadeUp` |
| `feeds` | days of 2 hours, weeks of 2 days, a window of 2 hours | `NothingMadeUp` |
| `bulletin` | days of 3 units, 3 bulletins of up to three days, a cache of 2 units | `NothingMadeUp` |
| `public` | 2 addresses, 2 tracked keys, 1 or 2 requests a window, 5 requests, 1 route a day | `LimitsKept` |
| `accounts` | 3 requests, one reset, windows and sessions of 2, a wait of 1, rows kept for 6 and the oldest of them there at the start, the clock to 2 | `LimitsKept`, `SessionsEarned` |
| `places`, `geocoding` | 2 requests, a cache of 2 and 1, an interval of 2, one citizen waiting; a budget of 3 an hour | `ProvidersSpared`, `NothingMadeUp` |
| `proxy`, `pool` | 3 connections on 2 places; 3 claims, 2 messages of which one names a shelter, 2 connections, time-outs of 1 | `SlotsKept` |
| `directory` | 2 imports, 4 contents of 2 versions | `DirectoryWhole` |
| `database` | 2 upgrades, 2 set-ups | `MaintenanceHonest` |

In the scenes of the risk screen calls take no countable time and pauses one unit,
which keeps the order of everything and shortens the clock; only one request
at a time asks for the grid or an area, since the locks, which are alike, are
explored with two in the scene of the point. The clock of each scene goes far
enough for an answer to be read as slowly as can be, to be kept and to expire. Requests `r1` and `r2` are
symmetric; no constant and no bound tells them apart.

Why these bounds are enough: the conflicts the code guards against are between
two threads over one row, so two threads and one row of each kind produce each
of them; two commands are needed for an older one to arrive after a newer one,
and each may be delivered any number of times; two recipients for one that fails
before another; two days for a report to pass both limits (a photo lives one day
and a report two, in the code seven and thirty); three revisions for an edit that
was overtaken and one that builds on the overtaking one; one tick beyond a
window, a verification's life or a cache's life to pass it; three messages for a
list of two to be cut; two runs of the launcher for one to recover what the other
left; three claims on two connections for one to find the pool used up by two that
wait for each other. `Budget` uses one thread because
`BudgetKept` does not hold for two (`BudgetRace`). That a message which is not Actual
is never shown is left to the proof.

Fairness. `FairSpec` of `DistrictSubscriptions` asks weak fairness of webhook
steps: Telegram keeps delivering what was not answered, and threads run.
`FairSpec` of `Notifications` asks it of threads that serve a request; one may still
die at any step, and `dead` remembers the message that it leaves, since by design
nothing resumes one. `FairSpec` of `CitizenReports` asks strong
fairness of a waiting thread, because PostgreSQL grants a row's lock in the
order it was asked for, and weak fairness of the deadlock detector, which always
runs. `FairSpec` of `Launcher` asks weak fairness of launchers that stop and of the
end of killed processes: their loops poll, and SIGKILL cannot be ignored. No
fairness is asked of people, clocks or failures.

The type invariants that a run checks are those of `Notifications` and
`ShelterRecords`. `TypeOK` of the other modules states their shape for the reader;
`INVARIANT TypeOK` in their `.cfg` checks it.

Each property of a passing run has a mutant in `PROJECT.json`: a definition with
a plausible error (a dropped lock, guard, cascade or audit row), under which the
run finds the property violated.

## 4. Proofs

Each proof module states an inductive invariant `IInv`, one lemma for each action
that disturbs it, and theorems that follow. All results hold for every value of
the constants that the named assumptions of the module allow: finitely many
people or threads where they are counted, positive windows and lifetimes, and
that `None` and its like are not rows of a table.

`Notifications_proofs` (`NotificationAssumption`):

- `TypeCorrect`, `SentOnce` (`AtMostOnce`), `KeepsDispatch` (`DispatchKept`, the
  refinement of `Dispatch`), `BroadcastsComplete` (`SettledIsComplete`) and
  `SendsWhatWasReviewed` (`ReviewIsFresh`).

`AtMostOnce` is not inductive: that nobody is handed a message twice needs that
only one thread serves a claimed message, that a thread's remaining targets were
not handed anything, and that an unclaimed message was handed to nobody.
`IInv` adds these as `ClaimStands` and its companions; `DispatchStep` maps each
action to `Move`, `Hand` or a stutter. The proof rests on the row lock
(`RowLocked`) and the conditional update (`Unclaimed`), not on the budget lock.
`BroadcastInv` adds what a thread has computed at each point (`Sane`) and what
the delivery rows say at each status (`Kept`): a settled broadcast has a row for
each recipient of its claim and was handed to nobody else, and its status is the
outcome of those rows.

- `BudgetKeptByOne` (`BudgetKept`, for one thread).

A claim belongs to the window of the time it took before the lock. With one thread
claims are committed in the order of their times: nothing was claimed in a window
after the one that is counted, and that one began no later than the present window
and than a claim under way (`BudgetInv`). Two threads break exactly this order
(`BudgetRace`). A row that is purged was begun before the window of any claim under
way, because `Patience + Window <= Hour`; so the claim that misses it is the first of
its window, and since no window has a row then, the next one begins anew. That is why
a window has one uncounted attempt and no more.

`ShelterRecords_proofs` (`ShelterAssumption`, `NoneIsNoRow`):

- `TypeCorrect`, `TrailHolds` (`TrailIsChain`), `HistoryHolds` (`HistoryInOrder`),
  `VerifierHolds` (`VerifierNamed`) and `KeepsOffer` (`OfferKept`, the refinement of
  `ShelterOffer`).

That the history is in order is the least obvious: a save takes its time before
it waits, and nothing compares times. It holds because a request from a page
that shows revision *n* began after revision *n* was committed (`PageShown`),
no entry is later than the present (`NothingAhead`), and the row must still have
revision *n* when it is locked and until it is written (`LockHeld`). Without the
comparison of revisions the history, and with it the promise that the latest
decision counts, is lost: the mutant of `HistoryInOrder` is exactly that.
`EntriesVerify` says what every audit entry tells about its verification; it
carries `VerifierNamed` through closing and links the row to the time of the
latest decision in the refinement.

`CitizenReports_proofs` (`ReportAssumption`, `NoneAssumption`):

- `TypeCorrect`, `AuditExplains` (`TrailIsChain`), `ReceiptsTrue` (`ReceiptsHonest`),
  `KeepsLife` (`LifeKept`, the refinement of `ReportLife` with the other mode left
  alone) and, for finitely many threads, `ViewsCounted` (`ServedAreAudited`).

A withdrawal and a purge are two steps each, so `IInv` says what a thread
remembers in between: the row of a withdrawal is still the row, since it holds
its lock (`Alone`), and a purge deletes photos of the running mode only
(`Minds`). `Whole` ties state, revision and private data together, which is what
lets every step be mapped to one of a report's life. Previews are counted against
the audit with the threads that have written their entry and not served yet
(`Audited`).

`DistrictSubscriptions_proofs` (`ConsentAssumption`):

- `ChatIdKeptWhileNeeded`, `OptOutDecides` (`OptOutHolds`), `DemonstrationStaysPrivate`,
  `ConsentIsLogged`, `AuditIsReplayed` (`AuditReplays`), and the refinements of
  `ConsentLedger` by the district tables (`DistrictsImplementLedger`) and by the
  operators' opt-ins (`OptInsImplementLedger`).

The heart is the gaps between the statements of `handle`, in which a broadcast may
delete the rows and log it. `Fresh` says what a thread may still rely on: its
command is newer than every command in the log, and a subscriber it did not find
is still missing. A write then either carries the newest entry or only takes
something away (`WriteConsistent`). A thread that found everything in place and
locked nothing commits its entry over rows that are there, or that a refusal took
away, whose entry is then the last of the log (`Found`): the log then ends with a
subscription to nothing. `ConsentIsLogged` and `AuditIsReplayed` are stated with
exactly this case, `Lost`, and no other. The ledgers are read off the log and the
commands sent; `Applied` has a last element because commands are finitely many.

That a replay of the log gives the rows is induction over the log, done by hand
along the steps of the system: a replay of a longer log goes on from the only
replay of the shorter one, so each step has to repeat just its own entries.

`OfficialWarnings_proofs` (`OfficialAssumption`):

- `SourcesSpared` (`AskedSparingly`), `ToldInTime` (`FreshEnough`), `GapsAreSaid`
  (`NoSilentGap`).

`InLine` makes the queue the list of requests under way, the reader first; so the
reader alone changes caches, and a source it has found or read to be good stays
so until it answers (`Asking`). `GapsAreSaid` speaks of the alerts known to be
unexpired; that one without a readable expiry is shown nowhere is part of its
statement and not of the promise (`NothingDropped`). `Honest` says of what is kept when it was found
out and how long it is good, `Dated` that one bulletin is the latest.

`Launcher_proofs` (`LauncherAssumption`):

- `NothingIsForgotten`, `GenerationsNeverMeet` (`OneGeneration`), `UnrelatedIsKept`
  and `ExitIsClean`.

The receipt on disk is the pivot: whoever holds the lock of its kind wrote it
(`Locked`, `Held`), and it names every live process with a mark until a scan found
none (`Named`). Workers carry no mark; they are found because a process that
loses its parent goes to the next launcher above (`Family`, `Parents`). A full
launcher that has started nothing is alone (`Alone`), which keeps generations
apart.

`RiskScreen_proofs` (`ScreenAssumption`):

- `ServesInTime` (`ServedInTime`), `SparesProvider` (`ProviderSpared`) and
  `AdmitsWhatIsMissing` (`MissingAdmitted`).

How long a body is served depends on how long it took to read it, so the proof
bounds the reading for any number of cells, attempts and pauses. A call under way
has a latest end (`LatestEnd`), its due time and the attempts it has left. Calls
for rain are started *w* at a time; `RainTimes` relates the number started to the
rounds begun and the rounds surely past, and keeps one call of the earlier round
among two (`RainStarts`, `RainGoesOn`, `RainEnds`). Elevation and river follow with
bounds of their own (`InGround`). A body that is kept carries what it promises
(`Kept`). That the grid shows no more than the area, nor the area than the point,
follows from the scores: more readings add points and never take any
(`TotalsGrow`).

`Services_proofs` (`ServicesAssumption`, `DataAssumption`, `LimitAssumption` and those
of the risk screen, whose proofs it extends):

- `SlotsAreKept` (`SlotsKept`), from `PlacesKept` of the proxy and `WaitsEnd` of the
  pool; `LimitsAreKept` (`LimitsKept`), from `RequestsAreLimited` of the public limits
  and `AttemptsAreCounted` of the accounts; `DirectoriesAreWhole`,
  `MaintenanceIsHonest`, `SessionsAreEarned`, `BodiesAreServedInTime`,
  `ProvidersAreSpared` and `NothingIsMadeUp`.

`SlotsKept` of the proxy says nothing of a timer whose mark is set while its
sockets are still open, nor of a socket that is not known yet; its invariant adds
both (`Sound`): mark and timer agree, and the handler reads from the backend only
through a socket that is known. The places are counted by one lemma for a step of
any connection (`ConnCounted`). For the pool a bound on the whole of a claim is
not inductive: each point gets a budget, the sum of the waits up to it, and a
claim's present wait ends within it (`Timely`); locks belong to the claims past
the points where they are taken (`LockInv`). That claims may wait for each other
is thereby not excluded but bounded. In the directory a version once kept never
changes, so a reader's snapshot stays right whatever is activated meanwhile. Of
upgrades, what the tables lack is what no migration recorded has added; of
sessions, that a login read the present password or was overtaken by the reset.

The row of an attempt's window counts less than was let through in it when a late
request has put an earlier window in its place. `Tally` bounds what is not counted by
a whole limit for each late request, for every window, and says that a window yet to
come has nothing of its own; so a row may be begun anew. Purging keeps it because a
row that goes is of a window for which nobody waits any more (`WindowOpen`). A report
whose row goes between its lookup and its update is let through uncounted; then no
row is left, and none can be as old while anyone waits who came in that window, so
it happens once for each key and window (`ReserveInv`). Both are where
`LimitAssumption` needs rows to be kept for longer than waits may take
(`2 * (Patience + AttemptWindow) <= AttemptHour`: in the code seconds and a quarter
of an hour, twice, against an hour).

That more than the limit is let through only to an address that was forgotten needs
the order of the tracked keys: `Lined` says that one before another has been unused
for longer, so when the first is lost, all that follow it and the newcomer have come
since (`Crowded`). Since the last time a key was forgotten, what was let through in a
window is within the limit and is counted by the times kept for it (`Since`, compared
after every moment from the window's start on, since the window moves). For the
promise of the wait, the times that will be left when it is over are fewer than the
limit (`Awaited`), and later requests that are refused add none. `CheckSlides` relates
the code's step to these: where the key goes (`Moves`) and what becomes of its times
(`Slides`). The allowance of routes rests on days coming in order (`QuotaInv`).

Nominatim is spared because the line is the list of those who found nothing in
the cache, once each, and only its first one asks (`LineInv`); the last start is
the latest of all, so keeping apart from it keeps apart from every other
(`StartsInv`). A request in the line found nothing current when it came, so what
is current now was kept since (`CacheInv`). MapTiler bears one call more than its
quota because of the jobs that began before the last hour only one can ask for its
outline within it: a job begins after the one before it has asked (`JobsInv`). No
job begins within a pause, since each pause ends by `cooldown_until` (`PauseInv`),
and a failure comes after every job so far.

Of what is shown of readings, the peak of the river forecast is found by induction
over the days (`PeakFound`; `Induction` is stated for a set of numbers, where the
library's theorem needs an operator); the days of a bulletin follow each other, so
the first two that are not past are today and tomorrow if it has them
(`AnswerTells`); the hours of the outlook are those from the hour of the answer
on; and an address shows the parts that the accuracy of its own request allows,
whatever the cache gave (`Precise`).
`ScenesInv` joins the invariants of the scenes, and `SceneSteps` shows that a step
of a scene is one of its service.

Model-checked only: liveness (`CommandsAnswered`, `ClaimsSettle`, `ErasureEnds`,
`StopEnds`), which needs ENABLED. Every invariant that a passing run checks is stated
by a theorem, `BudgetKept` for one thread, since it does not hold for two.

## 5. Assumptions about the environment

PostgreSQL commits or rolls back a transaction as a whole, honours row and
advisory locks and foreign keys, and reads committed data in each statement.
One server process runs at a time. Clocks do not run backwards. Telegram
delivers every update until it is answered with 200 and never alters one.

## 6. Findings

- `StopIsFinal`: a `/stop` that meets no subscriber row is answered before it is
  logged (`district_alerts.py:177`), so an older subscribe delivered later takes
  effect, although the comment at line 171 says an older update changes nothing.
- `NothingDropped`: an Actual alert whose `expires` is absent, which CAP 1.2 allows,
  or unreadable is skipped and not counted as failed (`official.py:308`), so the
  answer says that nothing is missing, although `official.py:6` promises that missing
  data never means no warning.
- `BudgetRace`: `claim` takes its time before it waits for the budget's lock
  (`notifications.py:230`), and one that waited across a window boundary resets
  the next window's count, against the persistent budget of twenty attempts per
  fixed bucket of `docs/TELEGRAM_OPT_IN_MVP.md:17`.

What follows was noticed while modelling and has no run of its own:

- `river_forecast.py:67` picks a week's peak by its share of runs above the 5-year
  level first, so a day with more runs above the 2-year level may be shown with
  the lower level of another day (`ForecastStands` is stated accordingly).
- A malformed rain answer for the trained model raises an `AttributeError`
  (`river_flood_model.py:73`) that fails the whole forecast, although the comment
  at `river_forecast.py:84` says that the model's failure never hides it.
- An address with a house number but no road is labelled `area`.
- A request that waits for a window's lock into the next window puts that window's
  count back (`shelters.py:95`, `reports.py:132`); `AttemptsKept` says how far.
- A broadcast refused with 403 deletes the chat's rows even when the person unblocked
  the bot and re-subscribed meanwhile (`district_alerts.py:225` compares nothing),
  although the bot answered that they will receive alerts (`district_alerts.py:191`).
  When the refusal comes between the statements of a re-subscription to a district
  already held, the log ends in a subscription with no row (`AuditReplays`, `Lost`).
- A sign-in that purges a report's row between the lookup and the update of `reserve`
  (`shelters.py:100`, `reports.py:142`, under different locks) lets one report more
  through than the limit of `docs/AZURE_HOSTING.md:172` (`AttemptsKept`, second
  conjunct). The budget of attempts has the same two locks (`notifications.py:234`;
  `BudgetKept`, second conjunct).
- An expiry without a zone raises a `TypeError` (`official.py:312`) that fails every
  request for warnings until the message leaves the list.
- The shelter may close between the claim's comparison and the sending
  (`notifications.py:228`); the message says that availability may change.
- An audit row of a photo states the report as it was read before
  (`reports.py:218`).
- A reader that ends with an exception it does not catch releases the lock while the
  other readers of the same request go on (`official.py:380`); the model lets every
  call end in success or failure.
- Only the newest messages of the feed are read (`official.py:361`), by design.
- `decode_day` drops an unknown warning code that stands beside known ones.
- A suggestion's "today" is not looked at again when it is sent after midnight; its
  text keeps the date.
- `grant_app_role` never revokes: a grant on the history made by hand fails the
  upgrade's check until it is taken back.
- The set-up says "browser verification did not" complete also when only its
  receipt could not be written.

## 7. Not modelled, and plan

Not modelled: the frontend's page logic (planned below), photo conversion, static
evidence, error collection, offline training and the system's own tests; the
wording of messages, pages and reasons everywhere; geometry and floating-point
arithmetic, whose results are values here.

1. A module composing `ShelterRecords` with `Notifications`, in place of the
   external `shelter` of the latter.
2. `PageRequests`: late answers, refresh timers and resubmission in the browser.
