# Routewerk in TLA+

Routewerk is the software of a climbing gym: setters plan sessions and put up routes, climbers log ascents, take part in
quests and competitions, and a wall of screens follows the live leaderboard. It is a Go server (one or more instances of
`cmd/api`) in front of one Postgres database, with a Svelte SPA over a JSON API and a few server-rendered pages. This
directory holds its specifications: TLA+ modules translated from the source, TLC configurations that check them on small
instances, and proofs that TLAPS checks for instances of every size.

    tlc -config MCJobQueue.cfg MCJobQueue      # one run
    tlapm JobQueueProofs.tla                   # one module of proofs

`PROJECT.json` lists components, runs, theorems, hazards and, for every definition, the lines of code it stands for.

## 1. Inventory

All durable state is in Postgres and in an object store. What an instance keeps in memory is a settings cache, a leaderboard
cache, an SSE hub, an event bus with its goroutines, rate limiter windows, metrics, and the poll and reap loops of the job
queue. Instances share nothing but the database, and statements run at READ COMMITTED.

| component (source) | state | operations | talks to | what makes it correct |
|---|---|---|---|---|
| Job queue (`internal/jobs/queue.go`) | table `jobs` | enqueue, poll and claim, handler, complete, fail with backoff, bury, reap | enqueued by mail, notifications, audit | claims are exclusive; a job is never lost; outcome earned, final, eventually reached |
| Competition scorecard (`handler/comp_action.go`, `comp_verify.go`) | `competition_attempts` and its log | batches of actions with idempotency keys, undo, override, verify | busts the leaderboard cache, publishes to the hub | a key takes effect once and is answered alike; row and log move together |
| Live leaderboard (`handler/comp_leaderboard.go`, `comp_sse.go`, `internal/sse/hub.go`, SPA store) | cache with 2 s TTL and hub, per instance | build, put, invalidate, subscribe, publish, stream | reads the scorecard; runs under `RequestTimeout` | no wakeup lost; no leaked subscriber; pages converge |
| Competition set-up, registration, scoring (`handler/comp*.go`, `service/competition`) | competitions, events, problems, registrations | create, patch, register, withdraw, rank | gate of the scorecard, builder of the board | windows in order; a bib and an entry once; ranks that count who is better |
| Setting sessions (`repository/session.go`, `handler/session*.go`) | sessions, strip targets, draft routes, assignments | publish, delete, status, targets, drafts, assign | archives and activates routes | a publish is all or nothing; no fresh route stripped; no row outlives its session |
| Playbook and checklists (`handler/playbook.go`) | steps, checklist items | create, move, delete, tick | sessions | places stay distinct |
| Walls and routes (`repository/wall.go`, `route.go`) | `walls`, `routes` | create, move, archive, revive a route; delete a wall | sessions, ascents, cards | no route in use on a deleted wall |
| Partial edits (13 kinds of record, `handler/*`, `repository/*`) | one row each | load, overlay, write back; one-column statements | each other | an accepted field survives edits that do not concern it |
| Tags, targets, follows | sets of rows | replace as a whole, add, remove | routes, gyms | a set is the one last asked for |
| Ascents, ratings, votes (`repository/ascent.go`, migrations 002, 012, 037, 038) | rows, and counters kept by triggers | log, edit, delete, rate, vote | reports | counters equal counts; one completion; averages do not drift away |
| Reports and lists (`repository/analytics.go`, `labor.go`, `route.go`) | none | figures, filters, pages | everything above | figures agree with each other; pages skip nothing; private stays private |
| Quests and badges (`service/quest*.go`, `repository/quest.go`, `badge.go`) | enrollments, log, badges | start, log, complete, abandon; listeners | event bus | one active enrollment, one completion, badge earned and present |
| Event bus and shutdown (`internal/event/memory.go`, `cmd/api/main.go`) | channel of 256 tasks, wait group | publish, worker, overflow goroutine, shutdown | quests, notifications | an orderly exit loses nothing |
| Notifications, mail, audit (`service/notification.go`, `email.go`, `audit.go`) | rows, mails | tell, write, mark read | job queue | nothing vanishes; a repeat has a reason |
| Login, tokens, sessions, lockout, magic links (`service/auth.go`, `magic_link.go`, `repository/*`) | users, refresh tokens, web sessions, attempts, links | login, refresh, change password, logout, request and open a link | mail | a credential is used once and follows the password; guesses and mails are bounded |
| Roles and memberships (`rbac`, `middleware/authz.go`, `handler/team.go`) | memberships | gates, view-as, join, role change, removal | every handler | who is served was allowed; the organization keeps an administrator |
| Request path, rate limits, metrics (`middleware/*`) | counters and windows, per instance | wrap, count, compress, recover, limit | every handler | answers in one piece; figures add up; limits hold |
| Settings cache (`repository/settings_cached.go`) | map with TTL, per instance | read through, invalidate | most handlers | own edits are read |
| Photos, cards (`service/storage.go`, `cardbatch`, `cardsheet`, `cardgen.go`) | rows, objects, batches | upload, delete, print | object store | no row without its object; a sheet shows what its batch holds, whole |
| Backups, migrations (`service/backup.go`, `database/migrate.go`, `cmd/admin`) | objects, schema version | dump, prune; up, down, force | start-up, `/health` | a server that serves has its whole schema; freshness is backed by a dump |
| CSRF check, connection pool, older pages, generated code | - | - | - | see section 6 |

**What is reachable.** `router.go:354-422` registers the pages for signing in, registration, magic links, first set-up,
joining a gym, route cards, completing a quest, card batch files and the administrator's health and metrics; all other page
handlers of `handler/web` have no route. Nothing publishes a route send, so the listener that would progress quests by
climbing never runs. Nothing calls `CardBatchRepo.MarkReady` and `PurgeOlderThan`, `InitializeChecklist`,
`OptionalSession`, the notifications of ratings and sessions, and the mails other than the magic link, and nothing enqueues
`notification.cleanup`. No model rests on such code.

### What is hard here

* **Read, then write in another statement.** Scorecard actions, edits of records, session drafts, enrollments, lockout, magic
  links, role changes, photos and the settings cache all look at a row first and write later, in another transaction.
* **Row locks and READ COMMITTED.** Publishing a session, deleting it, deleting a wall and moving a playbook step rely on
  lock order, on lock modes that exclude each other, and on Postgres looking again at a row it had to wait for; replaced sets
  and counting triggers rely on what a statement's snapshot shows.
* **At least once.** Jobs are reaped while their handler may still run; clients retry keyed actions; pages reconnect.
* **State in memory of one instance.** Cache, hub, bus and limits die with it, and other instances do not see them.
* **Deadlines.** Every API request, the event stream included, ends with `RequestTimeout`; both parts of the shutdown share
  15 s.
* **Steps that are not one transaction.** Log, count, completion and badge of a quest; token and mail of a magic link; object
  and row of a photo; a handler's effect and its job's completion; password and revoked tokens; upload and prune of a dump.
* **Figures and layout with edges.** Ties and count-back, joins that multiply, pages that shift, the last sheet, the bleed,
  the word that exactly fits.

The hazards with their lines are in `PROJECT.json`, each with the properties that would catch it going wrong.

## 2. Modules

Conventions. A step that is one statement or one critical section in the code is one action; whatever another client can see
in between is a state. Time of day, names and payloads are left out unless a property looks at them. A variable that only the
properties read is marked *history*. Operators whose comment begins with "Mutant of" are slips one could make in the code; no
specification uses them, and each breaks a property when it is put in the place of the operator it varies. Every module has
one type invariant.

| run module | modules it instantiates |
|---|---|
| `MCJobQueue` | `JobQueue`, which implements `JobContract`; proved in `JobQueueProofs` |
| `MCCompAttempts`, `MCSettingSession`, `MCQuestLifecycle` | the module of that name; proved in `CompAttemptsProofs`, `SettingProofs`, `QuestLifecycleProofs` |
| `LeaderboardStream` | itself, without symmetry, because `Converges` is a liveness property; proved in `LeaderboardStreamProofs` |
| `MCClimbing` | `WallRoutes`, `RecordEdits`, `Ascents`, `Analytics`, `Listings`; all proved in `ClimbingProofs` |
| `MCSetting` | `RowSets`, `Playbook`, `SessionPlan`, `Photos`, `CardBatches`, `CardSheet`; all proved in `SettingProofs` |
| `MCPeople` | `Accounts`, `LoginLockout`, `MagicLinks`, `Memberships`, `Access`, `RateLimiter`; all proved in `PeopleProofs` |
| `MCOperations` | `RequestPath`, `SettingsCache`, `CompBoard`, `CompSetup`, `Notices` (a client of `JobContract`), `Backups` and `Migrations`; all proved in `OperationsProofs` |

The last four check components that share no state side by side: the variable `focus`, chosen in the initial state, names the
component the behaviour is of, and the others stay where they are. That is the sum of their state spaces, not the product, and
loses nothing, since no property relates two of them. Each property of such a run is the conjunction of the properties of a
few components.

### JobQueue and JobContract

`row[j]` is a row of `jobs`; `wait` and `age` are `run_at` and `started_at` relative to now, so that `Tick` (one unit of
time passes) keeps the state finite. `worker[w]` is the poll loop of an instance with its in-memory `Job`.

* `Claim` is the transaction of `processOne`: the oldest due row, attempts plus one, running. `LookUp` finds the handler, or
  fails the job if the instance has none (a rolling deploy). `Succeed`/`Fail` is the handler; `Complete`, `Reschedule` and
  `Bury` are the UPDATEs of `completeJob` and `failJob`, which are conditioned on the id only.
* `Reap` is one round of `reapLoop` over all stale rows at once. `Abandon` is everything that makes an instance drop its job
  without reporting: a crash, a panic, a failed UPDATE. `FallBehind` makes a handler outlive the stale timeout.
* `JobContract` has neither instances nor attempts nor time: an accepted job is open, is performed, and is settled as its
  runs earned; an outcome changes only for a job that was revoked. `KeepsContract` is the refinement, with `Contract` as the
  mapping (status, "performed at least once", "reaped at least once").

### CompAttempts

`req[r]` is a request with its batch and its position. For every item: `ReplayIfCached` (key known: replay), `Reject` or
`Accept` (gate: competition, registration, event window), `ReadRow` or, for an undo, `ReadForUndo` and `ReadHistory`, then
`BeginTx`, `Commit` or `RollBack` on a duplicate key and `ReplayWinner`. `BeginTx` is a step of its own because the column
`at` is the start of the transaction, and undo orders by it. `Override` and `VerifyAttempt` are the staff handlers, `SetGate`
any change of what admits an action. `log` is in the order of ids; `answers` is the history of keyed results, and `raced`
remembers that two requests were between look-up and commit at once.

### LeaderboardStream

A board is a pair of versions (roster, scores). A writer commits, invalidates its instance's cache and publishes to its
instance's hub, in three steps. The handler of a page looks into the cache or reads roster and scores in two statements, puts,
sends, and only then subscribes; `inbox` is its channel, and a full one drops the frame. `Deadline` is `RequestTimeout`; the
page then connects again, to any instance. `Restart` empties an instance's cache and hub.

### SettingSession

Publishing and deleting are transactions of several UPDATEs. `Statements` lists them; each one picks its rows when it starts,
locks them one by one (`LockRow`, which waits and looks again), and `pending[r]` is the uncommitted version. `CheckOpen` and
`InsertDraft` are the two halves of `AddRoute`, `ReadForEdit` and `WriteBack` those of `EditRoute`. History: `fresh` (who
published a route), `caught` (stripped by its own session), `reopened`, and `stale` (routes an edit wrote back after they
had changed). `WaitsFor` is who waits for whom: for rows of routes, and for the row of the session.

### WallRoutes

`deleter[w]` and `sharers[w]` are the two lock modes on a wall row: FOR UPDATE of `WallRepo.Delete`, FOR KEY SHARE of
`lockLiveWall`. A creation is `LockLiveWall; InsertRoute`, a deletion `LockWall; CountRoutes; SoftDelete`. A move
(`CheckMove; FinishMove`) and `ReviveRoute` take no lock that looks at `deleted_at`; `unguarded` remembers the routes
that came that way.

### QuestLifecycle

One climber, one instance. A request reads the enrollment, writes the log entry, increments, completes and awards in statements
of their own. `Publish` counts tasks in `wg` and queues them; goroutines of the bus take and finish them. `Stop; Drained;
Flushed` is the orderly shutdown, `Killed` a crash or the end of the 15 s. The overflow goroutine of a full channel is one more
worker, so the channel needs no bound.

### WallRoutes' neighbours in the run `climbing`

* **RecordEdits** - one row of one of 13 tables, `kind` chosen at the start. `Load` and `Save` are the two statements of an edit
  handler (the request's fields laid over the loaded row, a fixed list of columns written), `Insert` a creation with its
  defaults, `Run` the one-column statements (archive, ticks, switches), `Delete` the soft delete. The tables `Edits`,
  `Creations` and `Statements` name for each handler which columns it may take from the request and which its UPDATE writes.
* **Ascents** - a logged, edited or deleted tick is a transaction of three steps: `Write` (the row and the routes trigger),
  `Look` (what the trigger on `users` sees in its statement's snapshot) and `Commit`. `overlapped` (history) remembers two first
  or last ticks of a route in flight together, which the distinct-route counter of migration 000037 does not survive. The
  second half of the module is what climbers think of a route: ratings with the running average in `NUMERIC(3,2)`, in
  hundredths and rounded as Postgres rounds, and votes.
* **Analytics** - every report as an operator over routes, climbs, memberships and labor logs, the list of trending routes with
  its limit; the steps only change rows.
* **Listings** - `Listed` builds the WHERE clause the way `whereBuilder` does, with placeholders and arguments; `StartWalk` and
  `NextPage` are a client's pages, between which rows are inserted, moved and removed; `Team` is the DISTINCT ON of the
  member search.

### Modules of the run `setting`

* **RowSets** - a replacement is `Wipe; Wiped; Fill; SaveDone` (DELETE with its snapshot, INSERT, commit), next to which votes,
  follows and the deletion of a tag are single statements.
* **Playbook** - a move locks its step, picks a neighbour from the statement's snapshot (`FindNeighbour`), waits for that row and
  looks again (`LockNeighbour`); a creation takes the greatest number plus one. Checklists are copies, ticked by themselves.
* **SessionPlan** - planners work from pages they loaded earlier, so rows on a page may be gone; deleting a session locks it,
  clears the assignments and removes the row in three statements.
* **Photos** - an upload is `CountByRoute`, a processing slot, `StoreObject` under the millisecond, `NextSortOrder`, `SavePhoto`,
  `SetPrimary`; a delete takes the row, the object and the picture of the route in turn. Any step may fail.
* **CardBatches** - a sheet is printed from a batch read once and routes read later, one permit at a time, while setters edit,
  retry and delete. **CardSheet** - the positions of `Composer.Render` and of the cut file, in exact units; and the
  boxes of the texts of the five faces, with the wrapping, shrinking and cutting of `card_draw.go` and `cardgen.go`.

### Modules of the run `people`

* **Accounts** - statements of `Login`, `Refresh`, `ChangePassword`, `Logout` and the browser's sign-in, which no transaction
  holds together; a request is a visit with a list of statements still to come. `late` (history) marks a token saved by a
  request that had read the old password before the change.
* **LoginLockout**, **MagicLinks** - look, compare and record; count, store and enqueue, then `Consume` as one UPDATE.
* **Memberships** - the rank table of `rbac`, joins, invitations, role changes in two steps (`desk`), removals and the
  operator's commands. **Access** - `Gates` lists every registered operation with the gates before it; a request passes them one
  after another while its session, token and role change. It is long because the table is.
* **RateLimiter** - `FirstRequest`, `NewWindow` and `SameWindow` are the branches of `LimitByKey`, with eviction and sweep.

### Modules of the run `operations`

* **RequestPath** - the wrappers of the response nested as the router nests them, panics at three places, and the atomics of
  `Metrics` bumped and read one by one.
* **SettingsCache** - two instances with a cache each; view, preset and PUT as reads, fills, writes (one may commit and lose its
  answer) and invalidations. History: `overtaken` (requests) and `behind` (cache entries) mark copies a write may have passed.
* **Backups** - schedulers of two machines and the operator's command, each `dump; put; record; prune`, over a few midnights.
* **Migrations** - start-up of an old and a new image with `AutoRecover`, the advisory lock, deaths with a dirty row, the
  operator's `force` and `down`. `takenBack` (history) is what `down` took out of the schema, servers or not. golang-migrate is
  external and modelled from its use.
* **Notices** - extends `JobContract`: each notice, mail and audit entry is one job, whose run may take effect and still be
  repeated; `Fallback` is the direct write when an enqueue fails. History: `givenUp`, lost to a failure that is answered or
  logged, and `unheard`, lost without a word: the callers of `NotifyAsync` drop its error (`notification.go:52-56`,
  `quest_listeners.go:334,350`), and a process may stop between a change and its audit.
* **CompBoard** - the three scorers, the stable sort and the standard ranks as operators over the rows of results; points are
  integers, in units in which the decayed points of the instance are whole. **CompSetup** - creations, PATCHes in two steps and
  registrations.

## 3. Runs

| run | question | instance | states |
|---|---|---|---|
| `jobqueue` | exclusive claims, earned and final outcomes, bounded attempts, settled in the end, contract kept? | 2 jobs, 2 instances of which one lacks a handler, `max_attempts` 2, 2 faults | 0.83 M |
| `attempts` | do row, log, keys and answers agree under races, and is undo exact without? | 2 requests, 1 problem, keyed and unkeyed taps, a keyed undo, a batch of two, an override, 3 transactions | 1.05 M |
| `leaderboard` | does every page that stays converge? | 1 page, 1 writer, 2 instances, 2 scores, 1 roster change, channel of 1, 1 fault | 0.70 M |
| `sessions` | does publishing keep fresh routes, dates and drafts? | 2 clients, 1 session, 2 routes on one wall, any of them up before | 2.11 M |
| `quests` | one enrollment, one completion, badge there, nothing lost at exit? | 2 requests, 1 goroutine, 1 quest with target 1 and a badge, 2 enrollments, 2 log entries each, 1 fault | 0.57 M |
| `climbing` | walls and routes, edits, counters, reports, lists | 3 requests on 2 walls and 2 routes; 2 writers and 2 writes; 3 ticks on 2 routes; 3 raters, 5 opinions; 2 routes, 2 climbs, a trending list of 1; 4 rows in pages of 2 | 0.87 M |
| `setting` | replaced sets, playbook, plans, photos, cards | 2 savers, 3 keys; 4 steps; 1 session, 2 rows of its plan; 2 uploaders, cap 1; 1 batch of 2 routes; sheets of 0 to 17 cards, 3 bleeds; 3 text lengths | 0.92 M |
| `people` | credentials, limits, roles | 2 visits, 2 tokens, session limit 1; 2 guessers, threshold 2; 4 links, limit 2; 2 members; roles of rank 0, 2, 5; 3 keys, limit 2, table of 2 | 1.13 M |
| `operations` | responses and figures, settings, backups, migrations, notices, competitions | 2 requests; 2 instances, 2 editors, 2 sections; 2 machines, 3 days; 2 images, 5 starts; 3 notices; 3 climbers on 2 problems; 2 directors, 2 PATCHes | 1.13 M |

Why these bounds are enough to be interesting: the hazards are races of two actors, and every run has two (or a writer and a
reader, a worker and a reaper). Two attempts and two faults reach a reap that overlaps a late handler and a retry. A channel
of one frame is full after one publish; 256 behaves alike, later. Three transactions let two racing actions be followed by an
undo. Two enrollments of one quest are needed for a second one after the first is closed; with target 1 and two log entries,
two requests pass the target together. A third saver key, a third limiter key with a table of two, and a third climber are
there to be evicted, replaced and tied. Sheets of 8, 9, 16 and 17 cards are the full page and the one after it; a bleed of 20
is the default, 100 is clamped. Three days reach over the retention window of one; five starts let a failed start be followed
by a recovery, a rollback and another start.

Names of the bounds, each of which is in a guard of its module: `Horizon`, `MaxFaults`, `MaxTx`, `MaxScores`, `MaxRoster`,
`MaxLogs`, `MaxWrites`, `MaxClimbed`, `MaxOpinions`, `MaxClimbs`, `MaxMade`, `MaxListWrites`, `MaxSaves`, `MaxSteps`,
`MaxSessions`, `MaxRows`, `MaxMillis`, `MaxPhotos`, `MaxBatchEdits`, `MaxSheetCards`, `MaxChanges`, `MaxFailures`, `MaxTried`,
`MaxLost`, `MaxAsked`, `MaxRoleChanges`, `MaxLookupFaults`, `MaxServed`, `MaxEdits`, `MaxDays`, `MaxRuns`, `MaxBoots`, `MaxBegun`,
`MaxCopies`, `MaxToggles`, `MaxTime` and `MaxPatches`. They cut what the environment starts, not the rest of what was begun.
`MaxAttempts`, `SessionLimit`, `LinkLimit`, `Limit`, `MaxClients`, `PhotoCap`, `UploadSlots`, `PrintSlots`, `MaxBatchCards`,
`PageCap`, `LifecycleLimit`, `TrendingLimit` and `RetentionDays` are the program's own limits; all but `LifecycleLimit` are made
small.

Symmetry is used for requests, clients, routes, enrollments, savers, cards and slots that are alike, and in no run with a liveness
property.

Deadlock is checked in `jobqueue`, `attempts`, `leaderboard` and `quests`; in `quests` it says that an orderly shutdown gets to
its end. A deleted session leaves nothing to do in `sessions`, and in the four runs over several components each of them stops
when its bound is used up. There the interesting deadlock, transactions waiting for each other, is `NoLockCycle` in `sessions`,
which sees waits for the rows of routes and of the session; a planner or a playbook editor that has to wait is a step that is
not enabled, and two moves of neighbours towards each other are ended by Postgres (`Drop`).

### Fairness

* `JobQueue!FairSpec`: the poll loop of every instance takes its steps, the reap ticker fires and time passes (`WF`).
  `pollLoop` and `reapLoop` are goroutines that run until shutdown; a crashed instance is an abandoned job, and faults are
  bounded, so `EventuallySettled` speaks of a system that is not killed for ever.
* `LeaderboardStream!FairSpec`: the handler of a stream goes on, its deadline included (a wall clock), and a cache entry
  expires (2 s). Writers, visitors, faults and restarts have no fairness.
* The other modules state safety only.

### What the properties say

* **jobqueue** - `TypeOK`. `AttemptsBounded`: at most `max_attempts` claims plus one per reap. `ExclusiveUntilReaped`: runs of one
  job overlap only after a reap. `OutcomeIsEarned`, `OutcomeIsFinalUntilReaped`, `EventuallySettled`, and the refinement
  `KeepsContract`.
* **attempts** - `RowsHold`: the row is what the last write left and answers agree with it. `KeyTakesEffectOnce`,
  `ScoresCoherent`. `UnracedLogHolds`: as long as no two transactions raced, the log is a chain, ends in the row, and undo
  returns to the state before.
* **leaderboard** - `NoLostWakeup`: a subscriber that missed a frame has one waiting. `SubscribedWhileServed`: the channels in
  the hub are exactly those of running handlers. `Converges`: a page that stays shows the current board in the end, if writes
  stop.
* **sessions** - `RoutesAreInOrder`: archived routes are dated, drafts have a session. `FreshRoutesSurvive`.
  `NoLockCycle`: two transactions on one session never wait for each other, for a route or for the session's row; transactions
  of different sessions are not compared. `OnlyStaleEditsUndo`.
* **quests** - `ProgressHolds`: count and log and target keep step. `OneActiveEnrollment`, `BadgesHold`, `CompletionsHold`:
  completed and announced once, closed for good. `OrderlyExitLosesNothing`.
* **climbing** - `WallsHold`: locks on a wall exclude each other, and no route created under one is in use on a deleted wall.
  `FieldsSurvive`: an accepted value stays until somebody who had loaded the row before overwrites it, guarded columns even
  then. `TalliesHold`: counters are what a recount gives, one completion per route, the average within half a hundredth per
  write. `ReportsAgree`: what is shown twice is shown alike, and the trending routes have every ascent as long as fewer are
  climbed than the list has room for. `ListsAreTrue`: filters select what they mean, a walk over the pages misses nothing that
  stood still, a person is on the team once with the best role.
* **setting** - `ListsStayWhole`: an uncontended replacement is what it sent, playbook steps have places of their own, the plan
  of a session is what was last asked for and never keeps it from being deleted, and a sheet is of a list its batch had and of
  the routes as they were. `PhotosHold`: no upload or delete takes the object of a photo's row that stays, unless
  two uploads shared a millisecond, and the cap is exceeded by fewer than the uploads under way. Of `photo_url` on the route's row
  nothing is claimed (section 4).
  `SheetsHold`: every card is on a sheet once, inside the page and the cut, and off the marks. `CardsHold`: a text
  that is truncated to fit stays between the edges of its card, and on the faces printed for the wall the QR code and the setter
  are clear of every other text but the label. Not claimed: the width of the label, which is not shrunk below a smallest size, of
  the texts of a circuit card and of the setter of a digital one, which are drawn as they are, and of a name whose first word
  alone is wider than its line and is followed by another (section 4).
* **people** - `CredentialsHold`: a refresh token is exchanged once, tokens follow the password, sessions stay in the limit.
  `LimitsHold`: mailed links and requests are bounded by the limit and what is in flight; a link opens once. Wrong guesses are
  bounded by the threshold, what is in flight and what failed to be recorded, until a lock has run out that no login has
  cleared. From then on the code never locks the account again (`ThresholdLocks`, section 4), and the bound is not claimed.
  `RolesHold`: the organization keeps an administrator; what is answered agrees with what the caller was at some moment of the
  request.
* **operations** - `RequestsHold`: at rest the figures account for every request. Read while requests go on, latency and codes
  stay within the total that is loaded after them, in the JSON and in the text of Prometheus; there the errors, the rejections
  and `requests_total` of the first line stay within the `+Inf` of the histogram too. They may exceed `requests_total`, and the
  admin page promises nothing. An answer is in one coding and has the status that was noted, unless its handler panics after the
  first byte. `EditsHold`: an instance serves the document as it is stored, and a preset keeps the sections it does not set, but
  for copies a write has overtaken: in the hands of a request, in the cache of an instance that was not told, behind a lost
  answer, not yet invalidated by its writer, or filled in late. An editor's own edit is hidden by a late fill only. A PUT brings
  every section and overwrites what it did not know of. A competition's window stays in order under two PATCHes.
  `OperationsHold`: who comes through Migrate has the whole schema of its image, and loses of it, while it serves, what
  `migrate-down` takes back and nothing else; freshness is backed by a dump. `TellingHolds`: what is to be told is told, queued,
  dead, or lost to a failure that is answered or logged; only `unheard` is lost without a word, and nothing in it ever was in
  the queue. A copy is a repeat with a cause. `CompetitionHolds`: a rank is one more than the number of those who are better,
  and a top that is worth anything never hurts. By tops and zones the first is claimed for results with a zone for every top, as
  the scorecard records them (`Climbed`, section 4).

## 4. Where code and documents disagree

Runs that exhibit a disagreement (expected to be violated):

| run | property | what the code does |
|---|---|---|
| `leaderboard_refused` | `ShownOnConnect` | a wrapper of the response hides `http.Flusher`, and `comp_sse.go:60` refuses every stream |
| `quest_log_types` | `EntriesAreRecorded` | log types the API accepts, "general" among them, are not in the CHECK of migration 000023 (`:93`) |
| `own_ascents` | `OwnAscentsAreShown` | the list of a route's ascents is asked for on behalf of "", which the query compares with a uuid and fails |

`leaderboard` checks what the stream would do once the wrapper lets it through, since the hub, the cache and the page are
written for that.

The models contain further ones as states they reach; the definition named, where there is one, is false in its module and
stands there with the words it quotes.

* `ExactlyOnceDelivery` of migration 000018:1-2: a completion that is not recorded leads to a second run. `queue.go:6-7` says a
  job is dead after `max_attempts`; `reapLoop` makes stale rows pending whatever their attempts.
* `competition_attempt.go:163-164` calls the entry with the greatest `at` the most recent; `at` is the start of the
  transaction, and of two transactions on a row the earlier one may commit last. Two racing actions both log the same "before"
  (`comp_action.go:204`). `competition_attempt.go:309-311` asks callers of `Verify` to append an entry; `comp_verify.go:32` does
  not.
* `comp_sse.go:21-22` subscribes "1." and sends "2."; the code does it the other way round, so a change in between reaches the
  page with the next write or reconnect only. `comp_leaderboard.go:28-29`: "busts the cache on every successful write"; a build
  that read before the write puts its board after the bust. `leaderboard.svelte.ts:12-13` relies on EventSource's retry, which
  a first answer of 500 ends.
* `session.go:653-655`: a session's own strip never catches its fresh routes; after `UpdateStatus` has reopened it, it does.
  `session_routes.go:94-96` wants no draft in a complete session; the status is read before the insert's transaction.
  `session.go:736-738` scopes edits to drafts; the write back is not scoped.
* A route archived, its wall deleted, the route revived, is live on a deleted wall (`wall.go:226-228`).
* `SetIsWhole` (`route_distribution_targets.go:58`): two replacements at once leave the union of two sets.
* `MovesSucceed`: `MovePlaybookStep` says `sort_order` has no UNIQUE constraint; migration 000009 made one, and every move that
  finds a neighbour fails. `CountIsAnswered`: the "completion_count" a toggle answers is the number of rows it changed, always
  one. `ChecklistIsMade`: nobody calls `InitializeChecklist`.
* `NobodyTurnedAway`: a removed member who comes back to a gym is refused by the UNIQUE constraint, which counts the removed row.
* `ThresholdLocks`: a failure recorded after a lock ran out starts counting at one and leaves `locked_until` in the past, so the
  next one starts at one again: the account is not locked again until a login succeeds (`login_attempt.go:54-68`).
  `SignedInIsKept` (`auth.go:92-100`): a page sends a signed-in user to the login form when a lookup fails.
* `AverageIsARating`: rounding on every write can carry an average out of the stars.
* A rank is one more than the number of those who are better only if ties are transitive. By tops and zones they need not be:
  `cmpTopZone` compares the counts-back as far as both go, and where staff have overridden a result with a top without a zone
  (`OverrideAttempt`), two rows with equal tops, zones and attempts may have counts-back of different lengths. A short one then
  ties with two rows of which one is better than the other, and who is first depends on the order of the registrations.
* `OverrideIsHonoured` (`openapi.yaml:987`): the board ranks by the competition's rule, an event's override is stored only.
  `OnlyProvidedFieldsChange`: a PATCH writes back every column it loaded.
* `MarksAreClear` (`sheet.go:43-45`), `NameIsWholeOrCut` and `LinesFit` (`card_draw.go:351-382`): cards come closer to the marks
  than the clear zone; the words of a long name beyond the last line are dropped without an ellipsis; and of "at most maxLines
  lines whose widths do not exceed maxWidth" only the last line is ever cut, so a first word wider than the line, with another
  behind it, overruns. That a name's lines fit everywhere else is lemma `WrappedFits`.
* A route's `photo_url` outlives its object: the statement that moves it to another photo is only logged when it fails, and two
  requests that overlap write it from what each had loaded (`routephoto.go:198-203`, `:309-322`).
* In the text of Prometheus codes, errors and buckets may exceed `requests_total`, which is loaded before them
  (`metrics.go:410`); the `+Inf` of the histogram is a second load.
* `migrate-down` does not ask whether a server runs on what it takes back.
* A notification whose enqueue fails is gone without an answer or a log line (`quest_listeners.go:334,350`).
* `RecoveryCanRetry` (`migrate.go:43-52`): for a first migration that failed, the version computed is 0, which no
  migration has, where -1 stands for none.
* A quest may be created with a target of zero or less (the handler takes any integer); nothing completes it before something is
  logged, because the progress is looked at after an increment only.
* `DisabledGymsAreQuiet`: every listener "short-circuits" when progressions are off (`quest_listeners.go:46-48`); `awardBadge` and
  the two that notify do not look.

## 5. Proofs

TLAPS proves for every value of the constants (the only assumptions are the named `ASSUME`s on the constants, which TLC
evaluates in every run):

`JobQueueProofs`: `TypeCorrect`, `AttemptsAreBounded`, `RunsAreExclusive`, `OutcomesAreEarned`, `OutcomesAreFinal`,
`ContractIsKept`. The
inductive invariant is `Bookkeeping`. `AttemptsBounded` alone is not inductive: nothing in it says why a failed attempt makes
the row pending only once. `Account` pays for each time a row is pending: by the enqueue, by a reap, or by a *spent* attempt,
whose number is below `max_attempts`; `Claims` says that a worker's number was handed out and is not spent yet, and
`NoSharedAttempt` that nobody else has it. `spent` is then a subset of `1 .. max - 1`, and its cardinality gives the bound.
`Agreement` ties the row to its one worker as long as nothing was reaped, which is what finality of outcomes needs.
`ContractIsKept` is the refinement: initial states map to initial states of `JobContract`, an enqueue is `Accept`, a handler's
return `Perform`, a reap `Revoke`, and a report is `Settle` for a job never reaped (where `Agreement` says what the outcome is)
and `Reconsider` for one that was; everything else is invisible.

`CompAttemptsProofs`: `RowsAgreeWithLog`, `KeysTakeEffectOnce`, `ScoresAreCoherent`, `UnracedLogIsAChain`. `CardInv` is
inductive: `Shape` (types, and where a request is in its batch), `Recorded` (a problem has a row exactly when it has entries,
and then one of them is the last and made the row), the uniqueness of keys, and the answers. A commit that duplicates a key
rolls back with its upsert, so the row never runs ahead of the log. `AllCoherent` extends coherence to the log and to what
requests carry, because an undo may restore a state another request has outdated. `Chained` is what holds while nobody raced:
one request at most is at work (`Alone`), what it has read still stands and it is younger than the log (`Grounded`), and ids and
times order the log alike (`Ordered`), so that the entry the undo looks up is the last write.

`LeaderboardStreamProofs`: `SubscriptionsAreServed`, `NoWakeupIsLost`, `StalenessRunsDry`. `HubInv` adds to the first two `Owed`:
a version published or about to be is not newer than the last bust of the instance's cache, so a build that begins now pays
every debt; and a page not yet subscribed is owed nothing. `StalenessRunsDry` is the safety half of `Converges`, as an action
property no run lists (`StalenessFlowsDown`): between writes, no further build is behind the database; a cache falls behind by
such a build only, a frame by a build or a cache, a page by a frame; and a page that stays keeps a board. Once the four sets are
empty, in this order, they stay so until the next write, and so does a page that is current. It needs that a board is at hand
wherever one is cached or sent (`BoardsAtHand`). That the steps which empty them are taken is what is left to TLC.

`SettingProofs`, about `SettingSession`: `NobodyWaitsInACycle`, `SessionsAreLeftInOrder`, `NothingElseUndoes`,
`PublishingTwiceIsSafe`. `SessionInv` says that a transaction holds its session row from its first statement on, so that of two
on one session only one holds or waits for anything else, and that every version of a route is dated, the pending and the one in
a form included. `DraftInv` adds why a deletion leaves no draft: while it drops, each draft left is on its list
(`DeletionSweeps`), none can be added because the insert waits for the session row, and no pending version is a draft
(`PendingHolds`). `DatesCarry` says that a transaction keeps the dates of its rows. `Survival` is the argument for publishing
twice: what a wall strip has swept was up when it came and stays locked (`Sweeping`), so it was no draft of its session; and if
the session put it up before, the session was complete then and is not now (`Published`, `PublishesOwn`), so somebody reopened
it.

`SettingProofs`, for the specification of the run `setting`: `ListsAreWhole`, `PhotosAreHeld`, `SheetsAreHeld`, `CardsAreHeld`.
A behaviour steps one component and leaves the others alone, so an invariant of each is enough:

* `RowSetsInv` - the foreign key is why no row carries a tag that is gone (`TagsStay`); as long as no two transactions crossed,
  one at most is at work, and what it deletes is all there is (`OneAtATime`).
* `PlaybookInv` - a step that moves is held from its first statement on, so the place it has read is still its own, and no row
  has two holders (`EditorsHold`). The places are distinct because the statement that would break this is refused.
* `PlanInv` - a row a page shows may be gone, but if its id is still there it is in its old place (`PagesHold`), which is why an
  unassignment takes away what the page showed; and a deletion that has cleared the plan holds the session's row, so nothing is
  added behind it (`PlannersHold`).
* `PhotosInv` - a key is given out once: it is an upload's, then a row's, then a deletion's (`KeysMeanOneThing`), as long as no
  two uploads shared a millisecond. The photos and the uploads that were let in are together below cap and requests
  (`CapIsShared`): whoever is let in saw the cap unused, and the others let in are requests too. `CapHolds` alone is not
  inductive.
* `BatchesInv` - until it has rendered, a print holds a list its batch had since it began, and knows which routes were never
  gone and which were never there (`PrintHolds`).
* `SheetInv` - the cards drawn are the first of the request, each where its number says, on as many pages as they fill and
  perhaps one just begun. `CutsOfAPageAreClean` is the geometry of a page, for every bleed up to half the gutter, which is as
  much as `Clamped` lets through.
* `BatchRowsInv` - what a job is about to write is a list that was asked for, or what is left of one when the dead routes are
  taken out, which is again a list without repetition (`AmongIsAList`).
* `FacesInv` - what is drawn is the face of the card, so `FaceReads` is a fact about five designs, each proved box by box
  (`SheetFaceReads`, ..., `DigitalFaceReads`). A truncated text fits (`TruncatedFits`), a fitted size is between its bounds
  (`FitIsASize`), and pills end before the margin (`PillsFit`). For the greedy wrap, `LinesHold` goes with the loop: a first line,
  while it is filled and when it is finished, fits or is the first word alone; and once it is finished the loop is left.

Filter, wrap and pills are recursive functions of the number of elements consumed. That such a function exists is
`StepsExist`, from the least number up to which it would not (`UpToInduction`); every proof then speaks of its values.

`ClimbingProofs`, for the specification of the run `climbing`: `WallsAreHeld`, `AcceptedFieldsSurvive`, `TalliesAreHeld`,
`FiguresAreHeld`, `ListsAreHeld`. A behaviour steps one component and leaves the others alone, so an invariant of each is
enough, and the theorem is about the conjunction:

* `WallsInv` - `LockInv` is the lock discipline of the walls; `WallsGuarded` adds what a lock is good for: the wall of an
  insertion is alive, and what a deletion has counted stays true until it commits, because an insertion would need the lock the
  deletion holds.
* `FieldsSurvive` is inductive itself, given what `HandlersKeepToTheirColumns` says of the tables of handlers: no UPDATE writes a
  column its handler has no right to take from a request.
* `AscentsInv` - a tick belongs to a user and a route that are there (`TicksAreOwned`), one of a user's ticks of a route is the
  completion, in the table and among the writes under way (`OneCompletes`), and as long as nothing overlapped, what a request saw
  of its route when it looked still stands (`LooksStand`). `CountersMatchRows` is inductive with these only.
* `OpinionsInv` - the number of ratings is the number of raters, and the average is within half a hundredth per write of the true
  one, which rests on the lemma `RoundedIsNear` about the rounding of Postgres.
* `FiguresTypeOK` is inductive; that the reports agree is then a fact about counting. Groups that share no row and leave none
  out add up to the whole (`GroupsAddUp`, `GroupsCountAll`), whatever they are grouped by, and the places of the feed are one to
  one with the climbs, so that what is left out comes after all that is shown (`FeedIsLatest`).
* `ListingInv` - while nothing was moved or removed, a row that was there when the walk began, and has not been shown, has at
  least `offset` rows before it (`WalkGoesOn`): insertions only add to them, and the page takes those with fewer than `offset`
  plus `limit` (`PlacesAreCounted`, `PagesGoOn`). That needs an order without ties, which the labor log's is not. The filter
  builder keeps one argument for each placeholder (`InStep`), so a condition added narrows by its own column (`ConditionsAdd`).
  The first line of a person in the order of the member search is the best (`TeamsAreBest`).

`QuestLifecycleProofs`: `ProgressKeepsStep`, `EnrollmentsDoNotOverlap`, `BadgesAreEarned`, `ShutdownDrains`,
`CompletionIsFinal`. `QuestInv` is inductive. A count never outruns the log because every request between its log entry and
its increment still owes one (`EntriesPay`: count plus such requests are at most the entries). Two enrollments in one quest
cannot both be active because of the partial unique index, and a badge stands for a completed enrollment because whoever is
about to award has completed one before (`AwardIsForCompleted`). `WaitGroupCounts` ties the wait group to the tasks in the
channel and in the hands of goroutines, so a wait group that has come down to zero has nothing left in either, and
`RequestsAreDone` says that the server has no request in flight once it is drained.

`PeopleProofs`: `CredentialsAreEnded`, `LimitsAreKept`, `RolesAreKept`, for the specification of the run `people`. A behaviour
steps one component and leaves the others alone, so an invariant of each is enough:

* `AccountsInv` - a token that is not spent was never exchanged; what is issued, and what is about to be, is under the password
  of now or `late`, unless a change has still to revoke (`PasswordIsFollowed`); a browser's sessions are over their limit only
  by sign-ins that have still to cut the list (`Enforcing`).
* `LockoutInv` - every failure recorded or about to be was tried (`EveryFailureWasTried`); while no lock has run out, an address
  that is not locked is below the threshold and a guess without a record has failed to make one (`LockInForce`), so guesses
  exceed it by the requests let in together and those failures at most.
* `MagicLinksInv` - a consumed link was opened once (`ConsumedIsOpened`), a visit is of a link that was mailed, and the links of
  the window with those being stored are at most the limit and what looked together (`CountedTogether`).
* `LimiterInv` - an entry of the table accounts for every request that passed within its window (`Accounted`), whatever was
  evicted or swept.
* `MembershipsInv` - a change on a desk is of a row there is, and no change takes the founder's role (`FounderKeeps`), which keeps
  the organization an administrator.
* `AccessInv` - what a request has found out was true at some moment of it, and the gates still ahead bound what it lacks.

`OperationsProofs`: `RequestsAreHeld`, `EditsAreHeld`, `TellingIsHeld`, `OperationsAreHeld`, `CompetitionIsHeld`, for the
specification of the run `operations`, again from an invariant of each component:

* `PathInv` - the totals are the sums of what the requests have added, each by how far it has come: `RequestsCounted`,
  `CodesCounted`, `RoutesCounted`. A reading looks at one total after the other while requests go on, so `ReadingBounded`
  bounds every total it has not yet read by those it has, so what is read first is the least, and `Closing`, the total a reader
  loads last, is the greatest. Adding to one term adds to the
  sum (`SumOfChanged`).
* `BoardTypeOK` is inductive; what is claimed of the ranks is then a fact about sorting. `Better` is the first difference of two
  keys, and keys of one length give a weak order; where lengths differ it is `Climbed` that makes them alike wherever it
  matters (`ActiveCanTell`). A stable insertion keeps a row in order (`RowsAreInOrder`), in an ordered row those better than a
  climber are the ones before the first of the tie (`RankIsCounted`), and a row with one more top has a key that is no worse
  (`TopsComeFirst`). Assumed of the constants: a divisor above zero for the attempts of every result, and attempts below `Tier`.
* `SettingsInv` - `CopiesAreCurrent`: what a request has in hand is the stored document or is marked `overtaken`, which makes
  `EntriesAreCurrent`, `OwnEditsAreRead` and `EditsSurvive` inductive. `SetupInv` - a request that patches has
  loaded a row of that item, and what it will write is a row in order (`MergedIsARow`).
* `NoticesInv` - `ItemHolds`: what is told has a job, an effect, or was lost to a failure that is answered or logged,
  or before it came to the queue; nothing ran that the queue does
  not know; a run that returned nil has had its effect; and only that run, or the direct write of an item without a job, told
  something without being repeated.
* `BackupsInv` - `RunHolds`: a run began today or yesterday and its key is of one of the two; once it has stored, its key holds
  a dump. `SuccessHolds` needs this because a prune of one machine runs next to the upload of the other: the pruner's own key is
  young enough to stay, and backs every success there is.
* `MigrationsInv` - `RowHolds`: everything below the version of the row is applied, and the version too when the row is clean,
  and a refusal advises what is so; `ProcessHolds`: a process that comes through has checked this, and once it serves it lacks
  only what was taken back (`Serves`); `TakenBackAlone`: while the operator takes a migration back, everybody else is outside
  and counts on less. The greatest version of a finite set exists by well-foundedness (`FiniteMax`).

Where an induction would be needed (over the members of a finite set that is summed, the length of a row that is sorted, the
words of a name) the proofs take the least counterexample there would be (`NaturalsHaveALeast`, `FiniteInduction`), since the
induction theorems of the library cannot be instantiated with an operator here.

Every invariant and action property a passing run checks is proved. Model-checked only:

* The liveness properties `EventuallySettled` and `Converges`: liveness under fairness is out of this prover's reach.

## 6. Not modelled

* Page handlers of `handler/web` without a route, and other code nothing calls (section 1); generated code (`api.gen.go`), which
  only decodes and dispatches; the Svelte SPA but for the leaderboard store; the CSRF check and security headers, which are
  comparisons of one request; the connection pool, whose bound no property is about.
* HTML, JSON, wording, colours, fonts, QR codes, search patterns, sort orders other than those of pages; percentiles of the
  metrics' latency window; the renaming of a playbook step.
* Postgres itself: statements are atomic, a transaction is lost as a whole, and locks behave as documented for READ COMMITTED.
  Deadlock detection is modelled where a request may meet it, as the failure of one of the two.
* What the models leave open knowingly: outside `UnracedLogHolds` an update of a scorecard may be lost; assignments without a
  wall never conflict (NULLs are distinct); deleting a session writes its audit entry before it deletes; a handler of an audit
  job always returns nil, and marking a read notification again is a 404; the JSON buckets of the metrics are not cumulative,
  and two first requests of one status may lose a count; `LIKE` patterns and `q[:100]` are taken as given; an empty page beyond
  the end has total 0 and the team list is cut at 200; a bleed of 0 means the default; a card whose lookups failed is cached for
  an hour with blanks; an older image does not start on a newer schema, and `RetentionDays` is at least one; registration looks
  neither at status nor dates, a withdrawn climber cannot register again, and a bib taken is answered "already registered"; the
  API takes the best role over the whole organization where pages take the gym's, and a lookup that fails is read as 404.

## 7. Plan

Done, in this order: `JobQueue` and `JobContract` (everything asynchronous rests on them), `CompAttempts`,
`LeaderboardStream`, `SettingSession`, `WallRoutes`, `QuestLifecycle` with the bus and the shutdown; proofs of `JobQueue` and
`WallRoutes`; then the components of the runs `people`, `climbing`, `setting` and `operations`, in the order of the hazards they
carry; proofs of `CompAttempts`, of `LeaderboardStream`, of the refinement of `JobContract` and of `SettingSession`; proofs of
`QuestLifecycle`, and of all of `people`, `climbing`, `setting` and `operations`, sums, pages, ranks and layout last.

Worth doing next: a model of the renaming of a playbook step, and of the pages once they have routes.
