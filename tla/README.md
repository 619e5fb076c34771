# Verification of the collaboration workspace backend

The backend is a NestJS application (`src/src`): REST API, WebSocket gateway
and job processors in one process, of which several instances may run
(`docs/ARCHITECTURE.md`, "Stateless Design") over one Postgres and one Redis.
This directory holds its TLA+ models, the TLC configurations that check them and
the TLAPS proofs. Paths below are relative to the repository root.

## 1. Inventory

| Component | State it keeps | Operations | Talks to |
|---|---|---|---|
| Job pipeline: `src/modules/job` | `jobs` rows; Bull's job records in Redis; `processedJobs`, a Set per processor and process | `submitJob`, `addJob`, `updateJobStatus`, `getJobResult`; `handleCodeExecution`, `handleFileProcessing`, `handleWorkspaceExport` | Postgres, Bull (delivery, retry, stall check, timeout) |
| Presence: `presence.service.ts` and the join, leave, disconnect and activity handlers of `collaboration.gateway.ts` | Redis keys `session:*`, `workspace:*:users`, `user:*:sessions`, `presence:*:*`, each with a TTL; `client.data.workspaceId`; socket.io rooms | `addUserSession`, `removeUserSession`, `updateUserActivity`, `getWorkspacePresence` | Redis, socket.io, event bus |
| Event bus: `EventService`, `setupRedisAdapter`, the broadcasts and `handleCrossInstanceEvent` in `collaboration.gateway.ts` | callbacks per channel, Redis subscriptions, the socket.io adapter and its rooms | `publishEvent`, `subscribeToEvents`, `unsubscribeFromEvents`, `handleIncomingEvent` | Redis pub/sub, gateway |
| Authentication: `src/auth`, `user.service.ts` | `refreshTokens`, a Map per process; `users` rows with a unique email | `register`, `login`, `refreshToken`, `revokeRefreshToken`, `revokeAllRefreshTokens` | Postgres |
| Workspaces: `workspace.service.ts` | `workspaces` and `workspace_members` rows | create, update, delete, invite, remove, change role, access checks | Postgres |
| Projects: `project.service.ts`, `project-file.service.ts`, `collaboration-event.service.ts` | `projects`, `project_files` (unique path per project), `collaboration_events` rows | create, update, delete, add and remove files, update metadata, record events | Postgres, workspaces |
| Controllers, DTOs, configuration, entities, migrations, guards, filters | none of their own | routing, validation, wiring | the services |

What is hard in it, and hard to test:

* **Two records of one job.** Bull decides whether a job is delivered again, the
  row is what the client sees, and every update of either may fail. A delivery is
  not exclusive: a lost lock or the job timeout starts a second handler beside
  the first.
* **An in-memory guard.** `processedJobs` is per process, filled after an await,
  emptied in a catch block that may itself be left early, lost on a restart.
* **Presence in four keys.** Each is written by an awaited command of its own;
  handlers of all sockets, also those of one, interleave at every await; lists
  read earlier are broadcast later; keys expire; an instance may die between two
  commands.
* **Check-then-act on the database.** The workspace, project and file services
  read, decide and save without a transaction, and `save` inserts a row that was
  deleted in between.
* **Refresh tokens in memory**, checked before an await and deleted after it, of
  one instance among several. Registrations pass both lookups of their address
  together.
* **Two ways for one event**, the socket.io adapter and the bus, each with its own
  connections, which break: copies arrive in different orders, and the adapter is
  exchanged after clients may have joined.
* **Pages read while the list changes**: the events of a project are read page by
  page, newest first, while events are committed, in another order than their
  times, and projects deleted.

What makes each part correct:

* Job pipeline: a result shown as COMPLETED was earned and is final; work is
  never done behind the client's back (PENDING); a retry is not turned away; one
  handler at a time; every job leaves the queue and every row settles.
* Presence: the listed users are the connected ones; the gateway's data, the
  rooms and the sessions agree; the last broadcast is the latest list; nobody is
  listed for ever.
* Event bus: a published event reaches every client of its workspace, a bounded
  number of times, and without losses all clients end with the same event.
* Authentication: who was told to be registered has the account; rotation leaves a
  session one token, and one more at most for each overlapping refresh; a session
  that ended, and a token that no instance accepts, stay so.
* Workspaces: every workspace has its owner among its members, as owner; a
  removed member stays removed; only the owner makes owners; other code may take
  every operation as a single step.
* Projects: the history tells which files there are; no update brings back what
  was deleted; metadata keys are not lost; files are written by the entitled.
* Event history: reading to the end misses no event.

The hazards, each at its line with the properties aimed at it, are the `hazards`
of `PROJECT.json`. Some are exposures of the code that no property can hold
against; those have a note instead, and section 3 says what goes wrong.

## 2. Modules

| Module | What it is |
|---|---|
| `JobPipeline` | the job pipeline of one queue, detailed |
| `JobLifecycle` | what the jobs API promises of the status it reports, abstract; `JobPipeline` implements it |
| `JobProofs` | proofs: types, and what holds of jobs under every fault |
| `JobFinalProofs` | proofs: one handler per job, agreement of the records, finality of COMPLETED, the guard, the refinement of `JobLifecycle` |
| `Presence` | presence and the gateway handlers that drive it |
| `PresenceProofs` | proofs of every safety property of `Presence` |
| `EventBus` | the events of a workspace between instances |
| `EventBusProofs` | proofs of every property of `EventBus` |
| `RefreshTokens` | accounts, login, refresh and logout |
| `TokenProofs` | proofs of every property of `RefreshTokens` |
| `Membership` | workspaces and members as other code sees them, every operation one step, abstract |
| `Workspaces` | `WorkspaceService` await by await; implements `Membership` |
| `WorkspaceProofs` | proofs of the invariants of `Workspaces` and of the refinement of `Membership` |
| `Projects` | projects, files and events await by await, composed with `Membership` (which it EXTENDS) |
| `ProjectProofs` | proofs of every property of `Projects` |
| `EventHistory` | reading the events page by page |
| `EventHistoryProofs` | proofs of every property of `EventHistory` |
| `MC...` | instances of each of these for TLC |

### JobPipeline

One job type is modelled: the three processors differ in validation and in the
simulated work, and share the control flow await by await.

| Variable | Code |
|---|---|
| `row` | status of the `jobs` row and whether `completedAt` is set; result and message are functions of the status, because `updateJobStatus` writes all three together |
| `submit` | where a `submitJob` call is |
| `bull` | Bull's record: state, `attemptsMade`, `stalledCounter`, holder of the lock |
| `processedJobs` | the processor's Set, one per worker process |
| `run` | the handler invocation of each delivery: the await it is suspended at, its worker, whether Bull's loop still waits for it |
| `executed`, `resolved` | history: deliveries whose work started, and resolved |

`SubmitJob` and `AddJob` are the two halves of `submitJob`; `Deliver` is the
handler up to its first await, with the guard; `MarkProcessing`, `StartWork`,
`WorkEnds`, `MarkCompleted`, `MarkFailed`, `AllowRetry`, `Return` and `Throw` are
its continuations, in the code's order, with the catch block reached from every
await of the try block. Bull is external and modelled from
`job-queue.config.ts`: `AfterFailure` (attempts), `Promote` (backoff), `Timeout`,
`LoseLock`, `RecoverStalled` (`maxStalledCount`). `Crash` and `CrashInSubmit` are
an instance that dies and starts again.

Which guarantees hold depends on which faults occur, so `Faults` is a constant:
the queue's `add` rejects (`redis`), an instance dies (`crash`), a lock is lost
(`lock`), the job timeout fires (`timeout`), an update rejects without
(`db`) or after (`ack`) having been applied.

### Presence

| Variable | Code |
|---|---|
| `conn`, `joined`, `rooms` | the socket, `client.data.workspaceId`, its socket.io rooms |
| `session`, `members`, `userSockets`, `presence` | the four kinds of Redis keys, reduced to the workspace, the sets and `socketIds` |
| `noTtl` | the sets that were created by SADD and not yet given a TTL by EXPIRE |
| `handler` | handlers in flight: the command each waits for, and what it read before |
| `announced` | the users in the last `presence-updated` message of each workspace |

Every awaited Redis command is an action of its own, named after it
(`SetSession`, `AddMember`, ..., `PutPresence`); `Rejected` is its rejection,
caught by the service. `LeaveRoom`, `AnnounceJoin` and `AnnounceLeave` are the
gateway's own continuations. `handleActivity` stands for `file-change`,
`cursor-update` and `ping`, which differ in what they emit and in a guard that
`ping` does not have. `Crash` closes the sockets an instance serves and drops
their handlers, so a set of sockets plays the part of an instance. Behaviours of
clients and environment are chosen by the constant `Behaviours`.

Of a message only the list of users is kept. What is published to other
instances is the subject of `EventBus`; the total of `presence-updated`, which
after a join is one more than its list (`collaboration.gateway.ts:450`), is left
out.

### RefreshTokens

| Variable | Code |
|---|---|
| `users` | the rows of `users`: id, email as `create` stores it, password |
| `welcomed` | history: address and password of the registrations answered with success |
| `refreshTokens` | the ids in each instance's Map |
| `sub`, `login` | the user a token was issued to; the token its session began with, at a login |
| `expired` | tokens past `jwt.refreshExpiresIn` |
| `request` | the requests in flight: instance, the await each is suspended at, the address, password, user or token it carries |
| `overlaps` | history: how many refreshes of each session were begun while another of the same token was under way |

`register`, `FindByEmail`, `isEmailUnique`, `SaveUser` are the steps of a
registration; the insert meets the unique index, which is a guard of `SaveUser`
and not the shape of `users`; `loginRequest`, `validateUser`, `ComparePassword`
those of a login; `refreshToken` and `Exchange` the two halves of a refresh
around its await. `generateTokens` has no await, and is one step with what comes
before it. `Restart` empties a Map and drops its instance's requests; `Fails` is
a rejecting call (an insert the index refuses among them) or a wrong password.
Every token is a JWT that all instances verify; only the Map is per instance.

### Membership and Workspaces

| Variable of `Workspaces` | Code |
|---|---|
| `owner` | `ownerId` of each row of `workspaces` |
| `member` | id and role of the row of `workspace_members` of each workspace and user (unique) |
| `call` | the calls in flight: operation, await, caller, workspace, user, the member row it holds |
| `creator`, `answered` | history: whom `createWorkspace` inserted a workspace for; those it returned |
| `revived` | history: workspaces that the save of `updateWorkspace` inserted again |
| `removed` | history: users removed while no change of their role was between its read and its save |
| `appointed` | history: workspaces whose owner granted the role of owner |

The seven operations are calls whose steps are the queries of the service:
`checkWorkspaceOwnership`, then per operation a read and a write. The foreign keys
(members go with their workspace) and the unique key decide what a write does.
TypeORM's `save` updates the row with the entity's id and inserts it when there is
none: this is what brings deleted rows back. `Membership` has `owner` and `role`
only, and one action per effect: `Open`, `Join`, `Change`, `Close`, `Reopen`. The
refinement maps `role` to the roles of the rows and `reopened` to `revived`.

### Projects and EventHistory

| Variable of `Projects` | Code |
|---|---|
| `owner`, `role`, ... | those of `Membership`, changed by its actions (`MembersChange`, `WorkspaceCloses`) |
| `project`, `file` | workspace and metadata keys of each project; id and last writer of each file |
| `told` | the action of the last event about each path |
| `call` | the calls in flight, with what they read; `overtaken`: another save of the project came between |
| `created`, `entitled` | history: ids inserted; who was ever allowed to modify the projects of a workspace |
| `gone` | history: projects deleted while no update was between its read and its save |
| `blurred` | history: paths whose writes and events came out of step |

`FindProject`, `checkWorkspaceAccess` and `checkProjectModifyPermission` are the
queries before every operation, `SaveProject`, `SaveFile`, `DeleteFile`,
`DeleteProject` and the events what follows. Membership may change between any
two.

| Variable of `EventHistory` | Code |
|---|---|
| `begun` | number of transactions begun to save an event: the next `createdAt` |
| `pending` | rows of transactions begun and not committed |
| `events`, `deleted` | the rows of `collaboration_events` that queries see; projects deleted |
| `reader` | one client: the list and page it reads, the rows it got, the rows there when it began, repeats |
| `added` | history: number of events committed |

`addEvent` is the start of the transaction, which gives the row its `createdAt`
(`now()`), `Commit` its end: a row may turn up behind newer ones. The insert of
a row whose project was deleted meanwhile fails. Each page a client reads is two
queries, `Find` and `Count`, less what TypeORM leaves out when a page is not
full. The route of a project's history returns the events only
(`project.controller.ts:497`), so its reader goes on to the first empty page;
`getUserActivity` has no route, and who calls the service reads as many pages as
`totalPages` says. `ORDER BY "createdAt" DESC` is said with the numbers of the
rows: the `Place` of a row is the number of newer ones on the list, and OFFSET
and LIMIT are a `Window` of places. That no two rows have the same `createdAt`,
to the microsecond, is assumed: the code orders by nothing else, and the
database may return equal ones in another order for each page.

### EventBus

| Variable | Code |
|---|---|
| `adapter` | where `setupRedisAdapter` is: waiting for PING, on, or given up |
| `listening` | instances whose `setupEventSubscriptions` is done |
| `room`, `joined` | sockets the adapters know in the room; sockets that ever joined, which may have handlers in flight |
| `commands`, `heard`, `relayed` | PUBLISHes on their way to Redis, messages on their way to each instance, broadcasts between adapters |
| `copies`, `last` | how often each client got each event, and which last |
| `witnesses`, `audience` | history: sockets in the room since an event was emitted; instances it was published to and that did not lose it on the way |
| `final`, `lost` | history: the event published last; whether Redis refused a message, or one was lost with a connection or an instance |

Each handler ends in `Broadcast`: an emit to the room and a PUBLISH. The instance
that published hears its own message and `handleCrossInstanceEvent` emits it to
the room again, which the adapter relays again. `PingSucceeds` replaces the
adapters, with what the old ones knew of the rooms. `SubscriberDrops` is a broken
connection of `redisSubscriber`: what was on its way to the instance is lost, and so
is what is published until ioredis has subscribed again, which is
`setupEventSubscriptions` once more. Left out: ioredis sends a PUBLISH again whose
answer the broken connection of `redisPublisher` lost. An event published again
is heard once more by every instance, which adds as many copies to the bound of
`CopiesAreBounded` as there are instances, each time.

## 3. Runs

All runs use the modules as they are; a cfg only gives constants their values.

| Run | Instance | Shows |
|---|---|---|
| `JobFaults` | 1 job, 1 worker, 2 attempts, 1 stall, every fault, fair | `TypeOK`, `NoWorkWhilePending`, `BullCompletesResolvedWork`; `QueueDrains` |
| `JobSettles` | 1 job, 2 workers, 2 attempts, 1 stall, `lock` and `timeout`, fair | `GuardForgetsFailures`; `EventuallySettled`: whatever handlers run side by side, the last write is a terminal status |
| `JobAgreement` | 2 jobs, one with invalid data, 2 workers, 3 attempts, `redis` and `db` | `CompletedWasEarned` with data that is rejected, `OneHandlerPerJob`, `RecordsAgree`, `CompletedIsFinal`, `ImplementsLifecycle` (refinement of `JobLifecycle`) |
| `PresenceUsers` | 3 sockets of 2 users, 2 workspaces, 2 handlers in flight, of different users | `ActiveUsersAreListed`, `ListedUsersAreActive` |
| `PresenceSessions` | the same sockets, one handler at a time, several workspaces per user, leaves | `AnnouncementIsCurrent`, `SessionsAreCounted`, `SocketsAgreeWithSessions` |
| `PresenceCleans` | 1 socket whose handlers overlap, leaves, expiry, rejections, crash, fair | `TypeOK`, `EventuallyNobody` |
| `TokensRotate` | 2 instances, 2 requests in flight, 3 tokens, 2 ids of users, an address in 2 spellings, 2 passwords, 1 overlap | `TypeOK` (a token is in one Map, of its session's user), `RegistrationIsKept`, `ExtraTokensAreOverlaps`, `EndedSessionsStayEnded`, `SpentTokensStaySpent` |
| `WorkspaceMembers` | 1 workspace, 3 users, 2 calls in flight, 5 member ids | `TypeOK` (cascades, one row per id), `OwnerIsMember`, `RemovedStaysOut`, `NobodyPromotesThemselves`, `ImplementsMembership` |
| `ProjectLog` | 1 workspace, 2 users of which one calls, 1 project, 1 path, 2 file ids, 1 key, 2 calls in flight | `TypeOK`, `LogTellsFiles`, `DeletedProjectsStayDeleted`, `WritersWereEntitled`, `KeysAreKept` |
| `EventBus` | 2 instances with a client each, 2 events, losses, broken connections, restarts | `CopiesAreBounded`, `PublishedReachesAll`, `ClientsAgree` |
| `HistoryPages` | 2 projects, 5 events, late commits, pages of at most 3, first pages and limits out of range | `TypeOK` (rows of projects that exist), `NoEventIsSkipped`, `RepeatsAreFew` |

One run ends in a counterexample, a place where a comment and the code differ
(`findings` of `PROJECT.json`): `JobDuplicate` violates `DuplicateIsSkipped`. The
lock is lost, the first handler completes, the redelivery meets the guard ("skipping
duplicate execution"), whose error reaches the catch block: COMPLETED becomes
FAILED.

Smaller disagreements met on the way have no run of their own. The properties
checked name the exception where there is one.

* Jobs: with a database that may reject, the catch block is left before
  `processedJobs.delete` and a retry on that worker is turned away
  (`GuardForgetsFailures` fails with `db` in `Faults`); `getJobResult` answers
  FAILED, then 404, while Bull retries; `completedAt` survives a retry
  (`job.service.ts:91`).
* Presence: a disconnect of one connection against a join of another of the same
  user removes the user from the list (`ActiveUsersAreListed` fails with
  `sockets`); the last-session check counts the sessions of all workspaces
  (`ListedUsersAreActive` fails with `elsewhere`); lists of two overlapping
  handlers are broadcast out of order (`AnnouncementIsCurrent` fails with
  `users`); a user who sends `leave-workspace` stays listed, because only a
  disconnect removes the session (`collaboration.gateway.ts:463`); a crash
  between SADD and EXPIRE leaves a set without the TTL that
  `cleanupExpiredSessions` relies on (`presence.service.ts:81`).
* Tokens: a logout (`POST /auth/logout`, "Revoke refresh token") that reaches an
  instance which did not issue the token verifies it, deletes nothing from its
  own Map and is answered with success, and the issuing instance still exchanges
  the token (`auth.service.ts:182`; `docs/ARCHITECTURE.md` has several instances
  with "No server-side state"). What holds for any number of instances begins
  where the token is deleted: `SpentTokensStaySpent`. Two refreshes of one token
  that overlap give two tokens, and three give three (`overlaps`); a logout while the
  token is being refreshed leaves the new token accepted. Tokens that expire
  unused stay in the Map.
* Workspaces: `updateWorkspace` overlapping a deletion inserts the workspace again,
  without members (`revived`); a change of role overlapping a removal inserts the
  member again (`removed`); a failure between the two saves of `createWorkspace`
  leaves a workspace without members.
* Projects: an update overlapping a deletion inserts the project again (`gone`);
  of two overlapping saves the later loses the keys of the earlier (`overtaken`);
  a failure between the write of a file and its event leaves them out of step
  (`blurred`); the event that tells of a project's deletion is deleted with it.
* Event history: the activity of a user, read while a project is deleted, may miss
  events of other projects, which move to earlier pages; the history's route tells
  no total, so its clients know the end by an empty page only; events created in the
  same instant have no order; the controllers' `page` that is not a number reaches
  the query as NaN.
* Event bus: a client that joins receives its own `user-joined` over the bus; the
  adapters that PING's answer puts in place know none of the sockets already in the
  room, which get nothing more until they join again.

**Bounds.** Jobs do not share state except the worker's slot and its Set, which
two jobs exercise. Two workers show everything that depends on another process;
one worker can already run two handlers of a job, as a timed-out handler no
longer occupies it. Two attempts and one stall contain a first try, a retry and a
redelivery in every order; three attempts a retry of a retry. A delivery's number
is bounded by the model itself (`TypeOK`, proved).
Presence needs two connections of one user and one of another for every branch
of `removeUserSession`, two workspaces for its choice of key, and two slots in
`Handlers` for any pair of handlers to interleave; a third changes nothing a
pair does not show in the properties, which relate two parties. A connection is
opened and closed once; clients that reconnect get another one.
Tokens: two requests give every overlap of a pair, three tokens a login and two
exchanges, or a second session; two ids and two passwords tell the accounts of two
registrations of one address apart, in a spelling each; two instances are each
other's other one.
Workspaces are independent of each other, so one is enough; three users are the
owner, a collaborator who invites and a third about whom the calls are; five ids
let each have a row and each call hold one that is gone. The slots in `Calls`
bound overlap, not the number of calls.
Projects are independent as well; a second user, who makes no calls, opens and
closes the workspace and changes roles; two file ids tell a file from the one
put in its place.
Event bus: two instances are each other's remote one; a second event is needed
for order. `MaxEvents` bounds what is emitted in a behaviour. Event history: five
events on pages of three, or of two (limit 2) or one (limit 0), are up to five
pages, and more may be committed while the first are read.

**Deadlock** is not checked: a finished system stands still (every job settled,
every connection closed, every token expired, every event delivered).

**Fairness.** For jobs: an accepted submission continues, Bull delivers, promotes
delayed jobs and checks for stalled ones (its timers), and a handler that waits
is resumed, because each await is a database call that answers or rejects, or
work bounded by the handler's own timer. Submissions, faults and crashes are not
fair. For presence: Redis answers or rejects each command, and a key that is not
renewed reaches its TTL. Joins, leaves and closing of connections are not fair;
`EventuallyNobody` is conditional on all connections being closed. The other
modules state no fairness: their properties are about what may never happen, and
a request, a query or a message may always be the last.

## 4. Proofs

Checked by TLAPS for all values of the constants. Besides what each module says
of its constants' types, the assumptions are: at least one attempt, a natural
number of stalls (`JobPipeline`); `Lower` is idempotent, and requests and tokens are
finitely many (`RefreshTokens`);
finitely many instances (`EventBus`); no id, token or address is the value `None`
(ids are uuids); a page has a positive maximum of events and readers begin at the
first one (`EventHistory`). Where a guarantee depends on the faults or on what clients do,
the theorem says so with `ASSUME ... PROVE`, in terms of `Faults` or `Behaviours`,
and a run with those constants shows that the assumption leaves the interesting
interleavings in.

Each proof has the same shape: an inductive invariant, whose parts say what each
operation under way knows at each of its awaits; lemmas on the effect of one step
(what it changes of its own caller, and that it leaves the others alone); one step
per action; and a last step in temporal logic. The inductive invariants were checked
with TLC on the instances of section 3 before (`CopyInv` with its assignments
restricted to the copies there are).

### Jobs: JobProofs and JobFinalProofs

| Theorem | Property | Faults |
|---|---|---|
| `TypeCorrect` | `TypeOK` | all |
| `CompletionIsEarned` | `CompletedWasEarned` | all |
| `WorkIsVisible` | `NoWorkWhilePending` | all |
| `QueueCompletesResolvedWork` | `BullCompletesResolvedWork` | all |
| `HandlersAreSequential` | `OneHandlerPerJob` | no `lock`, `timeout` |
| `RecordsStayInAgreement` | `RecordsAgree` | `redis`, `db` |
| `CompletedStaysCompleted` | `CompletedIsFinal` | `redis`, `db` |
| `GuardNeverBlocksRetries` | `GuardForgetsFailures` | no `db`, `ack` |
| `PipelineRefinesLifecycle` | `ImplementsLifecycle` | `redis`, `db` |

* `TypeInv`: that a delivery's number stays within `Deliveries` needs to know that
  a job not yet finally failed has attempts left and stalled at most `MaxStalled`
  times, and that the token names a delivery already counted.
* `WorkInv` follows the handler: at `completing` and after it the work resolved,
  from `marked` on the row has left PENDING, work is done for valid data only.
* `LockInv` ties a live handler to the lock: its delivery is the token. `FinalInv`
  adds who may have written COMPLETED: the delivery that holds the lock and is
  about to return, or one that Bull recorded as completed.
* `GuardAll`: an id in `processedJobs` belongs to a job whose work resolved or to
  a handler there that will still pass `processedJobs.delete`. This needs that
  each delivery gets a slot of its own, so that no second handler takes the place
  of one whose lock was lost.
* `LifeInv` for the refinement: the row says PROCESSING while the one live handler
  works, and is absent exactly until `submitJob` saved it.

### Presence: PresenceProofs

| Theorem | Property | Behaviours |
|---|---|---|
| `TypeCorrectness` | `TypeOK` | all |
| `GatewayAgreesWithRedis` | `SocketsAgreeWithSessions` | `InTurn` |
| `RemainingSessionsAreKnown` | `SessionsAreCounted` | `InTurn` |
| `NobodyIsMissing` | `ActiveUsersAreListed` | `InTurn`, `InOnePlace` |
| `NobodyLingers` | `ListedUsersAreActive` | `InTurn`, `InOnePlace` |
| `NewsIsCurrent` | `AnnouncementIsCurrent` | `OneAtATime` |

`InTurn`: the handlers of one user do not overlap (those of different users may, at
every await), and Redis does not reject, expire or lose an instance. `InOnePlace`: a
user is in one workspace at a time and leaves it by disconnecting. `OneAtATime`: no
two handlers overlap. `PresenceUsers` runs with `InTurn` and `InOnePlace`,
`PresenceSessions` with `OneAtATime`; section 3 has what fails beyond them.

* `Turns`: a user has one handler in flight. From it, a step changes sockets and
  keys of one user only, which lets every later invariant be shown user by user.
* `AgreementInv`: what holds, at each await, of the socket the handler serves: a
  join has set `client.data.workspaceId` before its session is there, a disconnect
  has left the rooms before the session is gone.
* `CountingInv`: which of `user:*:sessions` and the sessions is ahead of the other
  at each await, and that a handler past the last-session check has none left.
* `RoomingInv`, `ListingInv`: a socket is in the room of its session; between
  handlers a user is listed in the workspaces of the sessions and in no other
  (`Settled`), and while a join or a disconnect writes, all there is of the user is in
  the handler's workspace (`Only`).
* `NewsInv`: a list that differs from what was announced has a handler that will
  announce it; what that handler has found, with what it still has to look up, is the
  list.

### Event bus: EventBusProofs

| Theorem | Property |
|---|---|
| `TypeCorrectness` | `TypeOK` |
| `ChannelReachesAll` | `PublishedReachesAll` |
| `NobodyIsFlooded` | `CopiesAreBounded` |
| `LastEventWins` | `ClientsAgree` |

All of them for restarts, losses, broken connections and adapters that come late or
never; `ClientsAgree` itself supposes that nothing was lost. `ChannelReachesAll` is
about the bus: to an instance an event was published to and whose subscriber did not
lose its connection with the event on the way, whatever became of the adapters.

* `OnceInv`: an event is in one command, or after that at most once on the way to
  each instance. `ReachInv`: until it has arrived it is on its way, to every instance
  in its audience; a broken connection takes the instance out of the audience of what
  it lost, and of nothing else.
* `CopyInv` is about counting without a counter: there is an assignment of every copy
  of an event, delivered to a client or under way to it, to the emission it comes
  from, no two to the same (`Accounted`); emissions are made by the origin and by
  each instance that heard the event and will not hear it again (`Spent`). The bound
  is then the cardinality of a finite set.
* `AgreeInv`: once nothing waits to be published, every queue that is not empty ends
  with the final event, and a client that did not get it last will get something more.
  `RelayInv`: only an adapter that is there sends.

### Tokens: TokenProofs

| Theorem | Property |
|---|---|
| `TypeCorrect` | `TypeOK` |
| `RegistrationsAreKept` | `RegistrationIsKept` |
| `RotationKeepsFewTokens` | `ExtraTokensAreOverlaps` |
| `SessionsEnd` | `EndedSessionsStayEnded`, an action property |
| `TokensAreSpentForGood` | `SpentTokensStaySpent`, an action property |

For any number of instances, requests, tokens, users and spellings.

* `TypeInv`: that a token is in one Map only, with the user of its session, needs
  that what is in a Map or held by a request was issued (the next token
  is fresh), that a session's first token has the session's user, and what each pc
  knows of the request.
* That a registration is kept needs that rows of one address are one row, which the
  guard of the insert gives and neither of the two lookups before it, and that every
  row is in lower case, so that the login's lookup finds it.
* `AtHome`: a token being refreshed is in no Map but that of the instance the request
  is at, which is why deleting it there is enough. `LoadInv` counts for each session
  the accepted tokens that no refresh holds, together with the refreshes under way: a
  refresh of a token that no other holds moves one from the first to the second, one
  that overlaps adds to both sides, and an exchange, a failure or a restart adds
  nothing.

### Workspaces: WorkspaceProofs

| Theorem | Property |
|---|---|
| `TypeCorrectness` | `TypeOK` |
| `OwnersStayMembers` | `OwnerIsMember` |
| `RemovalIsFinal` | `RemovedStaysOut` |
| `PromotionIsGranted` | `NobodyPromotesThemselves` |
| `WorkspacesRefineMembership` | `ImplementsMembership` |

* `TypeInv`: the workspace row is its creator's or gone; calls past
  `checkWorkspaceOwnership` are the creator's; a workspace not yet returned has no
  members, no calls and one creation; the member id a call holds names no row but its
  user's, so that the `save` which inserts a deleted row again takes nobody's place.
* `OwnerInv`: a call about to remove or change the owner's row exists only where the
  workspace is gone or was inserted again. `PromotionInv`: no call under way is about
  to grant the role of owner but one the owner granted. `RemovalInv`: no call holds
  the row of who was removed.
* The refinement needs `TypeInv` and `OwnerInv`: each write is `Open`, `Join`,
  `Change`, `Close` or `Reopen` of `Membership`, everything else a stutter.

### Projects: ProjectProofs

| Theorem | Property |
|---|---|
| `TypeCorrectness` | `TypeOK` |
| `DeletionIsFinal` | `DeletedProjectsStayDeleted` |
| `WritesAreEntitled` | `WritersWereEntitled` |
| `LogIsTrue` | `LogTellsFiles` |
| `UpdatesKeepKeys` | `KeysAreKept`, an action property |

* `TypeInv`: foreign keys and unique ids hold because of what calls hold: all calls on
  a project know the same workspace (`FitsHome`), and the id of a row found names no
  other file (`FitsId`).
* `GoneInv`: a project deleted for good has no update under way, and no call finds it.
  `EntitledInv`: past the check the caller was once entitled in the workspace that is
  still the project's. `LogInv`: the calls that wrote a path and have not told of it
  wrote the same thing, and once all have told, the last event says it. `KeyInv`: an
  update that was not overtaken still holds the keys the row has.

### Event history: EventHistoryProofs

| Theorem | Property |
|---|---|
| `TypeCorrectness` | `TypeOK` |
| `EveryOwedEventIsSeen` | `NoEventIsSkipped` |
| `RepeatsArePaidFor` | `RepeatsAreFew` |

For any projects, sizes of page and numbers of events, and any page and limit a
client asks for first, up to page 1 (who begins later skips what is on the first
pages). `ListsAssumption` says that the two names the model gives to "no list" and
to a user's activity are no ids of projects, which are uuids.

* Lemmas on places: a newer row comes before an older one (`RankOrders`), no two have
  the same place (`RankDistinguishes`), every place before that of a row is taken
  (`RanksAreDense`), so that a page with a row behind it is full (`WindowIsFull`).
  They rest on the cardinality of finite sets only: the rows newer than one are
  mapped to their places, an injection into an interval of the same size, hence onto.
* `OwedInv`: an event owed, and not deleted, that was not seen has a place at or after
  `Offset`, where the pages read so far end. Events committed before it move it
  further, projects deleted are other projects, and a page that does not reach it is
  full, so that the reader does not end there.
* `RepeatInv`: what was seen and stands again at or after `Offset` (`Again`)
  will be seen again; `repeats` and the size of `Again` together are at most the
  events committed since the start. An event committed, at any place, moves at
  most one over the edge, because places are distinct, and was not seen itself
  (`pending`); a page takes from `Again` what it adds to `repeats`.

### Only model-checked

* Liveness (`QueueDrains`, `EventuallySettled`, `EventuallyNobody`): TLAPS does not
  reach ENABLED and fairness.

## 5. Plan

Done: all components that keep state are modelled, and every safety and action
property of the passing runs is proved. Left are the hazards without a property, each
with its reason in `PROJECT.json`. Of two kinds: those of which the code promises
nothing, or breaks what one would expect (an overlap that inserts a deleted row
again, a lost update, a row left PENDING, presence under handlers that overlap), where
a property that holds has to exempt them; and those without interleaving, which one
call shows (the total of `presence-updated`, the delete event that goes with its
project, tokens that expire unused).

### Not modelled

DTOs, validation decorators, configuration, bootstrap, health check, the
authentication guard, the exception filter, password hashing and logging keep no
state and decide nothing the properties tell apart. Controllers enter as the
callers of the services. Queries that only list (`getUserWorkspaces`,
`getWorkspaceProjects`, queue statistics) and the contents of results, files,
messages and events are left out; `unsubscribeFromEvents` has no caller.
Migrations and entities enter as the keys, unique constraints and cascades the
services rely on.
