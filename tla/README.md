# Triologue, specified

TLA+ modules of the parts of Triologue where steps of several actors overlap,
the TLC configurations that check them on small instances, and TLAPS proofs of
what matters most. Paths are relative to the repository; `server/src` and
`client/src` are its two programs.

Contents: [the system](#the-system) · [how the code is modelled](#how-the-code-is-modelled) ·
[modules](#modules) · [runs](#runs) · [proofs](#proofs) · [where the code disagrees](#where-the-code-disagrees-with-what-is-said-about-it) ·
[what is not modelled](#what-is-not-modelled) · [plan](#plan)

## The system

Triologue is a chat for people and AI agents. One Node process (Express,
Socket.IO) serves a React client and external agents ("BYOA", bring your own
agent) from a PostgreSQL database, with Redis for presence and one JSON file for
quotas. Nothing forbids a second server process, and a deployment replaces one
by another.

| Component | State it keeps | Operations | What is hard | What makes it correct |
|---|---|---|---|---|
| Agent bearer tokens: `services/agentTokenRotation.ts`, `middleware/byoaAuth.ts`, `routes/agents.ts` | token row (status, isActive, current and previous secret, expiry), user row, memberships | create, activate, reject, suspend, resume, delete, rotate, look up | a rotation under way when an admin revokes; two rotations; a lookup of two queries; three independent writes of a deletion | revoking wins, one rotation wins, no secret returns, no lookup misses, a grace token lives one window |
| Connector approvals: `connectors/proxy.ts`, `routes/approvals.ts` | approval requests | gated call, request, decide | the gate and the decision read first and write later; memberships and accounts change meanwhile | nothing runs unapproved; decisions come from who may decide and stay |
| Daily mention quota: `services/mentionLimiter.ts` | a JSON file, rewritten whole | charge a mention, remove a leaver | overlapping read-change-write cycles, truncated files, crashes, midnight | nobody refused early, or unwarned but by a crash; the quota holds |
| OAuth integration tokens: `services/tokenManager.ts`, `routes/integrations.ts`, `routes/admin.ts` | one token row per provider, scope and user | connect, revoke, refresh on lookup, refresh sweep | a refresh writes long after it read; the provider rotates refresh tokens; crashes | tokens of a row belong together, revocation lasts, deleted accounts keep none, expired ones are handled |
| Messages, threads, pins: `services/socketService.ts`, `routes/{messages,threads,agents,upload,batch}.ts` | messages, threads with counts, pins | five ways to store a message, open a thread, delete, pin, unpin | every check is an await before the write; rooms close and vanish, members leave, accounts go | counts match, threads hold together, stores were allowed, deletion and erasure are final |
| Message list of the client: `stores/{chatStore,socketStore}.ts`, `ChatLayout.tsx`, `MessageList.tsx` | the list, cursor, flags, unread counts, current room (two fields) | open a room, page back, retry, receive events, reconnect | pages and events are unordered; switches during calls; lost events | the list is the room, once each; no page strays; flags end; what is seen is read |
| Rooms and participants: `routes/rooms.ts`, `utils/projectRoomPolicy.ts` | rooms, participants | create, invite, join, leave, delete, export, webhook | memberships mirror project teams | who takes part was let in; a closed room stores nothing |
| Projects, tasks, workflow: `routes/projects.ts`, `services/resultRouterService.ts` | projects, tasks, workflow columns | create, edit, move, hand over, delete tasks, change the workflow | check-then-act on counts, columns, members and assignees, no transaction | tasks stand in open columns, belong to members, are moved by who holds them, and arrivals are announced |
| Project team: `routes/{projects,rooms,agents,auth}.ts` | a list in one column, participants of the linked room | six writers: add, invite, place, register, first access, open | each writes back the whole list it read | nobody who was added is locked out, nobody but the gateway comes in uninvited |
| Registration: `routes/auth.ts`, `routes/admin.ts` | users, invite codes | register, create, delete and close codes | the use count is checked before the password is hashed and counted after | a code is overused only by registrations that overlap, and outlives its creator as a record only |
| Account deletion: `routes/auth.ts` `DELETE /me` | every table | one transaction, then files | what is in flight meanwhile | nothing of the account comes back |
| Agent message gate: `routes/agents.ts` | request times and recent texts, in memory | rate limit, drop duplicates | the text is remembered after the store, restarts forget | only a stored text makes a duplicate; less than twice the limit in a minute |
| Online users: `socketService.ts` | Redis set | connect, register handlers, disconnect | two sockets of a user, Redis away, crashes, a socket that goes early | online means a socket is open |
| Agent status: `routes/agentPresence.ts`, `services/agentPresence.ts`, `UserList.tsx`, `socketStore.ts` | Redis key with a lifetime, the events a browser keeps | report, load, draw | nothing arrives when a status lapses | it leaves the screen all the same, unless it lapsed before the timer was set |
| Inbox: `services/inboxService.ts`, `routes/inbox.ts`, `notificationStore.ts`, `InboxPage.tsx` | items; what the browser holds of them | notify, list, mark read, remove; load, receive | loads, live items, changes and a change of user overlap | the badge is the inbox of who is signed in |
| Task push, result router: `services/*` | none | notify after a change | best effort | nothing spans steps |
| OAuth flow nonces: `services/integrationOAuth.ts` | nonces, in memory | start, callback | restarts, expiry | a nonce is used once |
| Connector registry, MCP bridge: `connectors/` | loaded at start | look up | none | read only |
| Memory entries: `routes/memory.ts`, the workbench plugin | one row with a date in a column and in its payload | create, edit, archive, remove | an edit writes back the payload it read | both dates agree |
| Uploads: `routes/{upload,projects,auth}.ts` | files, and rows that point at them | upload, delete, clean up after an account | file and row are written one after the other | an answered upload keeps its file; deleted accounts keep none |
| User files, secrets, plugins: `routes/*`, `plugins/` | rows of their own | create, edit, delete | check, then create | one row each |
| Module runs: `plugins/moduleRuntimeService.ts`, `builtin/salesWorkbenchPlugin.ts` | instance, run row, cards, tasks, sync rows | start, create or reuse tasks, complete, fail | a dozen writes without a transaction, each may fail, also while failing | every run ends; the tasks of a run are those its sync rows name |
| Teams bridge: `integrations/teams/` | mappings, in memory | webhook, map a channel | first contact twice | one guest per Teams user |
| Thread panel of the client: `stores/threadStore.ts` | thread list with counts, open thread | load, page back, retry, receive | pages, live replies and deletions are unordered | the panel is the thread |

They meet in the database: a handler of one component changes rows that a
handler of another has already read. Deleting an account or an agent touches the
rows of all of them, closing a project stops all stores into its room, and the
server's announcements drive the client's list. Tokens authenticate the agent
routes, and the quota is charged by the routes that store messages. A code lets a
person into a team, the team decides who may hold a task, and a task that moves
makes the server speak in the room.

## How the code is modelled

Three rules hold in every module.

*One statement is one step.* A database statement, or a `$transaction`, is
atomic; between two awaits anything may happen. A handler is therefore a record
in a function over request slots (`req`, `call`, `decide`, `refresher`): what it
has read is in its record, and the step that writes uses the record and not the
present row. Code between two awaits is one step, since Node runs it without
interruption. Handlers that only read, and refusals that change nothing, are
not steps, unless the time at which they read matters.

*The schema is code.* Unique indexes, foreign keys and their delete actions
(`server/prisma/schema.prisma`) are guards or effects of the writes: `RootIsFree`,
`SenderExists`, `Updatable`, the `SetNull` in `AccountDeleted` of Approvals.

*Data that no property reads is gone.* Texts, names, dates of display and
answers are model values or absent; status codes are the difference between
steps. Histories (`charged`, `executed`, `joined`, `wrote`, `raced`, ...) are in the
VARIABLES and marked as such; no action reads one to decide what to do, except
that counters stop at their bound.

The definitions under the comment "Faults" in each module are mutated forms of
definitions below them and are used by no action: each property is known to
fail when one of them takes the original's place (`PROJECT.json`, "mutants").

## Modules

### AgentAccess, AgentTokens

`AgentTokens` models the whole life of an agent's token. `row` is the
`agent_tokens` table, `user` the two columns of `users` that matter, `member` the
memberships, `minted` the secrets drawn so far, `req` the handlers in flight, `now`
the clock.

| Action | Code |
|---|---|
| `CreateAgent`, `Activate`, `Reject`, `Suspend`, `Resume` | routes of `agents.ts`, one transaction or update each |
| `DeleteBegin`, `DeleteUser`, `DeleteToken`, `DeleteRooms`, `DeleteWriteFails` | `DELETE /:id`: a `Promise.all` of three writes, in any order, each of which may fail |
| `RotateBegin`, `RotateSwap`, `RotateConflict` | the gateway check and read, the compare-and-swap of `rotateAgentToken`, the 409 |
| `LookupFirst`, `LookupSecond` | the two queries of `findAgentTokenByRawToken` with the verdict of `resolveActiveAgentToken` |
| `CreatorAccountDeleted` | the part of `DELETE /me` that removes a creator's agents |

`AgentAccess` is what that promises with the handlers hidden: a set of enabled
agents, a current and a grace secret each, and indivisible steps `Issue`, `Enable`,
`Disable`, `Retire`, `Replace`. The refinement mapping reads the three columns off
the row; a rotation is one `Replace` although it takes three awaits, and a
revocation in between makes it no step at all.

### Approvals

`request` is the table, `call` a connector call on its way through
`createConnectorProxy`, `decide` a `PATCH /:id/decide`. The gate finds an approval of
the same agent, action and task not older than `Window` (24 hours) or creates a
request; an approval is not consumed. The decision reads the row
(`DecideRead`), checks entitlement and `pending` (`DecidePasses`, `DecideRefused`), and
updates by id (`DecideWrite`). Teams change (`JoinTeam`, `MembershipLost`) and accounts
go (`AccountDeleted`).

### MentionLimiter

`file` is what is on disk: missing, whole, truncated or corrupt. A call loads
the file, decides and changes its copy without an await, truncates and writes.
`fs.writeFile` is two steps because a reader may come in between, and two writers
may leave a text that does not parse. The warning at the threshold is a step of its own
(`ConsumeWarns`): `socketService` sends it after `consumeMention` has returned, so after the
save. Removing a leaver's entry does the same as a call with a stricter reader.
`Crash` keeps the file as it is, `NextDay` is UTC midnight.

A stop after the save and before the warning leaves the threshold on disk, and
since the code warns at that count only, nobody is warned at the next. The
history `unwarned` collects these users, and `WarnedBeforeDenied` excepts them, and a call
that is refused while another has its warning still to send (`WarningDue`). TLC finds a behaviour
against the property without either exception.

### IntegrationTokens

One provider and scope. `row` has one row per user, `refresher` the refreshes in
flight (of a lookup or a sweep, with the rows a sweep has read), `callback` an
OAuth callback between code exchange and upsert. The provider is external: it
may rotate the refresh token, keep it, refuse, or answer into the void. Pairs of
tokens are numbers, and `access` and `refresh` of a row are the pairs they came
from, which is what `TokensArePaired` compares.

### Messaging

`message`, `thread`, `room`, `member`, `user` are tables, `req` requests in flight. All
ways to store a message go through the same reads (`MemberRead`, `ProjectRead`,
`ThreadRead`) with the differences the routes have, and end in `StoreMessage`, which
for a reply counts it in the same transaction. `ThreadBegin`, `RootRead`,
`CreateThread` open a thread under the unique index on its root. Deletion, pin and
unpin read permission first and update by id. Around them `JoinRoom`,
`RemoveAgent`, `CloseProject`, `ReopenProject`, `DeleteRoom` and `AccountDeleted` take the
ground away. The constant `Kinds` selects the requests an instance looks at, so
that each run spends its states on one question.

### InviteCodes, ProjectTeam, ProjectTasks

Three sides of a project. `InviteCodes` is one code: `Check` reads the row and
compares the use count, `CreateUser` stores the account after the password is
hashed, `Consume` increments, `LookAgain` and `Close` shut a code that is used up.
`RedeemerLeaves` and `CreatorLeaves` are account deletions, which null the columns
that name the account and delete or close the codes it made.

`ProjectTeam` has the list `team` (`teamMemberIds`), the participants of the linked
room, and a record `req` per request with the list it has read. The six writers
differ in order and in what they may write: `AddBegin`, `AddTransaction` (one
transaction), `InviteBegin`, `PlaceBegin`, `Join`, `ReadProject`, `WriteList` (the room
routes), `Register`, `RegisterUpsert`, and the two reads that repair the list,
`AccessBegin`, `AccessCheck` (`resolveProjectWithAccess`) and `OpenBegin`, `OpenList`,
`OpenMerge` (`GET /:id`).

A new room has a second participant, the user `gateway-system`, if there is such an
account (`createProjectRoom`, `POST /api/rooms`): `Init` has both cases. Nobody let it in, and
the first `GET /:id` puts it on the list like any participant. `MembersWereInvited` says
so: it is the one member without an invitation. `docs/deployment.md` makes it an agent
without a password, so it is among the `Agents` of the instance, which are taken out of rooms
and do not delete themselves.

`ProjectTasks` has the columns of the workflow and the tasks. An update reads the
task with its project (`UpdateBegin`), looks up who is affected and whether the
column is open, writes by id, and announces the move last (the result router,
which is called after the commit). Whoever hands over a task or closes a column
is checked against what was read. `raced` is set by a write whose premise has
changed in between; `ColumnsAreEnabled` excepts it, and TLC shows that it must.

### Uploads

`file` is the upload directory, `row` the attachment rows, `at` where they hang. An
upload stores the file (multer), checks, stores the row and reads on; its error
handler removes the file, also when the row is already there, and answers with an
error then. A deletion removes the row, then the file. `LeaveCollect` and `LeaveStep` are the account deletion: collect the names
inside the transaction, commit, remove the files one by one.

### ScreeningRuns

`run` is the status of a run's row, `task` and `sync` what it made, `req` where its
handler stands. `Step(r)` is the handler from the instance (`FindInstance`,
`CreateInstance`) over the row, the emitted event and the card, through one task
and sync row per item of the checklist (`FindSync`, `CreateTask`, `CreateSync`), to
`Complete`, `PostCompleted`, or by any failure to `FailRun`, `PostFailed`. Tasks are
deleted, the plugin is unlinked and the project goes meanwhile.

### AgentGate

`POST /agents/message` before and after the database: `Send` is everything up to
the first await (window, format, control strings, duplicate), `Check` and `Fail` the
queries, `Store` the insert, `Remember` what the handler remembers after it.
`Restart` empties both maps. What the queries ask is in Messaging.

### Presence, AgentStatus

`Presence`: `Connect` puts the name into `online`, `Register` registers the handlers
two queries later, `Disconnect` and `Leave` decide whether others remain and take
the name out. `DropUnregistered` is a socket that goes before its handlers exist.
Redis may be away for any command.

`AgentStatus`: `Report` writes the Redis key with its lifetime, `Emit` tells the
rooms, `Load` and `LoadArrives` are the room request of the browser, `shown` is what
`UserList` drew last, and `timer` its one timer. Drawing and setting the timer are two
steps with two readings of the clock: `Draw` resolves every status at the time of the
rendering (`UserList.tsx:78`), and `Arm` is the effect that runs after it and sets the timer
to the earliest expiry still to come (`UserList.tsx:176-200`). A drawing that finds an effect
still to run runs it first, as React does. `TimerFires` spends the timer and
draws, `Redraw` draws for a reason the effect does not depend on and leaves the timer alone. A report asks for a
time to live of its own, so a later one may lapse first. `Tick` alone draws nothing: that is the point.

A status that lapses between a drawing and its effect stays on the screen without
a timer, until something else draws the list. The history `missed` collects these, and
`LapsedStatusGoes` excepts them and only them; the next drawing of any kind takes them off.

### MemoryEntries

A date stands in `expiresAt`, by which the queries filter, and in the payload,
which readers see. `CreateBegin` and `EditBegin` read, `Access` asks for the project,
`Write` writes by id what the body asks for; `PluginWrites` are the workbench's
entries. A body is what it says of the two dates.

### RoomFeed

One browser and the server's side of it. `log` and `deleted` are the messages,
`todo` the announcements the server still owes, `net` the connection ("joining" is
the time in which the client believes it is connected and the server has not
joined it to its rooms). In the browser `view` is the room of the page,
`currentRoom` and `currentRoomId` are the two fields of the store, `calls` the calls of
`loadMessages` and `loadMoreMessages`, `roomCalls` those of `loadRoom`. A call asks
(`LoadMessages`, `LoadMore`, `NextPage`), the server reads (`ServerReads`), and the answer
lands later (`PageArrives`, `CallFails`). Nothing on the server depends on when an
announcement is made, so it is made and received in one step. The body of an
answer is taken together with its headers.

The history `raced` collects messages of the selected room of which an event was
lost, came early or was overtaken, and `crossed` says that an answer to an outdated
call for the same room has landed. They are the exceptions of `OthersAreExact`;
each was needed (there is a behaviour against the property without it), and each is a
weakness of the client: a socket that reconnects does not reload messages, a snapshot
replaces what arrived live, a late deletion does not remove what a late answer
brings. One of them the proof found and the bounds of the run could not show, because it takes three
messages: `fetchTopLevelPages` has read a first page of nothing but replies and waits for
the second, a message arrives live, and the list that replaces everything contains
neither a page that has it nor the message (`ListIsRead`).

### ThreadPanel

The other list of the same browser: `threads` with their counts, the open thread,
its page cursor and flags, and `counted`, the replies whose live delivery has been
counted. Calls are asked, read by the server and answered in three steps, and
events come on another connection, as in RoomFeed; `raced` and `crossed` have the
same meaning.

### Inbox

`sent` holds the recipients of each notification, so that an item is a pair of a
number and a user; `isRead`, `archived` and `announced` are sets of items. `Notify` is
`createInboxItems`, `Serve` the five routes of `inbox.ts`, `Login` and `Logout` the
effects of `App` and `AppShell` with the load and the reset, `Change` the four buttons
of the page `/inbox`, `ChangeReturns` the load that follows a change, `LoadReturns` and
`ItemArrives` the two ways into the store. What the store keeps beside a page
(`Kept`) is none of the server's items.

The history `missed` says that the store cannot know better before its next load:
an item or an answer was lost, an item came that had been read or removed before,
or a page landed that was older than something the store had seen, which may also
be the page of the user before (`loadInbox` compares nothing when it lands). A load
that lands in order clears it. TLC finds a behaviour against `InboxIsExact` without
each of these exceptions.

### Compositions

The modules whose name begins with MC are for TLC. Five of them put several
modules into one state space: `MCRoom` (RoomFeed, ThreadPanel, Inbox), `MCProjects` (InviteCodes, ProjectTeam, ProjectTasks),
`MCTimers` (IntegrationTokens, AgentStatus), `MCBackground` (Uploads, ScreeningRuns,
Presence) and `MCServer` (MentionLimiter, Approvals, MemoryEntries, AgentGate). A variable, `part` or `store`, is chosen at the
start and says whose behaviour it is; the rest of the state stands still. This is
the sum of the parts and not their product: in each composition no part reads
what another writes except through events that the reading part already has as
actions of its own, at any time and in any order (a registration in ProjectTeam, a
join in ProjectTasks or AgentGate, a deleted account everywhere). A product would
only repeat each part's behaviours side by side. Fairness of a part is asked for
in the behaviours that are its own. In `MCServer` the parts share the cells `v1` to
`v9`, so that a state has no idle columns.

`MCMessaging` has two casts of Messaging instead, because all kinds of requests
by all kinds of people in all rooms are too many states. In the cast "threads" one
member sends, replies and opens threads in two rooms, batches included, while rooms and the account
go and projects stay open. In the cast "message" owner, admin and agent act on one
message of one room: it is stored, deleted, pinned and unpinned while people join, leave and delete
their accounts and the project closes and reopens. The casts only leave out steps of Messaging, so
what holds of all its behaviours holds of theirs; that it holds of all is what
Messaging_proofs shows.

Where parts do interact the interaction is inside one module: tokens and deletion
in AgentTokens, messages, threads, pins, rooms and accounts in Messaging, rooms
and teams in ProjectTeam, the gateway and the browser in AgentStatus.

## Runs

All runs are exhaustive within their bounds. The bounds are chosen so that every
action fires and each fault of a module shows.

| Run | Checks | Bounds and why they suffice |
|---|---|---|
| `agent_tokens` | `SecretsDisjoint`, `RotationKeepsOld`, `SupersededStaysDead`, `LookupNeverMisses`, `ImplementsAccess` | two agents, two handlers in flight and three secrets: one agent can rotate twice, or each once; grace of one tick and a clock of one, so a window is open and over. The proofs remove the bounds |
| `messaging` | `TypeOK`, `RepliesAreCounted`, `ThreadsHoldTogether`, `ErasureIsComplete`, `DeletionIsForGood`, `StoresWereAllowed` | threads: two requests, two rooms, two messages, two threads: a reply into a thread of the other room, two threads for one root. Message: author and owner, admin, agent, two requests: a send or a pin in flight when the account or the message goes |
| `room` | `OthersAreExact`, `RoomInViewIsRead`, `PagesStayInTheirRoom`, `RepliesAreExact`, `InboxIsExact` | two rooms, threads or users, two messages, one deletion, two calls of `loadMessages` and any number of `loadMoreMessages`; pages of one, two pages per call, so that a page of replies is followed by another and one more can be asked for; two items in an inbox that shows one, two requests: an item that moves up, a load that overtakes another. `Explored` bounds the combinations further, see below |
| `projects` | `NobodyIsLockedOut`, `MembersWereInvited`, `CodesAreLimited`, `ColumnsAreEnabled`, `AssigneesWereMembers`, `MoversHeldTheTask`, `ArrivalsAreAnnounced` | team: owner, agent, newcomer, two requests; or owner, agent, the gateway in the room, two requests, while the project stays: the two extra users at once only multiply the states (the proofs have any number). Tasks: one task, a column that is always open and one that is announced and may be closed, two people, two requests. Codes: one use, three newcomers, two registrations, so the last use is overrun and refused |
| `timers` | `TokensArePaired`, `DeletedKeepNoToken`, `RevocationLasts`, `ExpiredIsHandled`, `LapsedStatusGoes` | one row, a sweep, a lookup and a callback at once, three pairs of tokens, one crash; two agents and three reports of one or two ticks of life in three instants: statuses that lapse one after the other, in the order they came or not, one that lapses before its effect runs, and a timer that fires and is set again |
| `background` | `AnsweredFilesStay`, `DeletedFilesGo`, `TasksAreMapped`, `RunsEnd`, `OnlineIsExact` | two files in three places, two requests and a leaver; two runs of three items of which two share a slug; two sockets of one user or of two |
| `server` | `NeverDeniedEarly`, `WarnedBeforeDenied`, `ExecutedWereApproved`, `ScopedAuthority`, `ValidityIsTheExpiry`, `RefusedWereStored`, `RateIsBounded` | quota: two senders, two calls, a leaver, a crash, a midnight, limit 2, warning at 1. Approvals: a call and a decision, two requests, fresh and stale. Memory: one entry, two edits. Gate: four sends of two texts, a limit of two in a window of two ticks, four instants: a window that ends and one that a restart ends |
| `agent_tokens_revoked` | `AcceptedRowsAreActive` fails | one agent, one handler |
| `approvals_redecide` | `DecisionsAreFinal` fails | two decisions that overlap |
| `mention_limiter_overlap` | `QuotaHolds` fails | one sender, two calls |
| `messaging_pin_deleted` | `NeverPinsDeleted` fails | a pin and a deletion |
| `room_feed_dropped` | `LiveMessagesAreKept` fails | one message, two rooms |

Beside the runs there are configurations for closer looks. `MCRoom_types`,
`MCProjects_types`, `MCTimers_types`, `MCBackground_types` and `MCServer_types` check the
type invariants of all parts on the instances above, and what the liveness properties
rest on: `StartedAreInHand`, `DueAreInHand` (background), `ArrivalsAreInHand` (projects),
`TimerIsInTime` and `FiringClears` (timers), which are theorems too. `MCRoom_counts`, `MCBackground_once`,
`MCServer_cleared`, `Presence_left` and `AgentStatus_lapse` show the further
disagreements below.

Symmetry is used for sets whose members no definition tells apart, and never with
a liveness property. Deadlock is checked in `agent_tokens` and the runs of single
modules that expect a violation; elsewhere a part really may stop, because its
account, project, room or code is gone or the bounded clock stands, and the cfg
says so.

*What the bounds cannot show.* Three overlapping requests about one message or
one team; sweeps over several rows; three pages in one call of the client. Pages
are of one message, so the order within a page is not exercised.

`MCRoom` cuts combinations off as well, by the state constraint `Explored`, without which
the run has nearly four times the states: states outside it are checked and not explored
further. A deletion meets two messages and `loadMoreMessages`, or one message and two
calls of `loadMessages`, not all of these at once. Once the list of threads has arrived,
replies, deletions and calls are at most three together; before that nothing of the panel
is cut off, and no step that `RepliesAreExact` looks at reads the list. Items read, items
archived and requests are at most four together. All five properties of the run are proved
in Room_proofs without these limits, and without the other bounds.

*Fairness.* `ExpiredIsHandled`, `LapsedStatusGoes`, `DeletedFilesGo`, `RunsEnd` and
`ArrivalsAreAnnounced` say that something happens; the fairness they need is weak.

| Fair | Why the code justifies it |
|---|---|
| `SweepBegin` (IntegrationTokens) | `startAutoRefresh` runs a sweep every five minutes while the process is up |
| `RefreshStep`, `LeaveStep`, `Step(r)` of ScreeningRuns and ProjectTasks | the rest of a handler that has begun: each await is a database call, a file operation or a `fetch`, which ends in an answer or an error |
| `TimerFires` (AgentStatus) | a timer of the browser that is due fires |
| `Arm` (AgentStatus) | React runs the effects of what it has drawn |

The provider is not assumed to answer, the user not to act, Redis not to be
there, and a process may stop at any time: a crash or restart drops what was in
flight. Where nothing picks it up again the property says so (`spared`,
`stranded`, `settled`, `missed`): an arrival, for instance, counts as settled when the
announcement was attempted, failed, or went with the process. A sweep that was
lost finds its row again.

## Proofs

Each theorem holds for every value of the constants that satisfies the named
assumptions of its module (such as `Grace` being positive, `NoSecret` not being a
secret, the warning threshold lying within the limit). TLC evaluates each assumption
on the instances it checks; where a module is a part of a composition the
assumption is an operator (`Configured` of Approvals: there is an agent and an action,
the window and the last instant are numbers; of Presence: there is a user; of
ScreeningRuns: the checklist is a sequence of slugs; of MemoryEntries and AgentGate: there is
something to send, the limits are positive; of ProjectTasks: an owner, a task, "todo" a core column; of
InviteCodes: finitely many registrations, none by the creator of the codes; of ThreadPanel: a page
holds a reply, the number of replies is bounded; of AgentStatus: there is an agent, the lifetime and
the last instant are numbers; of Inbox: finitely many users), which is the hypothesis of the theorems and which the composition assumes of its instance
(`MemoryAssumption`, `GateAssumption`, `BoardAssumption`, `InviteAssumption`, `PanelAssumption`,
`MailAssumption`, `StatusAssumption`).

The proofs have one shape. A handler writes by what it has read, so the property
about the rows is inductive only together with what is known of every record in
flight. That part of the invariant says which facts survive the steps of the
others; the step lemmas show that they do.

**AgentTokens_proofs.** `Inductive` joins the type invariant and the safety
properties with the two facts they lack: a row that exists holds a minted secret
(so a fresh one cannot collide), and a lookup between its two queries holds a
secret that is nobody's current one (so it can only be in a grace slot, or
dead). `EveryStep` reduces the many actions to six effects on one row: nothing,
created, cleared, enabled, swapped, gone; then each conjunct is kept by each
effect (`KeepsMinted` ... `KeepsLookups`). `RotationKeepsOld`, `SupersededStaysDead`
and `LookupNeverMisses` follow from the invariant and the same six effects, and
`Refinement` maps each effect to a step of `AgentAccess` or to a stutter.

**Server_proofs.** Of the quota: counters are lost in every way, and yet nobody is
refused early. The reason is one fact about every copy of the store, on disk or in a
call's hands: it is *honest*, it counts for no user more than was charged today,
and shows a count past the threshold only for a user who is `Told`: warned today,
about to be, or cut off from it by a stop. The copy in the hands of the call that reaches
the threshold is the exception until it is written, for then nobody knows of it but
the call (`Reached`).
`HonestStays` says that growing histories and a new day keep a store honest,
`AdmittedRecord` that a charge does, `ConsumeWarnsStep` that sending the warning keeps
everybody told, and the step lemmas carry it through every
action. A refusal reads an honest copy, hence `NeverDeniedEarly` and
`WarnedBeforeDenied`. Of the approvals: a behaviour of the composition whose part is
"approvals" is a behaviour of Approvals (`ApprovalsStart`, `ApprovalsStep`), so the
theorems of Approvals_proofs, instantiated with the cells of the composition, hold of it.
Of the memory: an edit writes both dates or neither, and both from one value, and the row
a creation is about to store already agrees (`MemoryInv`). Of the gate: a remembered text
is out of its time or a stored one, so a refusal as a duplicate names a message that
exists; and for the rate (`RateInv`) the messages a window counts are those of
its minute, one of them opened it, and fewer than the limit lie in the minute
before it. Any minute meets two windows at most (`TwoParts`), hence less than twice the
limit; a restart forgets the windows, and the property counts from there. Each part's invariant
holds its types (`ServerIsTyped`).

**Projects_proofs.** *The team:* names are lost from the list by every pair of writers that
overlap, and still nobody who was added is locked out: the participant's row was
stored before the list was read, or the list was written in one transaction with
it, and whoever takes part in the room is put back by the next access
(`OnTheirWay`, `AddedArePresent`). That nobody comes in uninvited needs that every
list a request has read, and everyone it is about to add, was invited or is
the gateway (`Justified`, `LetIn`). `SoundKeepsTheRest`, `RequestStep` and `ListStep` say what a step of any kind
must respect; each writer is then one lemma. *The codes:* the limit is checked before the
account is stored, so it is exceeded, but not by more than what was on its way:
the accounts that count for a code are its `useCount`, and these together with the
registrations between check and count stay below the limit plus the number of
registrations (`UsesInv`). *The board:* an assignee is whom the task had when a request read
it, or whom the request found to be a member (`Entitled`, `UpToDate`); a mover held the task
when the request read it (`Mover`); a column in hand was enabled when the request
began (`ColumnsInv`). Of two overlapping moves into a column each might leave the telling to the
other; none does, because an update keeps silent only about the column it read, whose arrival
was told, or was on its way to be, when it read it (`ToldInv`).

**Room_proofs.** Three arguments, one for each store of the browser. *The list of a room:*
`LoadingHasACall` is not inductive: reconnecting selects the room in view again, and if
that were another room than the selected one, the call that backs the flag would
be for the wrong room. The invariant adds that the room in view is the selected
one, and that announcements name stored messages of known rooms, which
`RoomInViewIsRead` needs. `OthersAreExact` speaks of the moment when nothing is under way; `ListInv`
says of every message of the room where it is until then. One call at most may still change the
list (`OneLatest`; later ones are outdated, and once an outdated one has landed the property is silent).
A message that is kept is older than the cursor, or shown, or announced, or the call will bring it: its answer holds it
or only newer ones, or it is not read yet and asks for it (`Located`). A deleted message that is shown, or
will be, is still to be removed (`Leaving`), and nothing is shown twice or from before the cursor (`ShownOnce`). Pages are put in order by
`InOrder` and messages taken out by `Without`, which are defined in the module because the prover knows no
definition of `SortSeq` and `SelectSeq`; `CanBeOrdered` shows that every finite set of numbers has an order. *The open thread* (`PanelInv`): `RepliesAreExact` speaks of the
same moment, so its invariant too must say where each reply is
until then. A reply that is kept is older than what was asked for, or shown, or on its way: its
announcement is to come, or a page of the open thread holds it or only newer ones
(`Reaches`, `KeptReplies`); a reply that was deleted and is shown, or will be, is
still to be withdrawn (`GoneReplies`). That a page can be joined to what is shown
without a hole rests on what a page is, the newest of a set (`NewestAreLatest`, by
cardinalities, for this list and the other). *The inbox* (`MailInv`): as long as no change is under way that a load has still to fetch,
the store, and every page that is to replace it and was not overtaken, becomes
exact once the announced items have arrived (`ExactPages`). A list of the newest
items can be kept item by item because the newest of a union are the newest of the new
item and the newest of the rest (`NewestStepByStep`), and a page that lands out of
order is marked before it lands (`Marked`).
*The types* of the thread list and the inbox need histories too: a count that is shown is at most
the server's answer and the replies counted since (`CountBounds`), and pages, lists and cursors
hold only stored items (`PanelBounds`, `MailBounds`).

**IntegrationTokens_proofs.** The two tokens of a row come from one grant because
what a refresh writes is made of what the provider gave it and of the row as it
was read (`ReadsAreInOrder`), and what a callback stores is of one exchange
(`GrantsArePaired`). A refresh updates by id whatever row is there, but both columns
at once; the row of a deleted account is gone and an update does not bring it back;
and a revoked row is made active only by a callback or by who read it active
(`HeldActive`). The module extends `MCTimers` and proves the safety half of `LapsedStatusGoes` as well:
once the effect has run, the one timer of AgentStatus is due by the earliest expiry of what is shown,
of those not missed, however events and loads replace it (`TimerIsSet`, `DueBy`). What is shown as
live is the last event (`ShownIsLive`), so the effect, which reads the events at a later time, misses
only what `missed` says (`EffectIsInTime`, `StatusInv`, `TimerComesInTime`). When the timer fires
nothing overdue is left, what had been missed included, and the effect is to run again (`FiringTakesAll`).

**Approvals_proofs.** The gate reads an approval, the connector is called later.
What survives is the history: the request keeps its key and its time of creation, and a
decision once taken was taken (`Through`), so a call that was let through is still
covered when it is executed, whatever is decided again meanwhile. Likewise a
decider who passed the check had the authority at some time (`Authority`), which a
later loss of membership does not undo.

**Messaging_proofs.** A request knows two kinds of things while it waits. `Rights`:
each of its rooms had its sender as a member and was open, at some time since it began, or is gone.
`Aims`: the thread it replies to, or the root of the thread it opens, is where it was
read, or gone, and all of it is in one room. Both survive every step, because
a room that goes never comes back and rows never move. `Invariance` proves this
invariant; three results build on it. `ThreadInvariance` adds
`ThreadsHoldTogether` and `RepliesAreCounted`, the latter by the cardinality lemmas of
FiniteSetTheorems: storing a reply adds one element to the set that is counted,
soft deletion none. `ErasureHolds` adds that a readable message is its writer's as
long as that account exists; `StoresAreAllowed` and `DeletedForGood` are action properties
of the steps from the invariant. That a count stays within its type follows only
here: it is the size of a set of messages.

**Background_proofs.** Three arguments, one for each part of `MCBackground`, for any
files, checklist and sockets. *Uploads:* a file is in the hands of one upload at most
(`UploadsApart`), it has no row before its row is stored, and whoever removes it holds
an upload that was not answered or a row that is gone (`RequestSound`, `RowsSound`).
*Runs:* from the item a run stands at no task exists yet, and before it every task
that is still there is the one of its slug (`RunSound`); a slug without a row when the sync row is
stored cannot have served an earlier item whose task is still there, so a slug that the checklist repeats does no harm.
*Presence:* the two halves of `OnlineIsExact` keep each other; a step changes the sockets
of one user (`SocketOfOne`) or drops them all.

`NoRunIsLeftBehind` and `NoFileIsForgotten` are the safety halves of `RunsEnd` and `DeletedFilesGo`: the
work that must be done is in somebody's hands until it is done or lost with the process. For the files this
joins three moments of the account deletion: what it saw hanging on what goes was
collected, since a row that is there never changes place; the rows that go never come
back, so the lookup does not spare them; and each file of the list is removed or
given up (`DueInv`).

| Theorem | States |
|---|---|
| `TypeCorrect`, in Room_proofs `FeedIsTyped` | the type invariants |
| `ServerIsTyped`, `TimersTypeCorrect`, `StoresAreTyped` | the type invariants of the other compositions, `TypesOK` |
| `TimerComesInTime`, `FiringTakesAll` | the timer of agent statuses is set in time for all but those that lapsed before the effect, and takes all that is overdue |
| `NoRunIsLeftBehind`, `NoFileIsForgotten`, `NoArrivalIsLost` | started runs, files due to go and arrivals to tell are in somebody's hands |
| `SecretsStayDisjoint` | no secret stands in two slots |
| `RevocationWins` | a grace token only on active rows |
| `GraceIsBounded` | a window ends within one window |
| `OneRotationWins` | a replaced token moves to the grace slot |
| `NoSecretReturns` | a superseded secret stays dead |
| `LookupsAreExact` | "unknown" means honoured nowhere |
| `Refinement` | AgentTokens implements AgentAccess |
| `StoresStayHonest`, `NobodyDeniedEarly`, `WarningComesFirst` | the quota's guarantees |
| `ServerDatesAgree` | the two dates of a memory entry agree |
| `ServerRefusesKnownTexts`, `ServerRateIsBounded` | the message gate, for any agents, texts and limits |
| `AddedCanWork`, `OnlyTheInvited` | the team's guarantees, for any people, agents and requests |
| `CodesStayLimited` | the overshoot of an invite code, for any number of registrations |
| `ColumnsStayEnabled`, `AssigneesBelong`, `OnlyHoldersMove` | columns, assignees and movers of tasks, for any tasks and people |
| `PartsAreTypeCorrect` | the type invariants of the three parts of `MCProjects` |
| `FlagsAreBacked`, `ViewIsRead` | the client's flags and unread counts |
| `ListIsExact`, `PagesAreOfTheRoom` | what the list of a room shows, for any rooms, messages, pages and calls |
| `ThreadsShowTheirReplies` | what the open thread shows, for any threads, replies, pages and calls |
| `InboxStaysExact` | what the inbox shows, for any users, items and requests |
| `TokensStayPaired`, `DeletedStayWithoutToken`, `RevocationIsFinal` | the integration rows, for any users, sweeps, lookups and callbacks |
| `ApprovalPrecedesExecution`, `AuthorityFollowsTheTask` | the approval gate and its deciders, for any tasks, people and window |
| `ServerExecutesApproved`, `ServerAuthorityIsScoped` | the same of the composition the run checks |
| `AnsweredStay` | answered uploads, for any files, places and requests |
| `TasksStayMapped` | the tasks of completed runs, for any runs and checklist |
| `OnlineStaysExact` | the set of online users, for any users and sockets |
| `CountsDoNotDrift`, `ThreadsStayTogether` | threads, for any rooms and requests and finitely many messages |
| `ErasureHolds`, `DeletedForGood`, `StoresAreAllowed` | what deletion, erasure and membership promise about messages |

*Only model-checked:* the five liveness properties, because ENABLED and fairness are out
of the prover's reach. Of four of them the theorems above prove the safety half, that
the work is always in somebody's hands; that it is then taken up is fairness, which TLC checks. For
`ExpiredIsHandled` there is no such half: every sweep starts from the rows.

## Where the code disagrees with what is said about it

1. *Revoked agents can authenticate* (`agent_tokens_revoked`). `byoaAuth.ts:61`
   refuses the statuses "pending" and "rejected"; a "revoked" row whose `isActive` an
   admin sets again is accepted while the user row is still active. The header of
   `agentTokenRotation.ts` says a revoked row authenticates nobody.
2. *A decided request is decided again* (`approvals_redecide`).
   `docs/okf/approvals-lifecycle.md:84` says it cannot be; two deciders who both read
   it as pending both write.
3. *The daily limit is exceeded* (`mention_limiter_overlap`). Two calls that both
   read the count before either writes are both admitted.
4. *A deleted message is pinned* (`messaging_pin_deleted`). The pin route checks
   `isDeleted` on what it read and updates by id.
5. *Live messages of the selected room are dropped* (`room_feed_dropped`).
   `chatStore.ts:205` sets `currentRoomId` at once "so socket messages aren't dropped
   while API loads", but `message:new` looks at `currentRoom` first, which is the old
   room until `loadRoom` answers, and for good when it answers with an error status
   or an older call answers last. Messages of the old room are then appended to
   the list of the new one. A message can also be dropped while `loadMessages` is under way:
   between two pages of one call (see [RoomFeed](#roomfeed)).

Six more are shown by configurations outside the runs:

6. *A thread shows more replies than it has* (`MCRoom_counts`). `threadStore.ts:378`
   says that a reply counts once; a reply that is stored before the list of
   threads is read and delivered after it is counted by both.
7. *A completed run fails* (`MCBackground_once`). `docs/PLUGIN_ARCHITECTURE.md` says that a
   run is updated once; when the card of the completion cannot be posted, the
   handler's catch marks the completed run as failed.
8. *An edit clears one of two dates* (`MCServer_cleared`).
   `docs/AGENT_MEMORY_USAGE.md:90` says that the write routes keep the payload's
   `validUntil` equal to `expiresAt`; a body that sets one and clears the other does not
   (`memory.ts:812-824`).
9. *An absent user is online* (`Presence_left`).
   `docs/okf/self-delete-data-retention.md:215` says that the name goes with the last
   socket; a socket that goes before its handlers are registered leaves it.
10. *A lapsed status stays on screen* (`AgentStatus_lapse`). `agentPresence.ts:98` says
    that a status cannot outlive its lifetime; where the room had reported
    details, an event as new as these is shown whatever its expiry
    (`UserList.tsx:83`).
11. *A past expiry is still on the screen* (`AgentStatus_lapse`, `PastHasFallenBack`).
    `UserList.tsx:185-186` says that an expiry already past has fallen back already, and
    sets no timer for it; the effect reads the clock after the drawing did, and what
    lapsed in between has not fallen back. The configuration stops at this one first;
    `LiveStatusesLapse` alone shows the one before.

A comment at `messages.ts:180` says that room admins may delete messages; the
code lets only the sender and system admins do so. The model follows the code
(`MayDelete`).

## What is not modelled

Most of the uncovered lines have no state to model: the texts of two languages
(`LanguageContext.tsx`), pages and components that draw what a store holds, prompt
and document builders, import and export formats, maintenance and deployment
scripts.

- *Out of the modules above:* resolving a thread, drafts and reactions, typing,
  edits; previews, reactions and pins in the client; the user's own messages in
  the client (never unread, removed at once when deleted); `message:created`, which
  no server code emits; equal `createdAt` of two messages; titles, notes, priorities
  and reviewers of tasks; exports, runbooks and contexts of projects, which are
  one JSON column written as a whole; the memory entries of a run.
- *One await and no rule that spans steps:* login and profile, OAuth nonces (a map
  whose entry is read and deleted without an await in between), secrets, plugin
  rows, audit log, task pushes, the context routes, connector
  definitions, agent configuration.
- *Left for later:* file sources of a user (`userFiles.ts` looks for one and creates it;
  two requests create two), guests of the Teams bridge (the same shape), tenant-wide
  integration tokens, pending duplicates of an approval request
  (`proxy.ts:145`: each retry of a call before the decision creates another).

`PROJECT.json` lists each component with its reason.

## Plan

Done: AgentTokens with AgentAccess and proofs; Approvals, MentionLimiter,
IntegrationTokens, Messaging, RoomFeed, ProjectTeam, Uploads, ScreeningRuns, Presence,
ProjectTasks, InviteCodes, AgentGate, MemoryEntries, ThreadPanel and Inbox with proofs;
AgentStatus and the compositions.

| Next | Contents |
|---|---|
| one deletion | AgentTokens and Messaging meet in the deletion of accounts and agents: a module that composes both with `DELETE /me` as one step of both |
