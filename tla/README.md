# Veckomenyn in TLA+

Veckomenyn is a self-hosted weekly menu planner. A Go server keeps plans in
PostgreSQL, an LLM agent edits them through tools while the user chats with it,
and the same agent fills a grocery cart at a shop. This directory models the
parts of it where several actors write the same state, checks them with TLC on
small instances, and proves the central theorems with TLAPS for every value of
the constants.

## Inventory

| Component | State | Operations | Talks to | What makes it correct |
|---|---|---|---|---|
| Plan HTTP handlers (`internal/server/weeks.go`, `dinners.go`, `internal/store`) | `weeks`, `week_dinners`, `dish_ratings`, `week_exceptions`, `retrospectives` | create, delete, patch, clone a plan; rate a dinner; put the retrospective | the tables the agent's tools write, at the same time | rows hang off plans that exist; a patch of the dates leaves one row per day; a clone is complete |
| Agent menu tools (`internal/agent/tools.go`, `wkctx.go`) | the turn's plan binding (a context value); the same tables | add, update, delete dinners and exceptions; update_week; record_retrospective | handlers and other turns, through the database | one chat writes one plan; a locked plan's menu is not edited |
| Chat sessions (`internal/server/chat.go`) | `conversations`, `messages` | choose or create the conversation, load the history, save both messages around the turn | agent loop; the UI's event stream | a plan has one conversation; what was said is not lost |
| Agent loop (`internal/agent/agent.go`) | the message list of one turn | stream, run tool calls, iterate up to the limit, stop on cancellation | LLM provider, tools | every tool call has one result before the next request; a turn ends |
| Willys client (`internal/willys`, `internal/shopping`) | cookies, CSRF token, authenticated flag, the saved session; two locks | login, forced login, retry after an expired session, each API call | the shop | after a login no call goes out anonymously; sessions in use are not thrown away |
| Cart mirror (cart tools in `tools.go`) | `cart_items` beside the shop's cart | add, add many, remove, clear | Willys client | what is in the cart is recorded with its reason |
| Backups and boot (`internal/backup`, `cmd/veckomenyn/main.go`, `store/db.go`) | snapshot files, the schema version | snapshot before migrating, nightly snapshot, prune | pg_dump, restarts | there is a snapshot from before each migration |
| Updates (`internal/updates`, `UpdateBanner.tsx`) | cached release, time of the last trigger; the banner's status, the dismissed version, the marker of an update | check, refresh, tick, trigger; offer, dismiss, apply, poll | the release API, the updater container, restarts | a release that was dismissed stays dismissed; an update is reported as a success once |
| Provider settings (`internal/providers`, `IntegrationsSection.tsx`) | encrypted settings per provider, master key file, mask; the fields of each card | list, upsert, test; edit, save | the UI's forms, restarts | a secret is never replaced by its mask; the cards show what is stored |
| Preferences, settings, setup (`server/preferences.go`, `settings.go`, `setup.go`, `internal/seed`) | `cooking_principles`, `household_settings`; the dialog's pending edits, the interface's language | put, seed, tool updates; debounced PATCH | the agent's prompt | edits made right before closing arrive; the interface speaks the language picked |
| Usage (`internal/usage`) | append-only usage rows | record, sum | agent loop | none that another component relies on |
| Web UI (`web/src`) | URL, loaded plan, chat, editors and their debounces, toast queue, dialogs | events, timers, requests and their answers in any order | the handlers, the server's SSE stream | the URL's plan is shown; text that waits goes to the plan it was typed for; retries write what the field holds; errors stay |

**How they interact.** A chat request opens a server-sent event stream, binds
the turn to the plan the client names (`WithWeekID`), runs the agent loop, and
every tool call of the loop is its own database conversation on the shared
pool. Nothing serialises two turns, or a turn and an HTTP request: PostgreSQL at
READ COMMITTED, the foreign keys and the tools' own checks are all there is. The
shop's session and the update cache are shared in memory behind mutexes;
snapshots and schema migrations happen at boot.

**What is hard.** (1) A tool's scope and status checks run on the pool, and its
write in a later statement or transaction, so a plan may be locked, deleted or
patched in between. (2) PATCH and clone read dates first and compute with them
later. (3) The date arithmetic has many cases: pack, slide, truncate, extend.
(4) The login state is written by concurrent calls outside one lock.
(5) Upstream effects (cart) and their record are two systems. (6) Retention and
guards are reconstructed after restarts from files or not at all. (7) In the
browser nothing waits: debounces, retries, answers and navigation meet in any
order, and components are mounted and unmounted under their requests.
`PROJECT.json` lists each hazard at its line, with the properties that cover it,
or why none does.

## Modules

| Module | Models | EXTENDS |
|---|---|---|
| `PlanSchedule` | the date arithmetic of `handlePatchWeek` and `handleCloneWeek` as operators on a dinner table: `Pack`, `Truncate`, `AddSlots`, `CopyDinners`, `UncoveredDays`, `PatchDates`, `PatchDinners` | Integers, FiniteSets |
| `PlanStore` | the plan tables and everything that writes them: HTTP handlers and agent tools, interleaved | `PlanSchedule` |
| `MCPlanStore` | seeded initial states for TLC | `PlanStore` |
| `PlanStoreProofs` | lemmas on ranks, on what a patch and a clone do to the dinner table; the inductive invariant and the theorems | `PlanStore`, TLAPS |
| `WillysSession` | the shop session that all chats share: `willys.Client`, `WillysProvider`, overlapping calls, the shop's answers | Integers |
| `WillysSessionProofs` | its inductive invariants and theorems | `WillysSession`, TLAPS |
| `BackupBoot` | the boot (dump, prune, migrate), the nightly scheduler and the backup requests, over restarts and exchanged releases | Integers, FiniteSets |
| `MCBackupBoot` | seeded initial states and the symmetry of requests for TLC | `BackupBoot` |
| `ChatServer` | the server's side of the chat: the choice of the conversation, the agent loop, the event stream, what is stored | Integers, Sequences |
| `ChatTab` | a tab of the browser, its loader, chat and event reducer, composed with `ChatServer` | `ChatServer`, FiniteSets |
| `ChatProofs` | the inductive invariant of the two and its theorems | `ChatTab`, TLAPS |
| `PlanBook` | what the plan store promises to its users: a book of plans, each a document of its own | Naturals |
| `PlanBookProofs` | that `PlanStore` implements `PlanBook`; what clones and patches leave of a schedule, from the seeded states as well | `MCPlans`, `PlanStoreProofs` |
| `CartMirror` | the tools that change the shop's cart and the list of the plan beside it | Naturals, Sequences |
| `CartMirrorProofs` | its inductive invariants and theorems, and that `MCShop` keeps what its parts promise | `MCShop`, `WillysSessionProofs` |
| `MCPlans` | `PlanStore` from two sides in one instance for TLC: all tables, and dates | `MCPlanStore` |
| `MCShop` | the shop's session and the shopping lists in one instance for TLC | `WillysSession`, `CartMirror` |
| `MCChat` | the bounds of the chat's safety checks | `ChatTab` |
| `MCEnds` | the chat and the shop's session in one instance for what must end | `ChatTab`; an INSTANCE of `WillysSession` |
| `Updates` | the release cache, the auto-updater, the trigger and the banner of a tab | Integers |
| `ServerProofs` | the inductive invariants and theorems of `BackupBoot` and `Updates`, and of the two as `MCServer` has them | `MCServer`, TLAPS |
| `MCServer` | backups and updates in one instance for TLC | `MCBackupBoot`, `Updates` |
| `Toasts` | the queue of notices | Naturals, Sequences, FiniteSets |
| `WeekReview` | the retrospective with its debounce, retries and Retry button, and the verdict on a dinner | `Toasts` |
| `PlanPage` | the page of a plan: URL, loader, header, status, forms, duplication, deletion | `WeekReview` |
| `Settings` | the household's settings: the row, the dialog with its debounced PATCH, the language | Naturals |
| `Integrations` | the providers' cards, their secrets and masks, the handlers that merge them | Naturals |
| `PageProofs` | lemmas on the queue of notices; the inductive invariants and theorems of the page | `PlanPage`, TLAPS |
| `DialogProofs` | the inductive invariants and theorems of the settings and the cards, and that `MCWeb` is its parts | `MCWeb`, `PageProofs`, TLAPS |
| `MCWeb` | the page, the settings and the cards in one instance for TLC | `PlanPage`, `Settings`, `Integrations` |

Components that interact are composed: the tab with the chat's server in
`ChatTab`, handlers with tools in `PlanStore`, the browser's parts with the rows
they write in `PlanPage`, `Settings`, `Integrations` and `Updates`. Between the
models no state is shared that one could disturb in another: the shop session
and the files in `BACKUP_DIR` are written by code of their own; the chat knows
of a plan only a version that counts its writes, the shopping lists only whether
it exists, whatever `PlanStore` shows these to be; and the process that `Updates`
replaces in one step boots as `BackupBoot` says. That is why `MCServer`, `MCShop`,
`MCEnds` and `MCWeb` put parts side by side in one run: a behaviour follows the
part that `focus` names, and the others rest. In `MCPlans` it names the bounds.

### State of PlanStore

| Variable | Code |
|---|---|
| `weeks`, `dinners`, `rating`, `exceptions`, `retros` | the tables `weeks`, `week_dinners`, `dish_ratings`, `week_exceptions`, `retrospectives`; a function from ids to rows, with `NoWeek`, `NoDinner`, `NoException`, `"none"` and 0 for a missing row |
| `nextWeek`, `nextDinner`, `nextException` | the identity sequences. They are not rolled back: a clone in flight has already taken its id |
| `bound` | the plan id in the context of a chat's turn (`WithWeekID`), 0 without one |
| `pending` | for each turn or request, what it has read and not yet written: its operation, its target, and the dates a patch or a clone computes from |

Dishes and exception texts are members of a small set; days are integers; the
status is `"draft"` or not, since no code in the model tells the others apart.
`sort_order` is 0 in every row the program writes, so ordering by day, sort
order and id is ordering by day and id. A plan's label, delivery date, order
date and notes are left out: nothing computes with them.

### Actions of PlanStore

A statement or transaction is one action: its effects become visible at once. A
handler or tool that reads outside the transaction (or, at READ COMMITTED, in an
earlier statement of it) and writes later is two, with the operation in
`pending` between them.

| Code | Actions |
|---|---|
| `handleCreateWeek`, `create_week` | `CreateWeek` |
| `handleDeleteWeek` | `DeleteWeek`, with the cascades of the schema |
| `handlePatchWeek` | `ReadPatch`; `CommitPatch` from the side effects to the commit, `EndBeforeStart` the 400 |
| `handleCloneWeek` | `BeginClone` (read the source, take the id), `CommitClone` (copy the rows there are now, pad the uncovered days) |
| rating handlers | `SetDinnerRating`, `ClearDinnerRating` |
| `UpsertWeekRetrospective` | `UpdateRetrospective` (found no row), `InsertRetrospective` |
| `handleChat` | `StartTurn`; the binding may be to a plan that has just been deleted |
| `ResolvePlan`, `CheckDinnerInScope`, `EnsureEditable` | operators `ResolvePlan`, `InScope`, `EnsureEditable` |
| add, update, delete dinner and exception tools | `CheckAddDinner`, `CheckDinner`, `CheckAddException`, `CheckException`; then `AddDinner`, `UpdateDinner`, `DeleteDinner`, `AddException`, `UpdateException`, `DeleteException` |
| `update_week` | `AgentUpdateWeek`, one UPDATE without a status guard |
| `record_retrospective` | `RecordRetrospective`, one transaction that a foreign dinner rolls back |
| a failed statement, a cancelled turn, a server that dies | `Abandon`: nothing was committed |

Two simplifications. The statements of a PATCH after its read are one action:
a dinner added between its packing and its truncation is seen by both or by
neither (for the clone this loses nothing, because only its first statement
reads rows that others write). A PATCH without any field, which commits nothing,
is left out.

### State of WillysSession

| Variable | Code |
|---|---|
| `creds` | the account that Settings holds (`WillysCredentials`), 0 without one |
| `known`, `mu` | `WillysProvider.creds`, the account of the last login; `WillysProvider.mu`, the chat that logs in |
| `acct` | the credentials that `Login` was called with |
| `cookie`, `csrf`, `authenticated` | the client's cookies (whose session they are), CSRF token, flag |
| `saved` | the row of `willys_session` |
| `pc`, `job` | for each chat the request or check its call is at; its kind and whether `fn` is in its first or second try |
| `reply` | the shop's answer to the chat's request, on its way |
| `seen` | history: the accounts Settings has held since the call was last checked. No action reads it |
| `calm` | chosen once: in calm behaviours calls do not overlap and no answer is lost or failed; in the others both happen |

A request is two actions. `Send` is `do` up to the shop: the cookie it carries
is the one of that moment and the shop answers by it. The answer's cookies are
stored later, by the action that consumes it, without any lock held in between:
that is where one call's login meets another's requests.

| Code | Actions |
|---|---|
| `withAuth`, `ensureLoggedIn` | `Start`; `Acquire` = `NotConfigured`, `StillLoggedIn` or `BeginLogin`; `RetryOnce` after an authentication error |
| `Login` | `LoginStep` (config page, CSRF token, login, redirect, CSRF token), then `Confirm`, `Reject` or `LoginError` |
| `requireAuth`, `needsCSRF`, `ensureSession` | `CheckAuth`, `NotNeeded` |
| search, cart and order calls | `GetToken`, `Answered`, `Refused`, `CallError`. The kinds are `"search"`, `"get"` (a read: cart, order history, one order), `"add"` (a write and a read: add, remove) and `"clear"` (a write) |
| Settings, restart | `SetCreds`, `Restart` (the saved session is loaded, and cleared before the first login, since no account is known) |

The shop (`Answers`, `Whose`, `Fresh`, `Expire`) is external and as the client
treats it: it hands out an anonymous session with its config page or with a CSRF
token asked for without a live session; a login answers with the account's
session, with an anonymous one, or 401; a session may end at any time and then
gets 401 on cart and search; an anonymous session is served a cart; a write may
be refused for its token; other endpoints set no session.

### State of BackupBoot

| Variable | Code |
|---|---|
| `env` | what `main` finds: no snapshotter, a read-only one (no pg_dump) or a full one; `VECKOMENYN_SKIP_PREMIGRATION_BACKUP` |
| `now` | the clock, in the seconds that file names have |
| `binary`, `schema` | the release in the container (release v carries migrations 1..v); the version in `goose_db_version`, or `NoTracker` |
| `pc` | where `main` is: off, dumping, pruning, migrating, serving |
| `files` | the dumps in `BACKUP_DIR`: the reason and time in the name, the modification time, and two things that only a restore would tell: the schema dumped and whether the file is whole |
| `dump` | for the boot, the scheduler and each request, when the dump it is writing began |
| `config` | the row of `backup_config` |
| `keep`, `victims`, `lastAt` | of the scheduler: the `nightly_keep` that the tick under way has read, the list that its Prune is working off, `Scheduler.lastAt` |
| `from`, `left`, `attempts`, `clash`, `saved` | history, read by no action: the schema this boot found, the schema of the last server, the dumps that boots have begun since, the seconds in which requests met, the backups reported to the user |

| Code | Actions |
|---|---|
| `preMigrationBackup` | `BootPlain` (nothing pending, no snapshotter, or the skip flag), `BootDump`, `BootDumped` or `BootDumpFailed`, `BootPrune` |
| `store.Migrate`, the rest of `main` | `MigrateOne` once per migration, `MigrateFailed` at any of them or later, `Serve` |
| exit, kill, `restart: unless-stopped`, another image | `Stop` anywhere, the boot actions again, `Install` |
| `Scheduler.tick` | `NotDue`; `NightDump`, then `NightDumped` or `NightFailed`; `NightList` and `NightRemove` for Prune's list and each removal |
| `handleCreateBackup` | `CreateBackup`, `BackupSaved`, `BackupFailed` |
| `handleDeleteBackup`, `handlePatchBackupConfig` | `DeleteBackup`, `PatchConfig` |

A dump is two steps, so whatever stops the process between them leaves a partial
file, which `List` shows and `Prune` counts. Prune is split into its list and its
removals in the serving process, where a user can delete in between, and is one
step in the boot, where nobody can. Simplifications: a dump that succeeds takes
at least a second; a directory can be listed (an error of `List` on a cold start
would take one nightly dump too many); `sanitizeLabel` and the label are left
out, since nothing selects by label.

### State of ChatServer and ChatTab

A turn is one POST to `/api/chat`. The server's variables:

| Variable | Code |
|---|---|
| `version` | of each plan, the number of its writes; 0 when it is deleted |
| `convs`, `clock`, `rows` | `conversations` with `week_id` and `updated_at`, the clock of the latter, `messages`. A conversation has the number of the turn that created it |
| `turn` | of each turn its place in `handleChat` and `Run`, the request's two ids, its conversation, the messages its history has, its rounds (calls, results, stop reason) and how many chunks are in `assistantBuf`; two fields, `kept` and `ver`, only serve properties |
| `wire`, `hungup` | the events that the browser has not read; the requests it has aborted |
| `work`, `upsets` | what the bounds count |

and the tab's (`App.tsx`): `route` (the plan of the URL), `week` and `ver` (the
plan loaded), `status`, `load` (the loader's request), `conv`
(`conversationID`), `fill` (the request of `getWeekConversation`), `entries`,
`busy`, `cur` and `fresh` (the closure of `send`: its turn, and whether its
`conversationID` was null), `at` and `tools` (`assistantIndex`, `toolsByID`),
`clearing` (the request of `clearChat`), `patch` (the request of
`patchCurrentWeek`), and, for properties only, `cut`, the turns cancelled or lost
with their server, and `late`, whether the plan on display is the answer of a PATCH
that was read before a turn ended and came after it.

| Code | Actions |
|---|---|
| `handleChat`, `ensureConversation` | `Post`; `UseConversation`, or `NoConversation` and `InsertConversation`; `Refuse` for each 500 |
| `loadHistory`, `saveMessage` | `LoadHistory`, `SaveUser` |
| `Agent.Run`, `RunStream` | `Say`, `ModelStops`, `ModelFails`; `CallTool`, `ToolReturns`; `NextRound`, `Done`, `GiveUp` |
| the end of `handleChat` | `Finish` |
| the plan's handlers, restarts | `DeleteConversations`, `DeletePlan`, `PatchPlan`, `Crash` |
| the loader | `Go`, `Refresh`, `ServeLoad`, `GotLoad`, `NotLoaded` |
| the chat of a plan | `ServeFill`, `GotFill`, `Clear`, `ServeClear`, `Cleared` |
| `send`, `handleAgentEvent`, `applyAgentEvent` | `Send`; `HearMeta`, `HearText`, `HearCall`, `HearResult`, `HearError`, `HearEnd`, `HearFailure`; `Cancel` |
| `patchCurrentWeek` | `Patch`, `ServePatch`, `GotPatch`, `PatchFails` |
| `deletePlan`, another tab | `DeleteShown`, `DeleteElsewhere` |

A request of the tab is three steps: it is asked, the database answers it, and
the answer arrives, unless the effect was run again in between. Every statement
of a turn is a step, and so is every event: a connection holds `MaxWire` of
them, and a handler whose event does not fit waits. A chunk of text has its turn and
its number there, in the event and in the entry that shows it; a stored message says
how many it has. Simplifications: the SELECT
of an explicit conversation and the update of its `updated_at` are one step,
and so are the two SELECTs of a plan's chat; the answer to the deletion of a
plan arrives with the deletion; a tool's write is one step and at most one plan;
one PATCH is under way at a time, and its write and the reads for its answer are
one step; a plan that is created gives way to its page and a load, and is in
`PlanPage` only; a cancelled context ends a stream or fails a call, which `ModelFails` and the
outcome `"failed"` may do at any time; the event `"cancelled"` is left out,
because it is written when nobody reads any more.

### PlanBook

`book` maps plans to documents; `numbered` is the next number and `reserved` has
the numbers of copies in the making. A step publishes, begins, finishes or gives
up a copy, writes one document or removes it. `PlanStore` defines a document as a
plan's row with its dinners, their ratings, its exceptions and its retrospective,
and instantiates `PlanBook` with it (`Book`, `KeepsBook`).

### State of CartMirror

| Variable | Code |
|---|---|
| `cart` | the one cart of the household at the shop |
| `lists`, `nextItem` | the plans that exist, with their rows of `cart_items`, and the number the next row gets |
| `tool` | of each chat, the call it makes: its kind, the plan of its turn, the lines still to send, the lines the shop took |
| `taken`, `last` | history: what the shop took for a plan; the plan whose call changed a product last |
| `mirrored` | chosen once: calls do not overlap and nothing fails |

| Code | Actions |
|---|---|
| the tools `willys_cart_add`, `..._add_many`, `..._remove`, `..._clear` | `AddOne`, `AddMany`, `RemoveOne`, `ClearAll`, up to the shop |
| `CartAdd`, `CartRemove`, `CartClear`, `CartGet` | `Takes`, `ShopFails`, `Clears`, `Reloads`; a call that failed may have changed the cart |
| INSERT and DELETE of `cart_items` | `Inserts`, `Deletes`, one row or statement each; an error is logged and the call goes on |
| deletion of a plan, restart | `DeletePlan`, `ToolsEnd` |

What the user changes in the shop by hand is left out: no list follows it.

### State of Updates

| Variable | Code |
|---|---|
| `released`, `version` | the newest release upstream; the one that runs |
| `cached`, `fresh`, `since` | `Checker.cached`, whether `fetchedAt` is within the TTL, the hours since `AutoUpdater.lastAt` |
| `pulling` | whether the updater container has been asked |
| `asks` | the calls of the checker under way: of the banner, of Settings, of a page that is gone, of a tick; where each is |
| `offer`, `dismissed`, `marker`, `applyState`, `target`, `landed` | the banner's status, the versions in `localStorage` and `sessionStorage`, `applyState`, the version that polling waits for, the marker that the page asks the version for |
| `hushed`, `clicks`, `owed` | history: what was dismissed; the clicks on the update button, and those neither failed nor reported |
| `orderly` | chosen once: no call of the checker starts while another is under way |

| Code | Actions |
|---|---|
| `Status`, `Refresh`, `fetchAndCache` | operator `Status`; `Fetched` (upstream's answer), `Cache` (under the lock, with what is cached when it failed) |
| `AutoUpdater.tick` | `Tick`, `Decide`, `AutoFire`, which sets `lastAt` only when the trigger answered |
| `handleApplyUpdate`, `Trigger.Fire` | `Applied`; `Fire`, which reaches the container or not |
| the container, `compose up` | `Replace` (the process's memory and calls are gone), `PullFails` |
| a page | `Reload`; `GetAnswered` with the effect that lifts a dismissal, `Check`, `CheckAnswered`, `AskLost` |
| `onDismiss`, `onApply` and its polling | `DismissOffer`; `Apply`, `ApplyFailed`, `Poll`, `GiveUp` |
| the marker's effect | `Landed`, `LandedFails` |
| an hour passes, a release is cut | `Hour`, `Release` |

There is one tab, the trigger is set up, and whether automatic updates are on is
read at a tick as either value: a tick of the model may simply not come.

### State of the web interface's modules

`PlanPage` (with `WeekReview` and `Toasts`):

| Variable | Code |
|---|---|
| `plans` | the server's rows, by plan: status, notes, days, retrospective, the verdict on its dinner and the note to it |
| `jobs` | the requests and timers of the page: kind, plan, what they carry, whose they are, and whether they wait for a debounce, are sent, done, refused, or wait for a retry |
| `toasts` | the queue of `lib/toast.ts`; a notice with a Retry button has the job it repeats |
| `props`, `retro`, `tries`, `verdict` | what `WeekReview` renders; value, saved text, `dirty` and timer refs of `WeekRetrospective`; `attemptsRef` per instance; state and timer of `RatingControl` |
| `route`, `page`, `status`, `load` | the URL, `week`, the loader's status and request |
| `edit`, `form`, `dup` | the notes editor, the busy form, the dialog that duplicates |
| `work`, `calm` | what is bounded; chosen once: a calm user does one thing at a time, nobody else writes, and requests fail only before they reach the server |

| Code | Actions |
|---|---|
| the loader and the URL | `Go`, `Refresh`, `ServeLoad`, `Loaded`, `LoadFailed` |
| `EditableText`, status and end of the header | `OpenNotes`, `DraftNotes`, `CloseNotes`, `CommitNotes`, `PickStatus`, `PickEnd`; `ServePatch`, `PatchDone`, `PatchFailed` |
| `PlanNewForm`, the duplicate dialog, deletion | `Submit`, `Created`, `CreateFailed`; `Duplicate`, `CancelDuplicate`, `ConfirmDuplicate`, `Cloned`, `CloneFailed`; `Delete`, `Deleted`, `DeleteFailed` |
| `WeekRetrospective` | `Type`, `Due` (debounce and retry timers), `RetroSaved`, `RetroFailed`, `Again` (the Retry button) |
| `RatingControl` | `Rate`, `Comment`, `Unrate`, `RateSaved`, `RateFailed` |
| rendering | operators `Show` (the effects of a new URL, plan or status), `Render`, `Reset`, `Leave` (mounting and unmounting the controls) |
| `add`, `capQueue`, `dismiss` of the toasts | operators `Add`, `CapQueue`, `Dismiss`; `Close` |
| the chat's tools, another tab | `Elsewhere` |

`Settings`: `household` is the row; `settings`, `pendingPatch`, `saveTimer` and
`opened` are the dialog's state, `mounted` whether `Main` is there, `lang` is
`currentLang`, `calls` the requests; `promised` is history, the edits that the
user can count on. `OpenSettings`, `Edit` (`update` with `scheduleSave`),
`SaveDue` and `CloseSettings` (`flush`), `LeaveMain` and `ReturnMain` (the print
view), `WriteSettings` and `ReadSettings` (the handler's two statements),
`SetElsewhere`, `SettingsAnswered`, `SettingsFailed`.

`Integrations`: `providers` is the table, `boot` the process whose mask is handed
out, `listed` and `cards` the rows and the fields, `saving` the request a card
waits for, `requests` what is under way, `steady` a user who waits while nobody
else saves. `EditCard`, `SaveCard`, `Reopen`, `SaveInOtherTab`; `List`,
`UpsertReads` and `UpsertWrites` (no transaction between them), `Reboot`;
`Listed`, `Saved`, `RequestFailed`. A key is unset, one that users type, or the
mask of a process; the other fields of a provider are one.

In all three a request is served and answered in different steps and may be lost
before or after it is served.

## Properties and runs

| Run | Checks | Shows |
|---|---|---|
| `plans` | `TypeOK`, `NoOrphans`, `PendingInScope`, `ScopeIsolation`, `RowIdentity`, `LockedPlanDrains`, `KeepsBook`, `FreshPatchKeepsSchedule`, `CloneIsComplete` | two plans, one turn and one request at a time with every table and every action; and from each plan of up to two dinners in any place, patches, and clones whose source changes under them: 175,393 states |
| `locked_menu_race` | `LockedMenuFrozen` (violated) | see Findings |
| `patch_dates` | `PatchKeepsDatesOrdered` (violated) | see Findings |
| `shop` | `TypeOK`, `NoStaleAccount`, `CalmNoGuestCart`, `CartIsListed`, `RecordsWereAdded` | two chats and two accounts, with every overlap of logins and calls, failed and lost answers, ended sessions, changed settings and restarts; and the shopping lists of two plans under the calls of two chats: 1.6 million states up to symmetry |
| `session_guest` | `NoGuestCart` (violated) | see Findings |
| `server` | `ServerTypeOK`, `MigratesOverDump`, `UpgradeUndoable`, `NightliesSpaced`, `SavedBackupStays`, `CalmDismissed`, `SuccessOnce` | three releases, two backup requests, kills and restarts anywhere; and a cache, an auto-updater and a tab through two releases: 5.0 million states |
| `upgrade_loop` | `PreviousVersionKept` (violated) | see Findings |
| `chat` | `TypeOK`, `RequestWhole`, `ShownIsStored`, `CardsSettle`, `MenuFresh` | a tab with two plans and two messages, every event, cancel, failure, deletion, PATCH and restart between the steps of the turns: 2.7 million states |
| `chat_patch` | `MenuLive` (violated) | see Findings |
| `chat_one_plan` | `OnePlanPerChat` (violated) | see Findings |
| `ends` | `BusyEnds`, `CallsEnd` | turns of two messages, and the shop calls of two chats, all end: 168,291 states |
| `web` | `WebTypeOK`, `UrlWins`, `PendingIsShown`, `CalmDirty`, `CalmFresh`, `RetriesEnd`, `RetryIsLatest`, `ErrorsStay`, `EditsArrive`, `LangFollows`, `MaskIsNoKey`, `CardsAreStored` | a page over two plans, a settings dialog, and a provider's card over a restart: 1.7 million states |

* `NoOrphans`: no dinner, exception or retrospective of a deleted plan, no
  rating of a deleted dinner, although writes checked before the deletion land
  after it.
* `PendingInScope`: what a bound chat is about to write is still in its own plan
  or gone, so the check-then-write of `CheckDinnerInScope` is sound.
* `ScopeIsolation`: a step that changes another plan's row is never a write of a
  chat tied to a plan. `RowIdentity`, that rows do not change plans and deleted
  ones do not return, is why.
* `LockedPlanDrains`: the status check is not atomic with the write, so edits
  already checked may still land on a locked plan; what the code does guarantee
  is that no further ones join them.
* `FreshPatchKeepsSchedule`: a PATCH of one date on a plan with one row per day
  leaves one row per day, if the dates it read are still the plan's. A PATCH of
  both dates is excluded because its resize is measured against the old end by
  design of the code: that is the one that `patch_dates` is about.
* `CloneIsComplete`: a clone has exactly one row for each of its days: a copy of
  every dinner of the source, in its order, and empty slots for the rest, and it
  leaves the source alone. Only when the source has one row on each of its days
  does the property say that every dinner is shifted by the same offset: with gaps
  the comments of the handler disagree with each other, and `CloneShiftsDates`,
  which states the first of them, is violated.

* `NoStaleAccount`: a cart request is never served in the session of an account
  that Settings had already replaced when the call was checked, although another
  call may log in between the check and the request.
* `CalmNoGuestCart`: while calls do not overlap and no answer is lost, no cart
  request is served to an anonymous session, whatever expires, is refused,
  restarts or changes in Settings. `NoGuestCart`, the same without the
  condition, is what the comment in `Login` says, and is violated.
* `CallsEnd`: a shop call returns: retries end, and every path gives the login
  mutex back.

* `MigratesOverDump`: when a migration of this boot has been applied, a whole
  dump of the schema this boot found is on disk, although partial dumps of
  earlier boots count in its retention. It holds for `BACKUP_DIR` set and the
  skip flag unset, which is what the code promises.
* `UpgradeUndoable`: while an upgrade has not come up, a whole dump of what the
  last server left is on disk, as long as no more boots have begun a dump than
  are kept. `PreviousVersionKept`, the same without the condition, is what
  `docs/backups.md` says, and is violated.
* `NightliesSpaced`: no two nightly dumps are less than a day apart, though
  `lastAt` is lost with the process and taken from files that may be partial,
  pruned or deleted.
* `SavedBackupStays`: a manual backup that was answered with 200 stays, whole,
  until the user deletes it; two requests in one second are excluded, because
  they write the same file and one that fails removes it.

* `RequestWhole`: a request to the model has the result of each call of the
  rounds before, in order, although calls fail and answers stop for other
  reasons than tools, and the turn's message is in it once.
* `ShownIsStored`: every chunk of text that a tab shows is in a stored message when
  its turn is over, also when it was cancelled, failed in a later round or its plan
  was deleted; a statement that fails, a crash and a cleared chat are excluded.
* `CardsSettle`: the card of a call has that call's result, or none while the
  turn runs or when it was cut, although other events, and a chat fetched
  meanwhile, move the list that the cards are found in by index.
* `MenuFresh`: an idle tab shows its plan as it was when the last turns about it
  ended, or newer, although it may have been on another page or its last fetch
  was answered before the last write, and some tools announce nothing. Turns that
  were cancelled are excluded: the tool under way may write after the last fetch.
  So is one display of the plan: the answer of a PATCH that was read before a turn
  ended and came after it (`late`), until the plan is loaded again. `MenuLive`, the
  same without that exclusion, is what the comments say, and is violated. A PATCH
  answered and received between the same two ends of turns is not excluded, nor is
  a loader's answer ever.
* `BusyEnds`: a tab that is busy gets its input back. `OnePlanPerChat` is what
  the system prompt says, and is violated.

* `KeepsBook`: `PlanStore` implements `PlanBook`. However handlers and tools
  interleave, a step writes one plan at most, a plan is published once and under
  a number of its own, and a deleted one is gone for good.
* `CartIsListed`: a product whose last change in the cart was made for a plan is in
  that plan's list exactly if it is in the cart, and one of its rows there has the
  quantity of the cart, whatever other plans' chats did before. It is about calls
  that do not overlap or fail; with a failure between shop and database the code
  records less, by design. It does not say that there is one row: readers of the
  list show and sum all rows of a product, and `ListMirrorsCart`, that these add up
  to what the cart has, is violated.
* `RecordsWereAdded`: a list never holds what the shop did not take for this very
  plan in this quantity: not after failures, nor when calls interleave.
* `CalmDismissed`: a dismissed release is not offered again, over reloads,
  restarts, failed fetches and newer releases, as long as one call of the checker
  ends before the next begins. Of two at once the older answer can be cached or
  shown last, and lift the dismissal.
* `SuccessOnce`: no click on the update button is reported as a success twice, or
  after it was reported as failed at once.

* `UrlWins`: once the loader has finished, the URL of a plan shows that plan,
  whatever answers came in between and for whatever page they were asked.
* `PendingIsShown`: text that waits for its debounce belongs to the plan on the
  screen and is what the field holds, so a change of plan never leaves a save
  behind that would write one plan's text into another.
* `CalmDirty`: the warning on leaving is armed whenever the retrospective's field
  differs from what is stored. `CalmFresh`: the page shows the plan as it is
  stored. Both are about a calm user: one who waits for what is under way before
  doing the next thing (other than typing on in the field whose debounce runs),
  with nobody else writing; after failed saves as well. See the end of the
  section for what a user in more of a hurry can meet.
* `RetriesEnd`: the automatic retries of a save stop, although all requests of a
  control share one counter that edits and successes reset.
* `RetryIsLatest`: every retry still to come, automatic or by the button of its
  notice, writes what the field holds. It is about the calm user too: a save
  that fails after an edit still offers the old text.
* `ErrorsStay`: an error leaves the queue when it is dismissed, or when the queue
  is full of errors; other notices never push it out. That the queue stays within
  its bound, and that its ids are distinct, is in `WebTypeOK`.
* `EditsArrive`: an edit of the settings is stored, waits with the debounce
  running, or is on its way, whether other fields are edited first, the dialog is
  closed at once or opened again, or answers come late. Excluded are edits whose
  request failed, which met an earlier PATCH of the field, or which the print
  view cuts off.
* `LangFollows`: the interface speaks the language that the user picked, under
  the same exclusions.
* `MaskIsNoKey`: the mask that a process hands out never becomes a key, however
  saves race or are repeated. The mask of an earlier process can.
* `CardsAreStored`: for one user who waits for each save, the cards show what is
  stored, each key as set or not.

**A user in a hurry.** `CalmDirty` and `RetryIsLatest` do not hold of a user who only
waits for requests, but types in one field while another's debounce runs, or uses
the notice of a plan that is not on the screen; both were met when `MaxCalm` was
raised, and calm behaviours leave them out. (a) The page shows an old retrospective
since the loader last ran; a newer one was saved. The user writes a comment on the
dinner and goes on in the retrospective: the verdict's answer reloads the plan, the
prop changes, and the effect on `[initial, toastID]` (`WeekView.tsx:534`) sets the
field back to the saved text, clears the debounce or, when the PUT is on its way,
leaves the field at the text before it, with the warning off. (b) A save for one plan
gave up; the user goes to another plan, edits there while offline, and presses Retry
on the first plan's notice: its save sets `savedRef` and `dirtyRef` of the control
(`WeekView.tsx:568`), which is not keyed by the plan, and the warning of the plan on
the screen is off although its text is not stored.

**Bounds.** `plans`: two plans make a foreign plan possible, one dinner and
one exception make every row operation possible, one chat and one handler are
two processes in every order. Two chats add nothing that a handler's writes and
a deletion do not already do to a pending tool; that is not left to argument,
since the theorems hold for any sets `Chats` and `Handlers`. These behaviours
keep to one day, one dinner, and a second plan that stays a draft without a
retrospective (`OneOfEach`). The others of the run are requests
about dates, of drafts (`DatesNext`, `DraftsOnly`): days 1..2 let plans be
extended, cut, moved and inverted; two seeded rows give equal days, gaps and rows
out of range; four ids hold a clone of two rows, or two added slots. The seeded
states are reachable: `create_week`, `update_week` and `add_dinner` check nothing
about dates. `MaxWeek`, `MaxDinner`, `MaxException` and `MaxRetros` cap the id
sequences and the notes; they stand in the guards of the actions that take an id.

`shop`: two chats are the least that overlap, two accounts the least that can be
exchanged; the kind `"add"` takes all the steps of `"get"` and `"clear"`, so two
kinds reach every request. `session_guest` has one chat: no overlap is needed.
Of the lists, two products make the rows of a list differ, two plans and two
chats every interleaving of a call with another; `MaxQty = 2` tells a changed
quantity from a repeated one. `MaxTools = 2` calls overlap and fail; when they do
not, `MaxInTurn = 3` lets a plan's product be added, taken by another plan's chat
and added again. Settings change at most once between a call's check and its end
(`OneChange`); the proofs of `NoStaleAccount` and `CalmNoGuestCart` have no such
bound. Chats, products and plans are interchangeable (symmetry).

`server`: releases 1, 2 and 3 make upgrades of one and of two migrations,
and a rollback, possible; `PreKeep = 2` is the least at which a dump survives
another boot; two requests are the least that meet in one second, and are
interchangeable (symmetry); `Day = 2` with the clock up to 5 lets a nightly dump
be early, due and late. `Keeps` has the 0 that the handler refuses. `MaxManual`
and `MaxTime` are the bounds. The seeded states (a new host, a stopped and a
serving release 1, the latter with a nightly dump or without) are reached by
booting release 1; they save the checker the seconds that takes.
`upgrade_loop` begins with a new host and needs no request.

`chat`: two plans and two messages are the least that can be mixed up; two rounds
reach the limit both ways, with a call in each; `MaxWork = 2` chunks and calls
together allow text before and after a call, and two calls; `MaxWire = 1` lets
the server be at most two steps ahead of the tab, and the tab any number behind
the database; an upset is a failure, a crash, a cancel, a deletion, a clear, a
PATCH of the plan or a move of the user, at any point. Turns with two chunks or
calls meet one upset, those with one meet two of which one is the PATCH
(`Bounded`), so that its answer can come on another page, after a reload or around
a failure. What takes more upsets, or a longer connection, is left to the proofs,
which bound neither. `chat_patch` has one upset, the PATCH.

`ends`: two messages with one chunk or call and one upset; two chats and one
account, as exchanging it ends no call, and the kind `"clear"`, which fetches a
token and writes and can be denied at both. The read that `"add"` goes on to is
one more request of the same kind; it is in `shop`. Settings change while no call
is past its check (`Settled`): only the checks read them, so that a later change is
one that the next check finds. A bound on what the user does takes no step from
the calls, which alone are fair.

The updates of `server`: two releases make an older answer possible, two calls at a
time let it come late, two clicks let a second follow a failed or unfinished one;
`Spacing = 1` lets an automatic update be due and not due.

`web`: of two plans one can be left for the other; `MaxJobs = 2` requests or
timers overlap and `MaxVisible = 2` notices fill the queue; `MaxAttempts = 2` has
a failure that is retried and one that gives up; the texts are empty and not, a
plan has one or two days; `MaxWork = 2` jobs are enough for one to meet another
at any point, and calm behaviours go two further. Two fields of the settings, one
of them the language, are the least that can be merged, `MaxEdits = 3` lets one
be edited before, between and after the other, and `MaxCalls = 2` answers can
come in either order. One provider is enough, since cards share only the list
that replaces them all; `MaxKey = 1` beside unset and masks, `MaxSaves = 3` and
two processes let a mask be saved before and after a key and a restart.

**Fairness and deadlock.** `PlanStore` states safety only, and no fairness: nothing
in these handlers waits for another. `FairSpec` of the session has weak fairness
of each chat's next step: that a request is answered or fails is an assumption,
since the client's requests have neither a timeout nor the chat's context; and strong fairness of taking the mutex, which
`sync.Mutex` gives by handing itself to a goroutine that has waited for a
millisecond. Nothing is assumed of new calls, settings, expiry or restarts. `Spec` of the
chat has weak fairness of each turn's next step, that is, that providers end or
break their streams and tools return, and of the tab's reading; nothing is
assumed of the user, of fetches or of failures. `CartMirror`, `Updates` and the
modules of the web interface state safety only. `CHECK_DEADLOCK FALSE` is in `plans`
and in `shop` because with ids bounded and all plans deleted nothing is left to
do, and in those of the chat because a user may stop writing, and the bounds make
it so. Every specification that bounds more than the constants do (`PlansSpec`,
`BoundedSpec`) states safety only: a bound never stands in the way of fairness.

Each property has a mutant: a plausible bug in a mapped definition (no foreign
key, no scope check, an explicit week_id that wins over the binding, an upsert
for the update, no status guard, an id not taken from the sequence, a resize
against the old end, a series one day short, an early return that keeps the
mutex, a session kept for changed credentials, a customer not looked at, a retry
of every try, a retention that drops the newest or dumps of every reason, a failed
dump that is logged only, a cadence kept in memory, settings not validated, a home page that loads
its plan, a failed call without a result, text stored under the request's context, an
index taken too early, no fetch at a turn's end, an error that leaves the tab busy,
a row not inserted because the product is listed, a failed line recorded, a status
without a release that lifts a dismissal, a marker left by a failed update, a loader
that does not look at the plan, a debounce kept over a change of plan, a failed save
that counts as saved, a deletion that stays on its page, retries without end, a Retry
button kept while the text is edited, a queue without its cap or that drops the oldest
error, an edit that takes the place of those that wait, a language that only follows
the server, a mask merged as a value, a card that keeps its rows) under which TLC finds it violated.

## Proofs

`PlanStoreProofs` proves, from `ConstantsAssumption` (the bounds are naturals,
chats and handlers are different, the null values are not data) and nothing
else, for any number of chats, requests, plans, rows, days and texts:

| Theorem | States |
|---|---|
| `Inductive` | `Spec => []IInv` |
| `TypeCorrect` | `Spec => []TypeOK` |
| `NoOrphansEver` | `Spec => []NoOrphans` |
| `ScopeKept` | `Spec => []PendingInScope` |
| `RowsKeepPlans` | `Spec => RowIdentity` |
| `ScopeIsolated` | `Spec => ScopeIsolation` |
| `LockedPlansDrain` | `Spec => LockedPlanDrains` |

**Argument.** `IInv` is `TypeOK`, `NoOrphans` and `PendingInScope` with two
strengthenings. `KnownStatuses`: a plan that exists has one of the statuses of
the schema, so an UPDATE that leaves the status alone cannot turn its row into
`NoWeek`. `PendingRows`: an operation in flight names a row or plan id that was
handed out, and a clone its source. Without it a pending write could hit a row that did not exist when
it was checked, and belong to another plan. `TypeOK` has the identity sequences
ahead of every row, which is what keeps a fresh row from being an old one.

Every action's effect on the two row tables is an instance of one relation
(rows of one plan change or go; new rows take ids from the sequence), so there
is one lemma per action that it preserves the invariant, and the lemmas on
`PlanSchedule` (`PatchDinnersEdits`, `CloneDinnersEdits`) put the PATCH
and the clone into that relation without expanding the date arithmetic.
`RankFollowsOrder` says that `row_number()` orders a plan's rows without ties.

`WillysSessionProofs` proves, from `SessionAssumption` (accounts are positive
numbers, no chat is the null value) for any chats, accounts and kinds of call:

| Theorem | States |
|---|---|
| `SessionInductive` | `Spec => []SInv` |
| `SessionTypes` | `Spec => []TypeOK`: with it, that the login mutex is held exactly by the chat that logs in |
| `StaleAccountNeverServed` | `Spec => []NoStaleAccount` |
| `CalmCartsAreNoGuests` | `Spec => []CalmNoGuestCart` |

`SInv` adds three facts to the types. `ReplyPlaces`: only a login's answer can
carry an account's cookie, and it is the account being logged in. `CookieKnown`:
a trusted account session is that of the last login, and a login that still
finds one trusted is for the same account (changed credentials clear it first).
`AllSeen`: a call past its check has seen every account whose session it might
meet. `CalmNoGuestCart` needs one more, `CalmInv`: without overlap and failures
the flag is up only with an account's session, live or ended, and with a CSRF
token, so that no anonymous session is handed out under it.

`ServerProofs` proves of `BackupBoot`, from `BackupAssumption` (releases are positive
numbers, at least one dump is kept, the dumpers are different) for any releases,
requests, retention, length of the day and bound on the clock:

| Theorem | States |
|---|---|
| `BackupInductive` | `Spec => []FInv` |
| `BackupTypes` | `Spec => []TypeOK` |
| `NoMigrationWithoutDump` | `Spec => []MigratesOverDump` |
| `UpgradesUndoable` | `Spec => []UpgradeUndoable` |
| `NightliesADayApart` | `Spec => []NightliesSpaced` |
| `SavedBackupsStay` | `Spec => []SavedBackupStays` |

`FInv` adds to the types what holds of files (`DiskFacts`: a name is one file's,
times are in order and past, a dump being written by a boot or a tick is not
whole) and of the scheduler (`NightFacts`: it prunes nightly dumps and only in a
server). Three invariants rest on it, one for each owner of files. `BInv`
follows an upgrade: what each place of the boot has found and dumped
(`BootPlaces`), that every pre-migration dump not begun in `attempts` is older
than all that were (`OlderFiles`), and that a whole dump of `left` begun in
`attempts` is on disk while these are few (`LeftDumped`). Dumps newer than that
one began at other attempts, each at its own: an injection, so they are fewer
than `PreKeep` and it is not among the excess (`KeptByPrune`, with the theorems
on cardinality). `NInv` says that `lastAt` is no older than any nightly dump once it is set, and
that the others are a day older than the one being written. `MInv` says that
requests writing the same file, or one already reported, are in `clash`.

`ChatProofs` proves, from `ChatAssumption` and `FirstAssumption` (plans are
positive numbers, one of them is open, the bounds are naturals) for any plans,
turns, rounds, calls, chunks and failures:

| Theorem | States |
|---|---|
| `TypeCorrect` | `Spec => []TypeOK` |
| `RequestsWhole` | `Spec => []RequestWhole` |
| `TabIsAClient` | `Spec => ServerSpec`: the tab and the server implement the server with any client |
| `MenuIsFresh` | `Spec => []MenuFresh` |
| `CardsAreSettled` | `Spec => []CardsSettle` |
| `TextIsStored` | `Spec => []ShownIsStored` |

The invariant `TInv` is the tab's types and `CInv` of the server, which adds to
the types: a turn past `ensureConversation` has a conversation (`Placed`); every
round but the last has all its results, and the last has those of its first
`done` calls, all of them when the model is asked again (`Loop`); a message is
stored only by a turn that is past `saveMessage` (`RowsPlaced`), so a history
that is loaded before cannot hold it (`SeesOthers`). `CInv` is preserved by
every step of `ChatServer`; the steps of the tab are steps of that server
because of the tab's types (`NextIsServer`).

Of what the user sees, each property has an invariant of its own, over two facts of
the server. `StreamInv` is the order of a turn's events on a connection of any
length: behind a call comes its result, or the end of the server, or the call is
still under way; what ends a stream comes when the turn is over. `SeenInv`: what a
turn that is over has seen is no newer than its plan, unless that was deleted. Then
`MenuInv` says that a plan read after a turn ended, on its way or on the screen, has
that turn's writes, because the end of a turn replaces every request before it; and
that the answer of a PATCH, which nothing replaces, has the writes of the turns that
had ended when it was read, so that it is as good as a load unless it is `late`.
`CardInv` says that a card without a result is the one at the index of the call
whose result is the turn's next event, or under way, or belongs to a turn that was
cut; entries that are appended or replaced meanwhile cannot bring another card to
that index while the call is open. `TextInv` and `ShownInv` say of each chunk on a
connection, in a stored message, in a fetched chat and in an entry that it was said,
and is stored or was lost for one of the reasons excluded; the step of the argument
is `ToldStays`: no step of the server makes that false. It needs `PlaceInv`:
nothing is said before the user's message is stored, and a conversation that exists
is never created again.

`PlanBookProofs` proves, from `ConstantsAssumption`:

| Theorem | States |
|---|---|
| `BookInductive` | `Spec => []BInv` |
| `StoreIsABook` | `Spec => KeepsBook`: `PlanStore` implements `PlanBook` |
| `ClonesAreComplete` | `Spec => CloneIsComplete` |
| `FreshPatchesKeepSchedules` | `Spec => FreshPatchKeepsSchedule` |

It rests on `Inductive`. One lemma per kind of step maps it to a step of the book
or a stutter: those that touch the rows of one plan leave the documents of the
others (`DocumentStays`), which needs that a row's plan does not change
(`NoOrphans`, and types that keep fresh ids ahead of all rows); a clone in flight
has a number that no other clone and no plan has (`CopiesApart`, which `BInv` adds
to `IInv`).

The two properties of schedules hold for plans of every length. Their core is
`RanksCover`: `row_number()` gives n rows the numbers 0 to n-1 without gaps. Ranks
are injective and bounded by the number of rows, and an injection between finite
sets of one size is a surjection, so no induction on the plan is needed. For a
clone, `CopyDinnersRows` and `AddSlotsRows` say which id gets which row,
`CopiesAndSlots` that copies and slots never fall on the same day, and the plan
had no row before because its number was unused (`CopiesApart`, `NoOrphans`). That a
source with one row per day keeps its calendar is `ScheduledRank`: a row's rank is its
day's distance from the plan's start, since the rows before it are as many as the days
(`ScheduleByRows`). For
a PATCH, `ScheduleLength` counts the rows of a plan with one row per day by a
bijection with its days; packing (`PackSchedules`), cutting off
(`TruncateSchedules`) and adding slots (`AddSlotsSchedules`) each leave such a plan
behind, on the days the new dates name.

`DialogProofs` proves of `Settings`, from `SettingsAssumption` for any fields, values,
requests and edits:

| Theorem | States |
|---|---|
| `SettingsInductive` | the inductive invariant |
| `SettingsTypes` | `SettingsSpec => []SettingsTypeOK` |
| `NoEditLost` | `SettingsSpec => []EditsArrive` |
| `LanguageKept` | `SettingsSpec => []LangFollows` |

`SetInv` adds to the types: only a PATCH has a body, and nothing waits without the
page (`Bodies`); whatever carries a promised field carries the promised value, and
a PATCH that has written it finds it in the row (`Kept`); whatever answer would
still set the language brings the one picked (`Spoken`).

`DialogProofs` proves of `Integrations`, from `IntegrationsAssumption` for any providers,
keys, requests, saves and restarts:

| Theorem | States |
|---|---|
| `IntegrationsInductive` | the inductive invariant |
| `IntegrationsTypes` | `IntegrationsSpec => []IntegrationsTypeOK` |
| `MaskNeverStored` | `IntegrationsSpec => []MaskIsNoKey` |
| `CardsStayStored` | `IntegrationsSpec => []CardsAreStored` |

`KeyInv` adds to the types that what is shown or sent back holds no mask of a
process to come (`ShownKey`), and that neither a stored row nor one that a PATCH has
read holds a mask of the running one or of one to come (`KnownKey`), which is what a
restart needs. `StoredInv` is about a user who waits for each save while nobody
else saves: one request is under way at most, and while the cards may be behind
what is stored (`Current` fails), that request is a list, or a save that will ask
for one (`Renews`).

`ServerProofs` proves of `Updates`, from `UpdatesAssumption` for any releases, checks under way
at a time, clicks and spacing:

| Theorem | States |
|---|---|
| `UpdatesTypes` | `UpdatesSpec => []UpdatesTypeOK`: what runs, is cached, asked for and offered was released |
| `DismissedStays` | `UpdatesSpec => []CalmDismissed` |
| `SuccessIsOnce` | `UpdatesSpec => []SuccessOnce` |

Two invariants, one for each. `OrderInv`, while the checks come one after the
other: there is one call at most (`Alone`); an answer from upstream is no older
than the cache until it is cached, and the cache is no older than an answer to
the tab (`InOrder`); and every dismissed release is either the one that
localStorage has, or older than all that is known, cached, under way or shown
(`Hushed`). That is why a cache that is lost in a restart cannot bring an old
release back. `OwedInv`: a marker in sessionStorage, the one that a page has
found, and a request of `onApply` each have a click to report, and a found marker
and a request have two.

`CartMirrorProofs` proves, from `CartAssumption` for any products, quantities,
plans, chats and numbers of calls:

| Theorem | States |
|---|---|
| `CartInductive` | the inductive invariant |
| `RecordsTrue` | `CartSpec => []RecordsWereAdded` |
| `CartsAreListed` | `CartSpec => []CartIsListed` |

`AddInv` adds to the types what a call has at each of its places (`PlacesOf`: only
the tools that add insert rows, only the others delete them) and that the lines it
has on its way to a list were taken for that list's plan (`TakenOf`). `MirrorInv`
says that there is one call at a time, and of each product that the plan for which
it was changed last lists it with its quantity already, while no call will touch
that, or that the call made for this plan will leave it so (`Booked`): `add_many` changes the
cart several lines before its first row, so the two differ in between. Both tables
of a step, the list and what is still to be mirrored, are compared by two lemmas on
rows: an inserted row is listed beside the older ones (`InsertedIsListed`), and
deleting a product takes all its rows and leaves the others (`DeletedIsGone`).

`PageProofs` proves of `PlanPage` with `WeekReview` and `Toasts`, from
`MaxVisibleAssumption`, `ReviewAssumption` and `PageAssumption` for any plans, texts,
requests at a time, attempts and room for notices:

| Theorem | States |
|---|---|
| `PageTypesHold` | `Spec => []TypeOK`: types, and a queue that fits, each notice under its own id |
| `ErrorsHold` | `Spec => ErrorsStay` |
| `UrlHolds` | `Spec => []UrlWins` |
| `RetriesStop` | `Spec => []RetriesEnd` |
| `PendingHolds` | `Spec => []PendingIsShown` |
| `RetriesLatest` | `Spec => []RetryIsLatest` |
| `DirtyWarns` | `Spec => []CalmDirty` |
| `PageIsFresh` | `Spec => []CalmFresh` |

`TypeInv` adds to the types which jobs can exist (a timer is a save's or a
comment's; a notice offers only a save again, under the id of its plan) and that
what the review controls render is what the page shows. The lemmas on the queue
(`DismissOne`, `CapOne`, `AddOne`) say what dismissing, capping and adding leave
and keep, without a word on the rest of the page. Whoever renders the page does it
by `Show`, so there is one lemma per property on `Show` and one per step that does
not render.

`UrlInv`: while the URL of a plan does not show that plan, the loader is under way and
asks for it. `RetriesInv` counts: the attempts of an instance and the saves it has
under way are together below the bound, which is more than `RetriesEnd` says. A
failure that is not the last leaves the attempts below `MaxAttempts`, and the slots
bound the saves; one that gives up takes a save away as it counts an attempt.
An instance that is mounted anew gets a number that nobody knows any longer, so it
has no save under way. `Quietly` names the steps that begin no save; the
others are an edit, a Retry and a failure (`SaveSteps`), and `PendingIsShown` rests
on the same cases.

`CalmInv` is about the calm user of the section on the properties. One job or the
loader is under way (`OneJob`, `LoadAlone`); a save, and a save that a notice offers
again, is of the text in the field (`JobsOfField`, `RetriesOfField`); what the
control holds as saved is stored, unless the answer that will say so, or the load
that replaces it, is under way (`SavedIsStored`); an answer and a loaded row are what
is stored (`DoneIsStored`, `LoadIsStored`); a deletion knows whether its plan is on
the page (`DeleteKnows`); and the page is as stored, unless an answer that will
replace it has come (`PageFresh`). Of each step it is enough to look at a state with
nothing under way, or with one job (`IdleIsCalm`, `OneIsCalm`).

**The runs' own specifications.** Four runs put parts side by side or begin with seeded
states. That this changes nothing is proved too:

| Theorem | States |
|---|---|
| `WebIsItsParts` | `WebSpec => Spec /\ SettingsSpec /\ IntegrationsSpec` |
| `WebTypesHold` | `WebSpec => []WebTypeOK` |
| `ServerTypesHold` | `ServerSpec => []ServerTypeOK` |
| `ServerKeeps` | the other invariants of `server`, of `ServerSpec` |
| `SchedulesFromSeeds` | the two properties of schedules, of `SeededSpec` |
| `PlansFromSeeds` | the state invariants, `KeepsBook` and the two properties of schedules, of `PlansSpec` |
| `ShopKeeps` | the properties of `shop`, of `ShopSpec` |

The seeded states satisfy the inductive invariants (`Seeds`, `SeedsAreBooks`), given
that release 1 is among the releases and there is room for plan 1
(`ReleaseSeedAssumption`, `PlanSeedAssumption`).

**Only model-checked**: `CallsEnd` and `BusyEnds` (liveness, which with ENABLED is
out of the prover's reach), and the violated properties, whose counterexamples are
the point. Every other property of a passing run is stated by a theorem.

## Findings

Each of the first six has a run that shows it.

* **The status check and the write are not atomic** (`locked_menu_race`).
  `wkctx.go:92` says that EnsureEditable refuses menu mutations past draft since
  silently changing the menu would drift the recorded plan. The tools call it on
  the pool and write in a later transaction that does not look at the status
  again, so a plan locked in between has its menu changed after all.
* **A PATCH can end a plan before it starts** (`patch_dates`). The check for
  "end_date cannot be before start_date" (`weeks.go:375`) is inside the branch
  that runs only when the end differs from the end read. A PATCH that moves the
  start past the end and repeats the current end is accepted.
* **A cart request can be anonymous after a login** (`session_guest`). `Login`
  comments that cart operations cannot run on a guest account and clears the
  session when the customer is anonymous. A forced login does not clear the
  session first, though, and its other errors return without clearing it: when
  one breaks off after the anonymous cookie is in, the flag is still up from the
  login before, and the next call's cart request goes out as a guest.

* **A restart loop prunes the previous version's dump** (`upgrade_loop`).
  `docs/backups.md` promises that there is always a snapshot from the previous
  version. When an upgrade fails at its second migration or later, each restart
  dumps the half-migrated database and prunes to the last 10
  (`PREMIGRATION_BACKUP_KEEP`), and with `restart: unless-stopped` the boots go
  on until the previous version's dump is the one removed.

* **An edit of the plan can put an older menu on display** (`chat_patch`). The tab
  fetches the plan again after each tool that writes and at the end of the turn,
  "what makes the menu feel live" (`App.tsx:265`; `api.ts:160`). `patchCurrentWeek`
  shows the plan in the answer of its PATCH without a look at what was fetched
  since (`App.tsx:389-390`): an answer read before a tool's write that comes after
  the turn's last fetch leaves the plan without that write, until the next fetch.
* **A chat holds messages about two plans** (`chat_one_plan`). The system prompt
  says that each chat is tied to one plan. `handleChat` takes the conversation
  and the plan of a request independently (`chat.go:35-40`, `157`), and the
  tab's two ids part: after a plan is opened, `conversationID` stays that of the
  plan before until the chat is fetched (`App.tsx:204-237`), and a turn of the
  plan before that reports its new conversation later still sets it
  (`App.tsx:293`). The next message is bound to the new plan, but is stored in
  the old plan's conversation and answered with its history.

Two more are met by no run: what the code does is stated by a property that holds,
and what is said of it elsewhere is not.

* **A clone does not keep the gaps of its source**. The comments on
  `handleCloneWeek` say that dinners are copied with their `day_date` shifted by
  the same offset (`weeks.go:588-590`, `618-620`). The statement, and the comment
  right above it (643-647), pack them onto consecutive days from the start: of a plan
  of two days whose one dinner is on the second, the clone has it on the first.
  `CloneIsComplete` states what the statement does: the order of the dinners for
  every source, and the offset for those with one row per day, of which alone the
  first comment is true.
* **A product added twice is doubled in the list**. Every call of
  `willys_cart_add` and every line of `willys_cart_add_many` inserts a row of its own
  with the quantity of the call (`tools.go:1186`, `1261`). The client sends that
  quantity as the product's new one (removing is adding 0, `willys/client.go:497`), so
  adding milk twice leaves one in the cart; the plan's page shows two rows and sums
  both (`WeekView.tsx:280`, `313`). The tool says "Units to add" (1163, 1212), and if
  the shop did add, the sum of money would double all the same, since each row's
  snapshot has the total of the whole line (`snapshotLine`). The comment at the
  insert takes the rows for a local mirror of the cart (`tools.go:1190`), which
  drifts when the insert fails.
  `CartIsListed` therefore says that one of a product's rows has what is in the
  cart, and not that its rows add up to it.

## Plan

Done: the plan tables and their schedules, refined to a book of plans; the shop's
session and the shopping lists; the chat with its tab; boots, backups and
updates; the page of a plan, the settings and the providers' cards; and of all these every
safety invariant proved. What would come next, in this order:

1. A book of conversations that `ChatServer` refines, as `PlanBook` is one of plans.
2. `ChatTab` and `PlanPage` in one module, so that a tool's write reaches the
   editors of the page under the user's hands, where now `Elsewhere` stands for it.

## Not modelled

* The preferences dialog and the tools for preferences and recipes write one row
  at once, which nothing else in the models reads. The seed and the setup wizard
  write once, into an empty database.
* The printed page, the usage dialog, the theme, the translations and the rendering
  itself read, or keep one value.
* Routing, static files, status pages and usage sums: input and output without a
  state that anything else reads.
* Encryption of settings and the master key: functions over bytes that `Get`
  undoes. Of the providers also the connection test, the enabled flag and the
  choice of the LLM.
* The wire formats of the two LLM providers, and the system prompt's text.
* The shop's login encryption: a pure function whose meaning is the shop's. Prices
  and products; what is changed in the shop by hand.
* Of the updates: the switch of the automatic ones (either value at a tick), and
  versions that are none (a development build reports no update).
* Of the plans: labels, delivery and order dates, which nothing computes with; of
  the chats: titles.

Four hazards have no property, since no document promises what they break: two
first messages that create two conversations of one plan (`chat.go:171`), two
rows of one preference category (`tools.go:156`), the mask of an earlier process
saved as a key (`providers.go:358`), and the spacing of automatic updates over a
restart (`scheduler.go:86`).
