# A verification project for hangout-automator

hangout-automator invites people to hangouts by SMS, chases the ones who do not
answer, understands their replies, and tells the organizer how it is going. The
web process (FastAPI) and the worker process (APScheduler) share nothing but a
Postgres database, so almost everything that can go wrong goes wrong between
two transactions. That is what the modules here are about.

Paths below are relative to the repository; `services.py` is
`app/services.py`, `web.py` and `api.py` are in `app/routers/`.

## Inventory

| Component | State it keeps | Operations | Hard behaviour |
|---|---|---|---|
| Follow-up sweep (`services.py` `process_followups`, `worker.py`, `locks.py`) | `hangout_invites.followups_sent`, `last_outbound_at`, `status`; advisory lock 9001; row locks | tick: lock, snapshot, claim, re-read, decide, commit the clock, send, commit the result | several workers, crash between any two commits, stale snapshot, stranded lock, deleted rows |
| Invite lifecycle (`setup_hangout`, draft form, API, close, contact deletion) | `hangouts.status`, details and location, invite rows | create, edit draft, PATCH, setup, close, soft delete, restore | setup sends for seconds before its only commit: double setup, close or edit meanwhile, crash loses all records |
| Inbound SMS (`webhooks.py`, `_handle_inbound_sms`) | invite status, rate-limit counters | YES, NO, INFO, STOP, START | blocking calls on the event loop, counter and invite rows locked by sessions that the loop has to close, retries |
| Do-not-contact list | `sms_opt_outs` | STOP, START, the admin's add and remove | look and insert are two statements, two writers race |
| SMS dispatch (`send_sms`, `sms.py`) | `message_logs` | validate, list check, provider, log | provider failure against exception, list check before a slow send |
| Organizer notifications (`process_organizer_intervals`, threshold alerts) | `last_organizer_notify_at`, fingerprint, goal flag; lock 9002 | digest sweep, alert after a reply | digest racing alert, one-shot goal, fingerprint older than the body |
| Organizer's number and settings (`users.py`, `resolve_organizer_phone`, PATCH) | the account's defaults, the stamp and the organizer of a hangout | My Profile, creation, PATCH, contact changes | checks made at the load, commits later; a contact that goes away |
| Contacts, tags, allergies (`api.py`, `web.py`) | `profiles`, `tags`, `profile_tags` | create one or several, PATCH, delete | ORM flushes of differences, unique numbers, cascades |
| Access list (`access.py`, `auth.py`, admin routes) | `access_grants`, email cache | sign-in check, grant, demote, remove, bootstrap | last-admin guard is check-then-act, cached identity |
| Tenancy (`tenancy.py`, `users.py`) | workspaces, members, users | resolve, provision | two first requests of one user |
| Pure logic (`parse_reply_intent`, `normalize_phone`, `format_phone` and its twin in `phone_format.js`, `clamp_choice`, `apply_hangout_location`) | none | | boundaries and precedence |
| Browser scripts (`app/static/*.js`) | debounce timers, a queue of saves, request sequences | autosave of a contact row and of a draft, suggestions and picks of a place | answers out of order, edits during a save, lost answers |
| Audit log (`event_logging.py`), costs, templates, previews, migrations, terraform | logs, files | | not modelled, see below |

The components meet in the tables: the sweeps, the web handlers and the inbound
handler write the same invite row, and Postgres runs at READ COMMITTED, where
only an explicit row lock or an UPDATE orders two transactions.

What makes each component correct: *sweep* - one text per window of the
schedule, a budget spent only by accepted texts, no `no_response` before its
time, every due invite served in the end. *Invite lifecycle* - texted rows and
answers survive, closed stays closed. *Inbound* - ceilings hold, STOP
wins, a retry changes nothing, the web process keeps answering. *Organizer* -
one digest per interval, no change goes unreported, the goal is announced once, and there
is somebody to tell. *Contacts* - what says "Saved" is saved. *Draft page* - a
location is one place, and the invitations say what was submitted. *Access* - an
admin remains, nobody without a grant gets in. *Tenancy* - one workspace per
user.

## Modules

| Module | Models |
|---|---|
| `Followups` | the follow-up sweep of N workers with every handler that writes the rows it reads |
| `ReminderWindows` | what both sweeps promise: windows a delay apart, each used at most once |
| `HangoutSetup` | concurrent setups and draft edits of one hangout, statement by statement, with everything that commits meanwhile |
| `Admission` | concurrent signed-in requests: identity cache, access list, admin forms, workspace provisioning, restarts |
| `OrganizerNotify` | the digest sweep of N workers and the web process's alerts, on one hangout |
| `Inbound`, `Replies` | the SMS webhook on the event loop, its limiter and the do-not-contact list; what a text means |
| `Contacts` | contacts, tags and their pairs, with one self-saving row of the contacts page |
| `OrganizerSettings`, `Phones` | the account's defaults, the organizer's columns of a hangout and the contacts they refer to; phone numbers |
| `DraftForm` | the edit page of a draft: its location field, its queue of saves, and the POSTs at the server |

`MC...` modules hold the instances for TLC, `...Proofs` modules the theorems.
The modules meet where the tables do: each takes the others' commits to its own
rows as actions (`Followups` has the replies and the setup, `HangoutSetup` the
replies and the sweep, `OrganizerNotify` the replies and the PATCHes), and the
interleavings inside those actions belong to the module that is about them.

### Followups

One action per step between two points where another process may run.

| Action | Code |
|---|---|
| `BeginTick`, `EndTick`, `Leave` | `_job_followups` inside `advisory_lock` (`worker.py:32-68`, `locks.py:26-56`); a tick that finds the lock taken does nothing |
| `Scan` | the candidate snapshot and its commit (`services.py:822-848`) |
| `Claim`, `ClaimMisses` | `FOR UPDATE SKIP LOCKED` (`services.py:853-860`) |
| `CandidateGone` | `candidate.id` of a deleted row raises and ends the tick (`services.py:855`) |
| `ReRead` | the fresh read under the lock (`services.py:869-874`) |
| `KeepWaiting`, `MarkNoResponse`, `AdvanceClock` | the three outcomes of the decision (`services.py:875-914`); each commits and so frees the row |
| `Dispatch` | the attempt number, the do-not-contact check and the provider's answer (`services.py:916-926`, `send_sms`) |
| `StoreResult`, `SendRaised`, `RowGone` | the result's commit (`services.py:927-947`) |
| `Crash`, `Restart`, `LoseAdvisory` | the process dies and systemd starts it again; the lock's connection drops |
| `AddInvitee`, `DeleteInvite`, `Setup`, `Close`, `Reply`, `Stop`, `Start` | the web and SMS handlers, each one committed transaction |

Choices worth knowing:

* A row lock is `rowLock[i]`. Every transaction that writes row `i` waits for it
  (`Writable`); the sweep's own claim skips instead.
* `seen[w]` is the worker's copy of the row: the decision uses it, never the
  table, so reading too early would be visible. After the claim it holds the
  attempt number.
* The ORM writes only the columns that were assigned, so `StoreResult` leaves
  concurrent changes of other columns alone.
* `streak` counts failed log rows since the last success and saturates at the
  limit, the only value it is compared with.
* `last`, `now` and `clock` are whole units of time; the delays are in the same
  unit. `remind` is a status the sweep selects and no code assigns, so it is in
  the type and never reached.
* `Setup` is atomic here: the sweep cannot see the inside of its single
  transaction. The interleaving inside it belongs to `HangoutSetup`; so does
  an answer that comes during a setup's texts and is overwritten by its commit.
* `DueIsServed` is checked with one invite, so the candidates that a tick leaves
  when it ends early are not part of that run; two invites with two workers are
  out of TLC's reach. `TicksGoOn` and `DueIsDecided` hold for any number.
* An invite id stands for a row: a deleted row does not come back, a new one
  takes another id.

### HangoutSetup

`setup_hangout` loads the hangout, texts one person after another for seconds,
and commits once. The module gives each request its session (`job[r]`: what it
loaded, what it has made of it) and lets everything else commit in between.

| Action | Code |
|---|---|
| `Create` | `create_hangout`, a row for each listed id (`api.py:606-665`); the web form's creation is the case without repeated ids, and its optional setup a later `LoadSetup` |
| `LoadEdit`, `SaveEdit` | the draft form: the check, `_sync_draft_invitees`, the commit (`web.py:780-825`, `683-700`) |
| `ThenSetup` | the setup that follows it in the same request (`web.py:827-835`) |
| `LoadSetup` | the web and API setup: closed and empty selections are refused, rows outside an explicit selection are marked for deletion (`services.py:476-524`) |
| `Each`, `Insert`, `Send` | the loop: contact still there, whom to skip, `flush()` of a new row, the text and its outcome (`services.py:526-585`) |
| `LockRow`, `Commit` | the flushes' UPDATEs and DELETEs one row lock at a time, then the commit with `active` (`services.py:587-589`) |
| `CloseSession` | a pass whose `send_sms` raised keeps its locks until `get_db` closes its session (`database.py:107-112`) |
| `Aborts`, `Crash` | Postgres ends the transaction of a deadlock's victim, a flush that raises rolls itself back; the process dies |
| `Close`, `Hide`, `Unhide`, `Reply`, `GiveUp`, `DeleteContact` | what other handlers and the sweep commit to the same rows (`web.py:410-421`, `895-940`, `services.py:657-768`, `883-901`) |

Choices worth knowing:

* The session's rows are the ORM's objects: `was` as loaded, `now` as they are
  in memory. An UPDATE writes only the columns that differ from the load, so
  `Updated` leaves a status alone that the pass did not change, and the
  hangout's status is written only if it was not `active` already.
* Nothing is locked before a flush. `flush()` of a new row also writes what was
  changed before, and keeps those locks during the next texts. A flush
  updates the hangout's row, then invites in key order, then deletes in key
  order (`NextLock`); a draft form is taken to change a detail of the hangout.
* An UPDATE of a row that is gone raises and rolls the pass back; a DELETE of
  one only warns (`RowGone`).
* `hangout_invites` has no unique constraint on the pair of hangout and person:
  two setups, or a repeated id, leave two rows. `setup_hangout`'s dictionary
  keeps one of them.
* `stale` and `tainted` are history: whether something was committed since a
  request loaded, and whether a request ever committed on such a load or the
  hangout was created with a repeated id. `NobodyForgotten` and `NotAskedTwice`
  excuse these cases, so each says what the code promises to a request that
  runs alone with its data. `ClosedStays` and `InvitationsSurvive` are sharper:
  they name what an overtaken request can undo - a close, if it loaded a draft;
  a texted row, if it read it untexted (`Drops`); an answer, if it read the row
  unanswered and gave it another status (`Overwrites`) - and allow nothing else.
  All of these happen in the model, and in the code ("Other differences").
* The do-not-contact list does not change here, and the sweep appears only as
  far as it ends a wait (`GiveUp`). `Hide` and `Unhide` are not counted by a
  bound: they only toggle.

### Admission

One action per query, commit, or answer of Clerk, so two requests in the
thread pool interleave wherever they can.

| Action | Code |
|---|---|
| `Start` | `sync_bootstrap_admins` at startup, one commit for the whole list (`access.py:175-212`, `main.py:20-62`) |
| `Stop` | the process ends: cache, sessions and requests are gone |
| `ChangeEmail` | a user's verified primary address changes at Clerk (`access.py:91-105`, seen from outside) |
| `Arrive`, `Fetch`, `FetchFails`, `Store` | `email_for_clerk_user`: the cache check, the call in a thread, 503, the cached answer (`access.py:118-150`, `auth.py:123-130`) |
| `Role` | `role_for_email` and `require_admin`: 403, a page, or an admin form (`access.py:69-88`, `220-230`) |
| `ReadGrant`, `Guard`, `WriteGrant` | `access_grant_create` and `access_grant_delete`: the row, the count of admins, the commit (`web.py:1087-1141`) |
| `Member`, `Insert`, `InsertFails`, `Provision` | `current_workspace` and `_provision_workspace`: membership, flush, unique slug, commit (`tenancy.py:25-92`) |
| `Reply500` | an exception's answer |

Choices worth knowing:

* `req[r].t0` is the time of arrival, `time.monotonic()` at the top of the
  lookup; an entry lives until `t0 + TTL`, whenever it is stored.
* A flushed and uncommitted slug blocks another insert of it, as Postgres
  does; it disappears with its session (`Ended`).
* The row a form read is kept in `req[r].row`; the commit acts on the row with
  that id as it is by then. The ORM writes the role only.
* Two users never have one address, as at Clerk. The slug stands for its user:
  `slug[:64]` cuts nothing off a Clerk id.
* An address listed twice in `ACCESS_BOOTSTRAP_ADMINS` makes the whole sync
  fail (`Doubled`), because the pending row is invisible to the query.
* `ceased` and `overtaken` are history: when an address stopped being a user's,
  and whether a form's count is out of date.
* Not here: token verification (Clerk's), an unreachable database.

### OrganizerNotify

| Action | Code |
|---|---|
| `BeginTick`, `Lock`, `LockMisses` | the advisory lock, the snapshot, `FOR UPDATE SKIP LOCKED` (`worker.py:71-107`, `services.py:961-995`) |
| `Pass`, `SkipUnchanged`, `Claim` | no number or not due; nothing new, the clock advances; the clock is committed before the text (`services.py:996-1023`) |
| `Compose`, `Send`, `Store`, `StoreFails` | the body from the reloaded rows, the provider, the fingerprint of the claim or the commit that its length fails (`services.py:1024-1040`, `192-199`) |
| `Reply`, `EvaluateAlert`, `SendAlert`, `SaveAlert`, `SaveFails`, `FlagGoal` | a YES or NO, then `evaluate_organizer_threshold_for_reply` and `_maybe_send_organizer_threshold` commit by commit (`services.py:206-299`) |
| `Patch`, `Activate`, `Close` | the handlers that run in threads |
| `Crash`, `LoseAdvisory`, `ServerCrash` | as in `Followups`; the web process loses the alert it was sending |

Choices worth knowing: alerts never overlap each other, because the webhook runs
on the event loop. A unit of work writes a column only if it changed it since it
loaded it (`Printed`), so a digest and an alert that overlap can leave the
fingerprint of the one under the text of the other; `blurred` says when that
happened, `torn` that a commit after an accepted alert was lost. `Fits` keeps the
length of the fingerprint against its `String(512)`.

### Inbound and Replies

| Action | Code |
|---|---|
| `Arrive`, `Enter` | the request and its session, its turn on the loop, its minute (`webhooks.py:21-26`, `106-194`) |
| `Prune`, `CountPhone`, `CountGlobal` | `_rate_limited`: old windows, the two upserts, one commit, or a refusal without one (`webhooks.py:21-51`) |
| `Lookup`, `FinishStop`, `StopFails`, `FinishStart`, `FinishReply` | `_handle_inbound_sms`: the list's row, then what the text does (`services.py:49-113`, `622-793`) |
| `HandOver`, `CloseSession` | `get_db`'s end, one turn of the loop and one thread later |
| `AddLook`, `Add`, `RemoveLook`, `Remove` | the admin's opt-out forms (`web.py:1030-1057`) |
| `FlushPass`, `CommitPass`, `RaisePass`, `HandOverPass`, `ClosePass` | the invite rows that a setup's transaction keeps locked from a flush to its commit or, if a send raised, to `get_db`'s end (`services.py:535-589`, `database.py:107-112`) |
| `Tick`, `Crash` | a new minute; the web process is restarted |

Choices worth knowing: the handler blocks the loop it runs on, so `loop` is one
request from its turn to its return, and a request that waits for a row lock
waits *with* the loop. A counter's lock outlives a refusal until the session is
closed, and closing it takes a turn of the loop: `BehindACounter`. An answer, a
STOP's included, updates its invite row and waits if a setup has flushed that row
(`RowFree`). A setup runs in a thread and mostly frees it by itself, but after a
send that raised its session too is closed by the loop: `BehindARow`. It counts a
setup that is still texting while another one has raised, because its next flush
may wait for the raised one's rows. `Standstill` is either. The other writers of
invite rows are left out, because they need no turn of the loop to end: the sweep
is another process, and a form's transaction that fails in its flush is rolled
back there and then. A body is a sequence of words;
`Documented` in `Replies` is the keyword table of `docs/sms-and-rsvp.md`, by the
longest phrase, and `Intent` the code's cascade of tests.

### Contacts

| Action | Code |
|---|---|
| `Tick`, `Type`, `Fire`, `Leave`, `Saved`, `NotSaved` | `contacts_autosave.js`: boxes at once, text after a timer or on leaving, merged changes, the answer that rewrites the field |
| `LoadPatch`, `CommitPatch`, `FailPatch` | `update_contact`: reads and checks, then the flush of the differences (`api.py:532-570`, `services.py:124-139`) |
| `LoadCreate`, `CommitCreate` | `create_contact` and the form of several contacts, all or none (`web.py:329-407`, `api.py:505-529`) |
| `DeleteContact`, `DeleteTag`, `LoadTag`, `CommitTag` | the deletions with their cascades, `create_tag`'s look and insert (`api.py:405-441`, `573-587`) |

Choices worth knowing: allergies have tables and handlers of the same shape as
tags and are not repeated. Deletions are one step: they look at nothing they do
not also delete. Contacts that are created together
carry the same tags here.

### OrganizerSettings and Phones

| Action | Code |
|---|---|
| `LoadSave`, `CommitSave` | My Profile and the row the first request makes (`users.py:40-117`, `web.py:448-495`) |
| `LoadForm`, `LoadApi`, `CommitCreate` | the two creations with the organizer's stamp (`web.py:619-654`, `api.py:606-665`) |
| `LoadPatch`, `CommitPatch` | `update_hangout`: the checks, then the changed columns (`api.py:680-762`) |
| `SetContact`, `DeleteContact` | contacts come, get another number and go; `ON DELETE SET NULL` |

Choices worth knowing: a request reads and checks in one step and writes the
columns that differ in another, so `Written` merges two PATCHes as the ORM does;
`skewed` says that two PATCHes overlapped. A phone number is its plus sign and
its digits, which is all that `normalize_phone`, `is_valid_phone` and
`format_phone` look at. The page formats a stored number (`Displayed`), then
`phone_format.js` rewrites every telephone field once more when it loads
(`Rewritten`), and a form that is saved untouched sends that (`SentBack`). The
script rewrites while somebody types, too, so a number that it would change
reaches the table only from outside such a form: the API, or a page
whose script has not run.

### DraftForm

| Action | Code |
|---|---|
| `Edit`, `TimerFires`, `Send`, `Answer`, `NoAnswer` | the debounce, the chain of saves, their answers (`hangout_draft_autosave.js:28-95`) |
| `Submit` | the setup waits for one more save and submits the form as it is then (`hangout_draft_autosave.js:116-149`) |
| `Type`, `Offer`, `Pick`, `DetailsArrive`, `ClickOutside`, `Leave` | the location field: sequence numbers, suggestions, a pick and its details, what happens to a text that is no place (`location_autocomplete.js`) |
| `Load`, `Store`, `Tell`, `NobodySelected` | `hangout_update_draft`: the load and its draft check, the commit of what changed, the setup (`web.py:578-616`, `780-839`, `location.py:51-80`) |

Choices worth knowing: Places is configured, otherwise the field is a plain
input. `AbortController` is left out, because the sequence number alone rejects
late answers. A second click on the setup button belongs to `HangoutSetup`.
A lost answer leaves the POST running at the server beside the next one
(`lost`); the properties name where that excuses something.

## Runs

| Run | Shows | Instance |
|---|---|---|
| `followups_safety` | `TypeOK`, `OneTextPerWindow`, `BudgetEarned`, `BudgetKept`, `NoResponseIsEarned`, and that the sweep implements `ReminderWindows` | 2 workers, 1 invite, delays 2 and 1, budget 2, clock to 6, 1 fault, 3 web requests; workers symmetric |
| `followups_liveness` | `DueIsServed`: a due invite is always served; `AdvisoryReturns` | 2 workers, 1 invite, 1 delay, clock to 2, 1 fault, 3 requests |
| `followups_lost_reply` | finding: a reply is overwritten by `no_response` | 1 worker, 2 invites of one phone, no faults |
| `hangout_setup` | row ids and row locks, `ClosedStays`, `InvitationsSurvive`, `NobodyForgotten`, `NotAskedTwice` | 2 requests, 2 people, one of them on the do-not-contact list, up to 2 listed ids at creation, 2 setups or edits, 2 other commits or crashes; slots symmetric |
| `admission` | type correctness and the uniqueness of rows, `FreshIdentity`, `OneWorkspace`, `LastAdminGuarded` | 2 requests, 2 users, 2 addresses, both admins; TTL 1, clock to 1, 2 admin edits, 1 restart or change of address; slots and users symmetric |
| `admission_last_admin` | finding: two forms remove both admins | the same without clock and changes |
| `organizer` | `DigestsApart`, `UnchangedIsKnown`, `GoalOnce`, `RoutineSpaced`, and that the digest sweep implements `ReminderWindows` | 2 workers, 2 invitees of whom one is special, interval, cooldown and goal 1, clock to 2, 1 fault, 2 replies, 1 request, a fingerprint limit of 17: two answers fit unless both are confirmations; workers symmetric |
| `inbound` | the loop and the locks, `CeilingHolds`, `StopHolds`, `RetryHarmless`, `NoOtherStandstill`, `IntentAsDocumented` | 2 calls, 1 admin, 2 phones, 4 texts, both ceilings 1, windows kept 0 minutes, clock to 1, 3 arrivals, 2 forms or 1 setup, 1 crash; calls and phones symmetric |
| `inbound_stuck` | finding: the web process stands still | 2 calls of 1 phone, ceilings 1 and 2, one minute, 3 arrivals |
| `contacts` | rows and pairs, `SavedIsStored` | 2 requests, 3 contact ids, 3 numbers, 3 tag names two of which differ in case, 3 edits, 2 other calls; symmetric where alike |
| `organizer_settings` | stored values, `EnabledReachable`, `ShownIsKept` | 2 requests, 2 contacts, 6 texts typed as numbers, 3 calls, 2 changes of contacts; symmetric |
| `draft_form` | one save at a time, `PickStands`, `LocationWhole`, `SavedIsForm`, `SetupSendsForm` | 2 places, 4 events, 3 posts, 1 lost answer; places symmetric |

Bounds. The conflicts are about one row and two workers, so one invite and two
workers exercise them; four clock units cover the invitation, both delays (2
and 1) and the grace period, and two more let a tick that lost its lock store an
old attempt number after a whole budget was spent, which is where `BudgetKept`
is tight; three requests allow invite, setup and a second setup, a reply or
another handler. One fault is a crash or a lost lock; what several of them do
together is left to the theorems, which have no bound. `MaxClock`, `MaxFaults`
and `MaxRequests` only cut behaviours short.

* `Admission`: the conflicts are between two requests; with a lifetime of one
  tick, one tick separates an entry that may be used from one that may not, and
  an answer stored after the tick from one stored before; two edits remove two
  admins, or remove an address and promote it.
* `HangoutSetup`: two requests can overtake or wait for each other, and two
  people give each of them a row to hold while it wants the other; two other
  commits close a hangout and answer, or answer and crash. `MaxRows` is large
  enough to cut nothing.
* `OrganizerNotify`: two replies are a confirmation and its repetition, or an
  answer taken back, or two people's; two clock units hold two digests with an
  alert between them. All other counters only cut short.
* `Inbound`: with ceilings of one, three arrivals reach, exceed and, in the next
  minute, reset a counter; two calls are enough for one to wait for the other;
  two forms add and remove; a setup is counted as two forms, so a behaviour has
  either, and one setup that flushes again and again locks any rows it likes. In
  `inbound_stuck` there is none, so that its trace is the counter's.
* `Contacts`: two requests can overtake each other; three edits are two that
  overlap and one after; two calls are a deletion and a creation.
* `OrganizerSettings`: the texts are an American number without and with its 1, a
  British one, which nothing changes, a Danish one of ten digits and a Swedish one
  of nine, which page and script do, and one that is too short; three calls make a hangout and let two PATCHes overlap,
  or make an account, a hangout and patch it; two changes make a contact and
  delete or renumber it.
* `DraftForm`: four events are a pick, its dismissal, another pick and an edit;
  three posts are a save under way, one that waits and the setup.

Deadlock checking is off except in the `admission` runs, because a system whose
clock, requests and events are used up may stop; `NoOtherStandstill` says what
must not.

Fairness. Only `Followups` needs it. `FairSpec` assumes weak fairness of each
worker's sweep and of its restart, and nothing else: APScheduler fires the job
again after every tick (`worker.py:112`), no statement of the sweep waits for
another worker (SKIP LOCKED, `pg_try_advisory_lock`), and systemd restarts the
unit (`Restart=always`, `terraform/cloud-init.yaml.tftpl:86`). Crashes, lost
connections, the clock and users are free to happen or not. That a request
of `HangoutSetup` or a call of `Inbound` ends needs no temporal property: each has
finitely many steps of its own (`RequestsEnd`, `CallsEnd`), so it ends unless it is
kept waiting. A request of `HangoutSetup` waits for row locks only
(`OnlyLocksWait`); two that want a lock from each other are a matter of Postgres,
which aborts one (`Aborts`), so no property of this code rests on it. What can
keep the calls of `Inbound` waiting is `NoOtherStandstill`.

That property says that a step can be taken. It does so with a predicate
`Ready(r)` that collects the guards of a call's steps, because the prover has no
`ENABLED`. That the guards are the right ones was compared once with TLC on the
instance: a module that extends `MCInbound` checks
`\A r \in Requests : Ready(r) <=> ENABLED Step(r)` as an invariant. The `Ready` of
`HangoutSetupProofs` was compared in the same way (`Ready(r) \/ Deadlocked(r)`,
while the bound of the rows leaves `Room`), and so were `TickReady` and `AlertReady`
of the proofs about the two sweeps with the steps of ticks and alerts in progress.

## Proofs

TLAPS checks the following for every value of the constants, the bounds
included.

| Module | Theorem | Statement |
|---|---|---|
| `FollowupsProofs` | `TypeCorrect` | `Spec => []TypeOK` |
| | `Invariance` | `Spec => []IInv` |
| | `OneText` | `Spec => []OneTextPerWindow` |
| | `BudgetIsEarned` | `Spec => []BudgetEarned` |
| | `NoResponseEarned` | `Spec => NoResponseIsEarned` |
| | `BudgetIsKept` | `Spec => []BudgetKept` |
| | `Refinement` | `Spec => WindowsSpec` |
| | `TicksGoOn` | a tick in progress can go on, or waits to store for the row lock of one that can; only ticks in progress hold the advisory lock |
| | `TicksEnd` | each step of a tick lowers a natural number that nothing else raises: six for each row and its place |
| | `DueIsDecided` | a claimed invite that is due gets its clock moved or is given up |
| `HangoutSetupProofs` | `TypesAndLocks` | `Spec => []TypeOK` |
| | `ClosedIsFinal` | `Spec => ClosedStays` |
| | `NobodyIsForgotten` | `Spec => []NobodyForgotten` |
| | `InvitationsKept` | `Spec => InvitationsSurvive` |
| | `NobodyAskedTwice` | `Spec => NotAskedTwice` |
| | `RequestsEnd` | each step of a request lowers a natural number that nothing else raises |
| | `OnlyLocksWait` | a request that is `Ready` has a step whose guard holds: only row locks keep it waiting |
| `AdmissionProofs` | `IdentityIsFresh` | `Spec => []FreshIdentity` |
| | `OneEach` | `Spec => []OneWorkspace` |
| | `TypesAndTables` | `Spec => []TypeOK` |
| | `LastAdminIsGuarded` | `Spec => LastAdminGuarded` |
| | `AloneAnAdminRemains` | with one request at a time, `Spec => AnAdminRemains` |
| `OrganizerNotifyProofs` | `TypeCorrect` | `Spec => []TypeOK` |
| | `DigestsAreApart` | `Spec => []DigestsApart` |
| | `DigestRefinement` | `Spec => WindowsSpec` |
| | `GoalIsAnnouncedOnce` | `Spec => []GoalOnce` |
| | `RoutineIsSpaced` | `Spec => RoutineSpaced` |
| | `SkipsAreKnown` | `Spec => UnchangedIsKnown` |
| | `NoticesGoOn` | a tick or an alert that cannot go on waits for the row lock of a tick that can |
| | `NoticesEnd` | a tick takes at most five steps, an alert four, whatever else happens |
| `InboundProofs` | `TypeCorrect` | `Spec => []TypeOK` |
| | `CeilingIsHeld` | `Spec => []CeilingHolds` |
| | `StopIsKept` | `Spec => []StopHolds` |
| | `RetryIsHarmless` | `Spec => RetryHarmless` |
| | `IntentMeans` | every sequence of words: `Intent` is `Documented`, but for "optin" and "stopforever" with more words; an opt-out is a decline |
| | `IntentIsDocumented` | `Spec => []IntentAsDocumented` |
| | `TwoStandstills` | `Spec => []NoOtherStandstill` |
| | `CounterStandsAfterAFlood` | `Spec => [](BehindACounter => Spent)`: some window is at its ceiling |
| | `CallsEnd` | a call takes at most eight steps, whatever else happens |
| `OrganizerSettingsProofs` | `TypeCorrect` | `Spec => []TypeOK` |
| | `EnabledHasNumber` | `Spec => []EnabledReachable` |
| | `ShownNumberIsKept` | `Spec => []ShownIsKept` |
| `ContactsProofs` | `TablesAreSound` | `Spec => []TypeOK` |
| | `WhatIsSavedIsStored` | `Spec => []SavedIsStored` |
| `DraftFormProofs` | `DraftTypes` | `Spec => []TypeOK` |
| | `PickIsKept` | `Spec => []PickStands` |
| | `LocationIsWhole` | `Spec => []LocationWhole` |
| | `FormIsSaved` | `Spec => []SavedIsForm` |
| | `SetupTellsForm` | `Spec => []SetupSendsForm` |

**Followups.** Assumptions: `SettingsAssumption` (delays are positive and
bounded below by `MinDelay`, as every entry of `FOLLOWUP_HOURS` must be for the
schedule to make sense), `NamesAssumption` (ids are numbers; the two null values
are not values), `RowsAssumption` (a table has finitely many rows) and
`BoundsAssumption`. `OneTextPerWindow` is not inductive:
that two texts are apart says nothing of the next one. `IInv` adds three layers.
`LockInv`: a row lock is held exactly by the worker that is deciding about the
row, and what that worker read is still what the row holds, because every other
writer waits. `WindowInv`: no text and no claim in flight is newer than the
stored clock (`TextsCovered`, `ClaimsCovered`), so a claim that passes the due
check is a delay past all of them. `BudgetInv`: a result about to be counted was
accepted. Frame lemmas (`LockFrame`, `LockRelease`, `WindowFrame`,
`BudgetFrame`) dispose of the steps that touch none of it; what is left is
`AdvanceSafe`, `DispatchSafe`, `StoreSafe` and `SetupSafe`. The refinement rests
on `ClaimsApart`: no two workers hold the same window, so using or forfeiting
one leaves the others open.

`BudgetKept` counts, so its invariant is a set of books (`Accounts`): for every
invitee, what was accepted, what the holder of the advisory lock may still send
(`Left`), and a weight for the ticks that run on without the lock never exceed
what invitations, lost locks and crashes have paid. A tick that may still text
(`Ahead`) weighs a whole budget. One that has texted and not stored its number
(`Behind`) weighs a budget less one text, because storing that number puts back at
most what comes after it. Losing the lock pays for the weight the tick then has;
a crash pays for the text it leaves uncounted; an invitation pays for the budget
it restores.

Three theorems are about what stands behind `DueIsServed` and `AdvisoryReturns`
once the scheduling is taken away. `TicksGoOn`: a claim skips rows that are
locked, so a tick waits only to store a result, and the worker that holds the row
is deciding about it and can; nobody waits behind a second tick. `TicksEnd`: the
rows of a snapshot are rows of the table (`KnownRows`), so the rows still to come
are finitely many and each costs six steps at most. `DueIsDecided`: what a tick
decides is decided by the row as the lock shows it, so an invite that is due is
never put aside.

**Admission.** Assumptions: `AddressesAssumption` (`None` is neither user nor
address) and `LimitsAssumption` (a positive TTL). `FreshIdentity` speaks only of
requests past the lookup, so it needs to know where their address came from.
`IdentityInv` gives every copy a time at which Clerk vouched for it, or later
(`Known`): the arrival of the lookup for an answer on its way, `until - TTL` for
a cache entry. A change of address then cannot hurt, because it ceases *now*,
and no recorded time is later. `Onward` and `Ending` are the frame: all steps
past the lookup are one or the other. `OneWorkspace` needs `PendingInv`: an
uncommitted slug is held by one request and belongs to no committed workspace.
`AccessInv` is about the table of grants: ids and addresses are unique and no
stored id is ahead of the sequence (`Table`), and a form that nothing has
overtaken since its guard still finds the table as it was - the admin it read is
not the last one, the member's row is as read (`GuardedWrite`). So a write that
does take the last admin away was overtaken, which is `LastAdminGuarded`. With one
request at a time nothing is ever overtaken, and the refuted `AnAdminRemains` is a
theorem (`AloneAnAdminRemains`).

**HangoutSetup.** `ClosedStays` needs to know what a pass in flight believes:
`TruePicture` says that a setup nothing overtook still sees the hangout's status
as it is, and that it is neither missing nor closed. Every commit marks the
others as overtaken (`InvOvertake`), a pass begins with a true picture
(`InvLoad`) and keeps it (`InvMove`), so a commit over a closed hangout is an
overtaken one; and since a setup loads a draft or an active hangout and writes the
status only in the first case, it had loaded a draft.

The other properties are about rows, and need the same picture of them: `Strong`.
`Store` and `Locks` are the tables: unique ids, rows of existing contacts, and row
locks that exclude each other and only name rows that are there. `Books` are a
session's own: whoever was texted is out of the selection, the other rows are as
loaded or new and still to be texted. `Current` compares the books of a pass that
nothing overtook with the table: every row of the table was loaded, what is to be
dropped was never texted, and the new rows are of people who have none. A commit
of such a pass therefore leaves texted rows and answers alone
(`InvitationsSurvive`), leaves nobody untexted (`NobodyForgotten`, which is part
of the invariant because the next pass starts from it), and texted nobody twice
(`NotAskedTwice`). A pass that was overtaken keeps less, but its books still say
what it saw: what it drops it read as untexted (`SeenOpen`), and of a row it
texted it writes the status only where that differs from the one it read, so an
answer that it loses is one it had not seen (`StaleCommitLoses`).
Assumption besides the names: finitely many people, because
the rows an edit adds are numbered by counting the people they are for.

`RequestsEnd` counts: the people still to look at, the
rows still to lock and the place in the code make one number (`Effort`) that each
step of the request lowers and no step of anything else raises. `OnlyLocksWait`
ties `Ready` to the actions: the people and rows a step takes up are there to be
taken up (`InHand`), so where `Ready` holds so does a guard (`Guarded`), while the
bound of the rows leaves room.

**OrganizerNotify.** Assumption: a positive interval, and `None` is no value.
The digest's `LockInv` and `WindowInv` are the sweep's argument again, with one
more turn: the anchor may be the activation, so `LockInv` also says that no tick
is under way on a draft, and `Covered` that a digest or a claim has set the
clock; `DuePast` then puts a due claim an interval past all of them. Alerts only
move the clock forward, which is why they can cost a digest and never double it.
`CooldownInv` and `GoalInv` describe the alert on its way while no commit was
lost: the stored clock covers an accepted alert from its save on, and an
announced goal is flagged or about to be. `KnownInv` says that the fingerprint
is what the organizer was told, unless `blurred`; it needs `WorkerAlone` and
`AlertAlone`, which say that a text that overlaps no other still has under it
the row it loaded. The row lock is held by a tick that decides, or by nobody, so
whatever waits for it waits for one step (`NoticesGoOn`), and every step of a tick
or of an alert brings it nearer to its end (`NoticesEnd`).

**Inbound.** Assumption: ceilings of at least one; the names are different.
`CeilingHolds` is not inductive because a pruned counter starts at zero again.
`LimitInv` says that a pruned window is over, for the clock and for every call
in the limiter, whose own minute is later; so a call counts only in a window
whose row tells everything it let through. `MineStands` is the step that lets a call
through: both its counters are as they were checked, because no other call counts
while this one is on the loop (`LoopInv`).
`StopHolds` is inductive. `RetryHarmless` needs `LatestInv`: what the phone's
last text left behind - an answer, a row of the list, or none - is still there.
`IntentMeans` needs no state and says more than the run, which checks texts of
two words: `Documented` depends on the first two words only (`BeginsWithOne`,
`BeginsWithTwo`), a phrase has one meaning (`OnePair`, `OneWord`), and the rest is
a case for each group of first words. `TwoStandstills` looks at the loop: when it
is free every call outside it can go on; when it is taken, the call on it can go
on, or wants a counter (`Wanted`) or the row of its invite (`WantsRow`). The
counter is held by a call off the loop (`LoopInv`): either its session is about to
be closed and it can go on, or it waits for the loop to start the thread that
closes it, which is `BehindACounter`. The row is held by a setup (`PassOK`), which
is about to be closed, or raised and waits for the loop, or still texts, and then
either some setup has raised, which is `BehindARow`, or none has and it ends by
itself. `CounterStandsAfterAFlood` adds the history: a call that still holds a
counter off the loop was refused, and a refusal means a window at its ceiling
(`Refusals`). The standstill behind a row needs no such thing.

**OrganizerSettings.** Assumption: the default is one of the offered choices,
and `None` is no number. `EnabledReachable` is about a contact or a stamp, and
only the stamp is safe from deletion; the invariant therefore says of stored and
checked rows that a chosen contact has left its number in the stamp
(`Reachable`). A PATCH that nothing overtook still sees the row it checked, but
for an organizer deleted since (`SeesRow`), so what it writes is what it checked
(`WrittenReachable`).

`ShownIsKept` is about numbers alone: an accepted number is a plus sign with
eight to fifteen digits (`NumberIs`), so the script cuts nothing off, and page and
script put a 1 before it exactly in the cases of `TakenForLocal` (`ShownAgain`);
the type invariant says that the account holds such a number.

**Contacts.** Assumption: `None` and the unusable number are no numbers and no
tags. `Types` has the constraints of the tables (`Unique`, `Owned`, the pairs'
tags are in the catalogue) and what a request at each of its steps knows. A row
that says "Saved" is stored because of what is under way before it says so, so
`Kept` speaks of the PATCHes in flight: either one is alone, or every field is in
doubt (`Together`); what a lone one has read is still so, but for tags deleted
since (`Reads`); and the tags and the number are stored as shown unless a PATCH
that brings them is under way (`TagsKept`, `NumberKept`). The answer that ends the
last PATCH leaves `SavedIsStored`.

**DraftForm.** Assumption: `None` and the typed text are no places and no texts of
places. `Types` has the chain of POSTs (`Chain`): each one that has been sent has
only settled ones before it, and a setup is the last. `Says` relates page, POSTs
and row. `ReadsStand`: what an unsettled POST has read is still the row, and what
it has stored is; a save that lost its answer can store beside a later one, so
this holds only of POSTs that no such save has stored beside (`sure`), and doubt
stays until one sent after it has answered (`Sureness`). `FormSaved`: with
nothing about to be saved, the last POST carries the form, or all have settled
and the row holds it. `AllWhole` carries the wholeness of places through page,
POSTs and row together, because `NobodySelected` shows the page from the row, and
`SetupTold` is what the last POST of an active hangout leaves.

Only model-checked: the liveness properties `DueIsServed` and `AdvisoryReturns`,
because liveness under fairness is out of the prover's reach. `TicksGoOn`,
`TicksEnd` and `DueIsDecided` are the steps they rest on, for every value of the
constants; what remains for TLC is to put them together with the fairness. Also
left to TLC is that `Ready` is `ENABLED` (above), of which `OnlyLocksWait` proves
one half for `HangoutSetup`. Every other property of a passing run is a theorem.

## Findings

* `followups_lost_reply`: the claim re-reads the row but not its status, so a
  YES or NO committed after the snapshot is overwritten by `no_response`
  (`services.py:890`), against `docs/invites-and-followups.md:24`. The sweep is not
  alone in this: a setup that overlaps the answer can undo it too (below).
* `admission_last_admin`: the guard counts before the commit and locks nothing
  (`web.py:1109`, `1137`), so two admins can remove each other; against
  `docs/tenancy.md:117`. One request at a time cannot (`AloneAnAdminRemains`).
* `inbound_stuck`: a refused call leaves its counter locked until its session is
  closed in a thread (`webhooks.py:49`); a second call that waits for that row
  on the event loop keeps the loop from ever starting that thread. Against the
  purpose stated at `webhooks.py:197-199`. It needs a window at its ceiling
  (`CounterStandsAfterAFlood`). The loop can stand still in one other way
  (`BehindARow`), which needs no flood: a setup flushes an invite row
  (`services.py:543`), a later send raises, and before the loop gets to close the
  setup's session it takes up an answer to that row, whose UPDATE
  (`services.py:757-768`) waits for it on the loop. `NoOtherStandstill` says that
  there is no third way.

Other differences between the code and what its documents say, which the models
contain and the properties excuse by name:

* A crash between an accepted follow-up and its commit lets one text more
  through than the budget (`services.py:934`, `docs/invites-and-followups.md:30`);
  a lost advisory lock costs up to a whole budget, because the tick goes on and
  stores its attempt number last, over the numbers stored meanwhile
  (`services.py:934`, `947`). `BudgetKept` counts one text for each crash and one
  budget for each lost lock. The proof attempt found the second part: a bound of
  one text for each fault holds until the clock reaches 6.
* The loser of two first requests gets a 500, because the unique slug fails in
  `flush()` outside the `try` that re-reads (`tenancy.py:73`, against `66-68`
  and `docs/tenancy.md:31`). One workspace remains.
* An alert whose fingerprint is longer than `String(512)` fails after the text
  went out: the clock, the flag and the log row are lost, and the milestone can be
  announced again (`services.py:249`, `models.py:384`,
  `docs/organizer-notifications.md:44`); `GoalOnce` excuses `torn`.
* A foreign number of ten digits behind a plus sign is shown as an American one
  (`sms.py:105-107`), and `phone_format.js` puts `+1` before one of eight or nine
  digits that does not begin with 1 when the page loads (`phone_format.js:23-27`,
  `65-70`). A form that is saved stores the new number; one of nine digits has
  ten by then, and gets another 1 at the next save. `ShownIsKept` says that these numbers change in
  just this way and no others do.
* Setups that overlap each other or an edit. Nothing is locked while a setup texts,
  so two of them text everyone twice and insert a row each (`services.py:535-589`);
  one that loaded a draft writes `active` over a close (`services.py:587`); one
  that loaded a failed or unanswered invite writes `pending` over the answer that
  came during its texts (`services.py:573-583`); a draft form that was checked before
  drops rows that were texted meanwhile (`web.py:804`, `825`). A repeated id at
  creation leaves a row that nobody texts (`api.py:661`). `stale` and `tainted` mark
  them.
* A digest whose fingerprint is taken before its body (`services.py:1012`, `1025`),
  or that overlaps an alert, can leave a fingerprint of a state the organizer was not
  told, and the next digest is skipped as unchanged; `UnchangedIsKnown` excuses
  `blurred`.
* PATCHes of one contact that are under way together may be applied in any order
  (`contacts_autosave.js:88-99`); `SavedIsStored` excuses the fields in `doubt`.
* Two PATCHes of one hangout can leave notifications on without a number
  (`api.py:756`); `EnabledReachable` excuses `skewed`. A stamp that outlives its
  contact may by then be somebody else's number (`services.py:171`).
* Two saves of a draft that overlap after lost answers can mix two places so that
  a place has no text; the page then shows it and the next save drops it
  (`web.py:578-616`). `SavedIsForm` therefore compares the row with what the server
  keeps of the form, and with the form itself when no answer was lost. This too
  was found by the proof: it takes two lost answers, more than the instance has.
* A pick that is dismissed before its details arrive is kept by the page and
  not saved until the next edit (`location_autocomplete.js:332`); an edit
  typed while a setup's save is under way is not queued when that save fails.
* The answer to a contact's save overwrites a number typed meanwhile
  (`contacts_autosave.js:74`).
* Two creations at once leave tag names that differ only in case (`api.py:421`).
* "optin" and "stopforever" are keywords only alone, while other keywords may be
  followed by more words (`messages.py:582-679`); `IntentAsDocumented` leaves
  these two out.

## Plan

Done: all modules above, with their runs; both refinements; a theorem for every
safety and action property of the passing runs.

Worth doing next, in this order:

1. An abstract specification of the contacts page's row and of the draft form (a
   register that is written by one client), with the modules shown to implement it.
2. The lemmas about the columns that a unit of work writes (`Written`, `Changed`,
   `Printed`, `Updated`) as one module.

## Not modelled

* Message wording, templates, previews and the simulator's page: they change no
  state that a property is about.
* Cost estimates, health checks: read-only.
* Audit logging observes and never decides. A snapshot of its files taken
  while the handler rotates them is about files, which no module has.
* Allergies, because they repeat tags; the location fields of the API's creation
  and PATCH, because they go through the same helper as the draft form, and the
  PATCH of free text, which nothing else reads.
* The validators of settings, ids and coordinates: each only rejects a value at
  the door.
* The provider object cached in `sms.py`, Twilio's signature and its delivery
  beyond acceptance.
* Migrations and terraform: they run before the program; only the restart
  policy matters here.
