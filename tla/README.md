# Lightning and the mail queues beside it, in TLA+

The repository is the source tree of Thunderbird, SeaMonkey and the Lightning
calendar extension (`src/comm-release`). It is named for its calendar, and most of
this development is about the calendar: its caching, journalling, alarms, undo,
calendar files and calendar servers, whose correctness depends on asynchronous callbacks overtaking one
another, on what survives a restart, and on timers. Two components of the mail side with the same kind
of difficulty have joined it: the IMAP auto-sync and the queue of the message copy
service.

Contents: [inventory](#1-inventory), [plan](#2-plan), [the modules and the
code](#3-the-modules-and-the-code), [the runs](#4-what-the-runs-check),
[fairness](#5-fairness), [the proofs](#6-what-is-proved), [findings](#7-findings),
[limits](#8-what-is-not-modelled).

All paths below are relative to `src/comm-release/calendar/` unless they begin
with `src/` or with `mailnews/` (`src/comm-release/mailnews/`).

## 1. Inventory

All of it runs on the single main thread of the program. Concurrency comes from
*callbacks*: a database read (`executeAsync`), a network request, `cal.postPone`,
`cal.forEach` (a loop that yields to the event loop between turns), timers, and
observer notifications that call back into the caller. Between a request and its
callback, every other callback and the user may run.

| Part | State | Operations | Talks to |
| --- | --- | --- | --- |
| **Storage calendar** `providers/storage/calStorageCalendar.js` | SQLite tables `cal_events`, `cal_todos` with the column `offline_journal`; `mItemCache`, `mRecEventCache`, `mRecTodoCache` | `adoptItem`, `modifyItem`, `deleteItem`, `getItem(s)`, `addOfflineItem`, `modifyOfflineItem`, `deleteOfflineItem`, `resetItemOfflineFlag`, `getItemOfflineFlag`, `deleteCalendar` | the database thread; its callers through listeners |
| **Cached calendar** `base/src/calCachedCalendar.js` | `mSyncQueue`, `mPendingSync`, `offlineCachedItems`, `offlineCachedItemFlags`, the locals of `completeListener`, `itemCount` of each playback listener | `synchronize`, `refresh`, `playback{Added,Modified,Deleted}Items`, `adopt/modify/deleteItem`, their offline versions, `onOfflineStatusChanged` | a storage calendar (the cache), a provider (the "uncached" calendar), `calIterate` in `base/modules/calIteratorUtils.jsm` |
| **Alarm service** `base/src/calAlarmService.js`, **alarm monitor** `base/src/calAlarmMonitor.js` | `mTimerMap`, `mRangeEnd`, `mUpdateTimer`, `mLoadedCalendars`; `mAlarms` | item notifications, `findAlarms`, `initAlarms`, the six-hourly search, `snoozeAlarm`, `dismissAlarm`, `startup`, `shutdown` | all calendars (composite observer), the alarm window |
| **CalDAV provider** `providers/caldav/calDavCalendar.js` | `mItemInfoCache` (etags, locations), `mCtag`, `mWebdavSyncToken`, the offline metadata in the cache | `replayChangesOn`, `safeRefresh`, `getUpdatedItems`, `do{Adopt,Modify,Delete}ItemOrUseCache` | the server; the cache it is handed as `mOfflineStorage` |
| **ICS provider** `providers/ics/calICSCalendar.js` | `queue`, `locked`, `mModificationActions`, a memory calendar, the etag hooks | `processQueue`, `doRefresh`, `doWriteICS`, `lock`, `unlock` | the server (one file per calendar) |
| **Transaction manager** `base/src/calTransactionManager.js` | the undo and redo stacks; per transaction `mItem`, `mOldItem`, `mIsDoTransaction` | do, undo, redo; `onOperationComplete` | two calendars for a move |
| **Calendar manager** `base/src/calCalendarManager.js` | the registered calendars, `mRefreshTimers`, the network-offline observer | register, unregister, refresh timers, offline notification | every calendar |
| **Composite calendar** `providers/composite/calCompositeCalendar.js` | the list of calendars; per `getItems` the answers still missing | fan-out of calls, counting of answers | calendars, views, alarm service |
| **Memory calendar** `providers/memory/calMemoryCalendar.js` | `mItems`, `mOfflineFlags` | as the storage calendar | the ICS provider |
| Google and WCAP providers | sessions, request queues | protocol clients | servers |
| Items, recurrence, time zones, iTIP | immutable-on-demand data | pure functions, mostly | everything |
| Views, dialogs, import and export | DOM | user interface | the above |
| **IMAP auto-sync** `mailnews/imap/src/nsAutoSyncManager.cpp`, `nsAutoSyncState.cpp` | `mPriorityQ`, `mDiscoveryQ`, `mUpdateQ`, `mUpdateState`, `mIdleState`, `mPaused`, `mTimer`; per folder `mSyncState`, `mDownloadQ`, `mOffset`, `mLastOffset`, `mRetryCounter`, `mExistingHeadersQ`, the semaphore | the timer, idle notifications, the ends of STATUS, update and download urls, new headers, pause and resume | the IMAP thread (urls), the folders, the idle and IO services |
| **Message copy service** `mailnews/base/src/nsMsgCopyService.cpp` | `m_copyRequests`, per request its sources with `m_processed`; `mCopyState` of every folder | `CopyMessages`, `CopyFolders`, `CopyFileMessage`, `DoNextCopy`, `NotifyCompletion` | the destination folders, the listeners of the requests |
| Other mail and news, address book, Mork, import; chat; composer, build | - | - | other parts and programs of the same tree |

### What is hard, part by part, and what makes it correct

**Storage calendar.** Writes are synchronous, but the decision what to write may be
read *asynchronously*: `modifyItem`, `modifyOfflineItem` and `deleteOfflineItem`
post a SELECT of the `offline_journal` column and write in its callback. A crash
between the statements of one operation leaves half of it. Correct means: an
offline change the user was told is recorded is in the journal, under the right
kind (an item the server never saw stays a *creation*, whatever is done to it), for
as long as the server has not been told.

**Cached calendar.** A sync is a chain of about a dozen callbacks: three collections
of the journal, a `getItems` to the provider, a wipe, a refill loop, a merge loop,
and three playbacks each of which counts answers. Everything may be interleaved with
edits, with going offline, with a second sync and with other clients of the server.
Correct means: one sync at a time; nobody who waits for a sync waits for ever;
every playback gets exactly the answers it counts; an offline change is always
somewhere it will be sent from; an acknowledgement only clears what it acknowledges;
and in the end the server hears of every change.

**Alarm service.** It sets timers only for the next six hours and searches again
afterwards; an alarm's fate passes between item notifications, periodic searches,
reloads, the window and the user's answers. Correct means: what rings is current,
and no alarm falls between two of these.

**CalDAV provider.** Fetches what has changed in a chain of requests, a batch of items at a
time, and stores it in the cache itself; the user's changes are chains of their own beside it, each
guarded by an etag. Every path must end the chain with a call of the listener. Correct
means: what is stored as the state of the collection (a sync token, a ctag) stands for what is in
the cache; no PUT or DELETE replaces what the user has not seen; whoever asks for a refresh is
answered. **ICS provider.** One lock that every path must release, a PUT of the
whole file whose failure must undo what the memory calendar already did, and a
retry that must not lose queued operations. **Transaction manager.** Answers arrive
after the direction (do or undo) may have changed; a move is two operations of which
one may fail.

**IMAP auto-sync.** Three queues, one timer, and a state per folder that every callback
reads and writes; one callback hears of two kinds of urls, and headers arrive whenever
the user or the server likes. Correct means: one folder of a server downloads at a time;
a folder's semaphore is held exactly while it downloads; every group of messages is
fetched or retried in the end; one update at a time is under way, and it ends.

**Message copy service.** A queue with calls that nest: a copy may be over before the
call that starts it returns, and the listener that hears of it makes the next request.
Correct means: a folder is never asked to copy while it copies; a listener is called
once, when its copy is over and not before; nobody waits for a folder that is free.

The full list of hazards, each with its line and the properties that watch it, is in
`PROJECT.json` under `hazards`.

## 2. Plan

Order of work, the most important behaviour first. Modules marked ✓ exist.

1. ✓ `OfflineStorage` - the cache database and its journal, with `OfflineJournal` as
   the abstract specification it implements, and `OfflineStorageProofs`.
2. ✓ `CachedCalendar` - the facade, *composed* with `OfflineStorage`: it extends that
   module and its actions are built from the storage's operators and callbacks;
   `CachedCalendarProofs`, that extends the storage's.
3. ✓ `AlarmService` - the alarm service and the monitor's list.
4. ✓ `AlarmServiceProofs` - that what rings is current and that no alarm at its own time
   is left to nobody.
5. ✓ `CalTransaction` - do, undo and redo against calendars that answer later; a move
   between calendars; with `CalTransactionProofs`. Still open: batches.
6. ✓ `AutoSync` - the auto-sync manager and the sync objects of its folders, with
   `AutoSyncProofs`. Still open: `OneDownload` with messages that wait on the server, which TLC
   finds true ("pending", "sent", one message in each of two folders, 452,568 states) and the
   theorem leaves out.
7. ✓ `CopyService` - the copy queue and local folders that do the copying, with
   `CopyServiceProofs`.
8. ✓ `CalDavCalendar` - the CalDAV provider with its server, and the part of the facade that
   uses it (the change-log branch, `calCachedCalendar.js:307-327`), with
   `CalDavCalendarProofs`. Still open: the journal that a failing server makes it write in the
   cache, composed with `OfflineStorage`; then a change-log sync should refine the same promise
   as the full one (`Reconciled`).
9. ✓ `ICSCalendar` - queue, lock, whole-file PUT and the tags of the file, with
   `ICSCalendarProofs`. Still open: that its queue implements, as a refinement, what
   `CachedCalendar` assumes of its provider.
10. The recurring-item caches of the storage calendar (1527-1579) against the rows.
11. The disabled branch of `synchronize`, `unregister` during a sync.
12. Undo batches of the copy service, and IMAP folders as its targets, whose own copy
   states nest requests in requests.

Runs: what is open in module 8 needs one more, with one item, since the hazards known need
two actors and one item. The number of runs stays at a dozen; runs that have made room for
others are kept as configurations (sections 4 and 7). Every invariant and every safety
property of steps that a run checks is a theorem now, but `ItemKept`, which the code violates;
theorems that would pay next are those of the parts still open above.

## 3. The modules and the code

### `OfflineStorage` - one row per item

| In the model | In the code |
| --- | --- |
| `rows[i].ver`, 0 for no row | the row of `cal_events` / `cal_todos`; its content is a version number |
| `rows[i].flag` | `offline_journal` (null, 1, 2, 4: `base/public/calIChangeLog.idl:152-155`) |
| `lookups` | SELECTs posted by `getItemOfflineFlag` and their callbacks, in order |
| `seen` | the local `oldOfflineJournalFlag` between the read and the callback |
| `clock` | counts the contents written; a bound on a behaviour, not a variable of the code |
| `owed` | history: the flag the last caller for this item was told is stored |

`Serial` says whether callers wait for their own operations on an item before they
start the next one. The views do (a dialog modifies the item the previous
notification gave it); nothing enforces it, so both values are run. `ReadFlag` is a
step of the database thread, `DoModifyItem`, `FinishModifyOfflineItem` and
`FinishDeleteOfflineItem` are the completion callbacks. The two `CrashIn...` actions
are crashes *inside* an operation that is more than one transaction: `flushItem`
commits before `setOfflineJournalFlag` runs (578-579). `Restart` is a crash or quit anywhere
else. A crash changes nothing in `owed`: what a caller was told before holds for him.
`TornFlags` says whether the process may also die between the statements that rewrite a row
which *has* a flag. It may, of course, and then the flag is lost (counterexample 18 in section
7); the runs and the theorems about the journal are for `TornFlags = FALSE`, where crashes come at
any other point.

Abstracted: what an item contains; the events/todos split (an id is in one table);
read-only and invalid-argument returns, which change nothing; the strict mode the
cached calendar turns off (`calCachedCalendar.js:202`); SELECTs that fail.

`OfflineJournal` is what callers may rely on: per item one flag, moved by `Create`,
`Modify` (only from "none"), `Delete` (only from "none" or "modified") and
`Discharge`. `OfflineStorage!JournalRefined` is the refinement; the mapping reads the
flag column of every row.

### `CachedCalendar` - extends `OfflineStorage`

| In the model | In the code |
| --- | --- |
| `offline` | `getIOService().offline` |
| `loading` | a `refresh()` of the provider before its `onLoad` |
| `queue` | the length of `mSyncQueue` |
| `sync.phase` | which callback of `synchronize` is next (table below) |
| `sync.renewed` | the cache has been wiped: `setupCachedCalendar` ran in the first `onGetResult` |
| `sync.loops` | the refill loops (`cal.forEach`) that have not completed: `getsReceived - getsCompleted` and their items |
| `sync.op` | `opCompleted` and the saved arguments of `onOperationComplete` |
| `collected` | `offlineCachedItems`, `offlineCachedItemFlags` |
| `fetched` | `modifiedTimes` |
| `tasks[s]` | one playback: which kind it is at, `itemCount`, and its `callbackFunc` |
| `calls` | operations given to the provider whose listener has not been called |
| `server` | external: what the server holds |
| `unsent` | history: the last offline change of the user the server has not seen |

Phases: `created`, `modified`, `deleted` are the three `getOffline...Items`; `asked`
is the time from `getItems` to its `onOperationComplete`; `answered` from there to the
last refill loop's `completed()`; `merge` is the loop of 381-429. `sync.phase = idle`
with a non-empty `queue` is the playback that ends in `emptyQueue`.

`tasks[s].then` tells the two uses of `playbackAddedItems` apart: `drain` empties the
queue at its end (425-429), `load` only fires `onLoad` (431) - that one runs beside
whatever comes next, which is why there can be several playbacks.

The provider is external. It answers a `getItems` with up to `MaxBatches` calls of
`onGetResult` and one `onOperationComplete`, performs operations in any order, and
may refuse: an addition of an id it has, a modification of one it has not, anything if
`Disturbances` say so. When it has nothing it may answer without any `onGetResult`
(`calICalendar.idl:471`); the cache is then not wiped, what was deleted on the server stays in it,
and the merge writes over the old rows. `PlaybackGet` waits for nothing, as the code does not wait:
it may come before the lookups that the merge has posted. `RemotePut` and `RemoteDelete` are other clients of the server.

`Disturbances` switches the adversity on, so that each run can say under which
circumstances its properties hold; see the comment in the module. Without any of
them the user edits only between syncs (`Calm`), the provider serves its queue in
order and the program stops only between operations.

### `AlarmService`

| In the model | In the code |
| --- | --- |
| `now`, one tick | the clock; `Interval` is the six hours of `kHoursBetweenUpdates`, `Month` the month `findAlarms` looks around |
| `store` | the calendar's items: start, length, alarm, `X-MOZ-SNOOZE-TIME`, `alarmLastAck` |
| `offset` of an item | when `calculateAlarmDate` (`calAlarmUtils.jsm:92-114`) puts its alarm, counted from the item's start: related to the start or the end, or at a time of its own; before the item, in it or after it |
| `bells[i].timer` | the item's entry of `mTimerMap`: when it fires |
| `bells[i].shown` | the monitor's `mAlarms` has the item, that is, the window shows it |
| `rangeEnd`, `nextUpdate` | `mRangeEnd`, when `mUpdateTimer` is due |
| `gets` | `getItems` calls on their way |
| `loaded` | `mLoadedCalendars[calendar.id]` |
| `suppressed` | the calendar's `suppressAlarms` or `disabled` |

Notifications (`AddItem`, `ModifyItem`, `DeleteItem`) come in the same step as the
change of the calendar, as the providers send them. `Wake` is the wake-up from
standby: `shutdown` and `startup`; the monitor has been removed as an observer when
the timers go, so its list keeps what it had. Timers may be late by any amount:
`TimerFires` and `Update` are guarded by `now >=`, never forced.

`Inside` is the range test of the calendars (`checkIfInRange`, and the storage calendar's query):
an item is found when it starts before the range ends and is not over when it begins.

Two assumptions with a name: `AlarmConstants` bounds how long before its item an alarm may be (the
code says of longer leads that it will "miss some", 288-290), and `Answerable` says that the user does not
answer an alarm in the very tick it is due in (in the code: the same second, 413,
where a dismissed alarm would ring again; see the hazard).

### `CalTransaction`

| In the model | In the code |
| --- | --- |
| `txns[t]` | a `calTransaction`: `action`, `cal`, `item`, `old`, `oldCal`, `isDo` are `mAction`, `mCalendar`, `mItem`, `mOldItem`, `mOldCalendar`, `mIsDoTransaction` |
| `undos`, `redos` | `mUndoStack` and `mRedoStack` of `nsTransactionManager.cpp` |
| `calls` | operations given to a calendar whose listener has not been called |
| `cals` | the calendars' items: content (`ver`) and `X-MOZ-GENERATION` (`gen`) |
| `txns[t].was`, `txns[t].is`, `wanted`, `refused` | history: what a transaction found and made, what the user wants, whether anything was refused |

`Add`, `Modify`, `Delete` are `createAndCommitTxn` as the event dialog and the views use
it, `Undo` and `Redo` the two commands. The stacks know nothing of answers: a transaction
goes on the undo stack when `doTransaction` returns, whether or not the calendar will
accept. `Succeed` and `Fail` are the calendar's answer together with
`onOperationComplete`, and with the `addListener` of a move.

There are two kinds of calendars, told apart by `Accepts`. A storage calendar refuses an
addition of an id it has and deletes anything; a memory calendar (and with it an ICS
file, which queues its operations and answers when the file is written) takes any addition, and
refuses to delete or modify what is not exactly what it holds. Ids of new items are
fresh. Without `"impatient"` the user waits for the answers before the next command.

### `AutoSync`

| In the model | In the code |
| --- | --- |
| `sync[f]` | the `nsAutoSyncState` of a folder: `state`, `q`, `offset`, `last`, `retry`, `changed`, `existing` are `mSyncState`, `mDownloadQ`, `mOffset`, `mLastOffset`, `mRetryCounter`, `mIsDownloadQChanged` and the rest of `mExistingHeadersQ`; `held` is the folder's semaphore |
| `priorityQ`, `discoveryQ`, `updateQ` | `mPriorityQ`, `mDiscoveryQ`, `mUpdateQ` |
| `initiated` | `mUpdateState == initiated` |
| `idle`, `paused`, `timer` | `mIdleState`; `mPaused` and the IO service's offline state; `mTimer` |
| `status[f]`, `update[f]`, `running[f]` | external: the urls of the folder the IMAP thread works on, the downloads with their messages |
| `message[m]` | external: whether the header is in the database and the body in the offline store |

The handlers of the two files call each other up to five levels deep, with early returns
that depend on each other's results. They are written as operators on a record of the
variables they change (`Work`), some with a result `rv` ("ok", "failed" for
`NS_ERROR_FAILURE`, "notAvailable"); `Apply` makes such a record the next state. Loops over
folders are written without recursion or folds: what the loop does to one folder depends on
that folder and on the queue, not on what it has done to the others before, so `Handled` puts
the results together; the siblings that `HandleDownloadErrorFor` comes to are those before
which none starts. The
actions are the entry points: `TimerCallback`, `GoIdle`, `ComeBack`, `Pause` and `Resume`
(`Observe`), the ends of urls `StatusStops`, `DownloadStops` and `UpdateStops`,
`HeaderFetchCompleted` and `OnFolderHasPendingMsgs`. `StatusStops` and `DownloadStops` are
the same callback of the sync object, `OnStopRunningUrl`, which looks at the state of the
folder to know which it is; a mistake there is counterexample 8 of section 7.

Time is abstracted to choices: which folders are stale enough to be updated or old enough
to be discovered. The folder strategy is a rank, the message strategy the message number,
sizes are small numbers against `GroupSize` and `FirstGroupSize`. `Disturbances`, as in
`CachedCalendar`, names what else happens, so that each run can say under which
circumstances its properties hold. Without any of them auto-sync is alone with its server.

### `CopyService`

| In the model | In the code |
| --- | --- |
| `Plan[r]` | an `nsCopyRequest`: type, `m_srcSupport`, the folders of `m_copySourceArray`, `m_dstFolder`; `target` is the folder that copies and reports, the destination or the new folder in it. "emptyFolder" is a folder request as well, for a folder without messages that comes from another server |
| `queue` | `m_copyRequests` |
| `done[r]` | the sources with `m_processed` set; all of them: the request's own `m_processed` |
| `copying[t]` | `mCopyState` of a local folder |
| `stack` | the calls of `DoNextCopy`, `NotifyCompletion` and `OnStopCopy` that have not returned |
| `heard[r]` | history: what the request's listener was told |

`stack` is what makes the nesting visible. A frame "next" is a `DoNextCopy` to be made,
"notify" a `NotifyCompletion` in its loop, with `numOrigRequests` (`left`), "listener" an
`OnStopCopy` that has not returned, from which requests may be made ("chaining").
`CopyEnds`, the end of a copy that has run for a while, happens only between calls.

A local folder is external to the service but not to the model: `CopyRuns` is
`InitCopyState`, `CopyAtOnce` a copy that is over before the call returns or cannot start,
whose `OnCopyCompleted` forgets `mCopyState` whosever it is, `CopyRefused` an error of
`CopyFolder`, `CopySilent` ("silence") a return of `CopyMessages` or `CopyFolder` after which nobody
will report an end. `Support` is what is reported as the source: for an
"emptyFolder" the new folder instead (`nsLocalMailFolder.cpp:1703`).

`Ordinary` names the requests the queue is made for: no two that wait have the same source
and destination, and each has one source to copy, the one it is made for and the one that
its end reports (`Support`), so no "emptyFolder" is among them. The passing run
and the theorems assume it; section 7 shows what happens without.

### `ICSCalendar`

| In the model | In the code |
| --- | --- |
| `queue`, `locked` | `queue`, `locked` |
| `pending` | `mModificationActions`, each with whether its `opCompleteArgs` say success |
| `memory` | the items of `mMemoryCalendar`: per item the number of its content, 0 for none |
| `known` | `mEtag` of `httpHooks`, `mtime` of `fileHooks`; 0 for none, `NoTag` for what an answer without a tag leaves behind |
| `turn`, `writing` | a call of `processQueue` under way, with what follows it in the function that called it; its local `writeICS` |
| `requests` | the channel, parser or reading of the memory calendar that will call back: which step of the load (`get`, `parse`) or of the write (`backup`, `read`, `put`, `etag`) it is, and what it carries |
| `readOnly` | the property that `onError` sets and the user clears |
| `file`, `scheme` | external: the file with its tag, on a server or on the disk |
| `answers`, `applied`, `base`, `written` | history: what each listener heard, which changes the memory calendar holds, the tag of the file it was made from, which changes have been in a file |

`ProcessQueue` is one round of the loop of `processQueue` per step. No callback runs between
these steps, since every other action needs `turn = "none"`; they are steps of their own
because the loop ends in a write, a refresh, an exception or the end of the queue. `turn` says
who called: after a turn begun by `unlock` in a catch block `forceRefresh` follows ("then
refresh"), and one begun inside the try block of `httpHooks.onAfterPut` ("try") has its
exceptions taken for a missing ETag (994).

Loading is `DoRefresh`, then one of `KeepOldData`, `LoadEmpty`, `Undecodable` or
`Downloaded` with `ParsingComplete`. Writing is `WriteICS`, `BackupComplete`, `StartPut` or
`GiveUpPut`, `PutSucceeds` or `PutFails`, and `EtagAnswered` when the server's answer had no
ETag. The file and its server are external: the server compares the tag of the `If` header
with its own, an upload may fail before or after the file is stored, and `OtherWrites` is another
client. For local files the comparison is the program's (`NotChanged`).

Items come to the user as the memory calendar has told the views, so a change is based on
`memory` as it is when it is asked for, and may be stale when it is performed; the memory
calendar then refuses it (`Accepts`). `Disturbances`, as elsewhere, names what may go wrong.

### `CalDavCalendar`

| In the model | In the code |
| --- | --- |
| `tag` | `mCtag` or `mWebdavSyncToken`, depending on `mode`, what the server supports |
| `etag`, `known` | the etags of `mItemInfoCache`; `mHrefIndex`, and the items' meta data in the cache |
| `row` | the cache: the etag that the content of the item's row came with |
| `late` | the facade's `modifyItem` of the cache, which waits for the item's flag |
| `checked`, `refreshed`, `disabled` | `mCheckedServerInfo`, `mFirstRefreshDone`, `mDisabled` with `mReadOnly` |
| `saved` | the properties have been saved: a restart finds a server that has been checked |
| `waiting` | `mSyncQueue` of the facade is not empty |
| `chain[c]` | the request a chain waits for, with what the closures of its handlers hold: `itemsNeedFetching`, the new token, the user's operation and his old item |
| `answer`, `wire` | external: what the server has answered, and the answers under way |
| `server`, `changed`, `stamp` | external: the items on the server and when each was changed last |
| `overlapped` | history: two refreshes have been under way at once |

Time is the server's: every change of the collection has the next *stamp*, which is the etag of what
it wrote, the ctag and the sync token. So contents, etags and tags can be compared, and "what the
token stands for" is arithmetic: items changed no later than it.

A chain is a refresh (`Refreshes`) or the user's change of an item (`Items`). What a chain does
next is one of the request records, and the handler of an answer is one action: `OnType`
(`checkDavResourceType`), `OnCaps` (`checkServerCaps` to `completeCheckServerInfo`), `OnCtag`
(`safeRefresh`), then with a plain server `OnEtags` (`etagsHandler`), with webdav-sync `OnReport`
(`webDavSyncHandler`), and for both `OnMulti` (`multigetSyncHandler`) with `OnBatch`, the timer
between two batches, and `OnStop`, the `onStopRequest` after an error. A change is `OnFlag` (the cache
has told the item's flag, and the etag of that moment becomes the If-Match header), `OnPut` or
`OnDelete`, perhaps `OnHead` and `OnPrompt` (the user is asked whether to overwrite), and
`GetUpdatedItem`, which reads the item back with a multiget. All chains share `etag`, `known`,
`tag` and the flags, and that is where they meet.

The server (`Reply` and the actions on it) answers each request with what it holds then; answers
may be failures, incomplete, or refuse a token. What the calendar does not notice has a name
among the `Disturbances`: "skipped" is a multistatus of whose items some are passed over without an
error, because its body is cut off (`onStopRequest` ignores the status it is given) or because
`addTargetCalendarItem` cannot parse their data (`calDavCalendar.js:1008-1033`). With "foreign" the
calendar's uri may lead to a resource that is no calendar (1685-1697). Unless "crossing" is among
them answers arrive in the order given, and unless "slow" is, the cache tells a flag before the next
answer (one is a query of a local database, the other of a server). `Synchronize` starts one refresh
and lets later callers wait with the first, as `mSyncQueue` does.

## 4. What the runs check

Passing runs:

| Run | Configuration | Distinct states | Shows |
| --- | --- | --- | --- |
| `storage` | three items, 4 contents, 3 lookups, `Serial`; crashes anywhere but while a flagged row is rewritten | 169,199 | the journal never loses or misnames a change and implements `OfflineJournal` |
| `cached_calm` | two items, 3 contents, 2 waiting callers, no disturbance | 242,360 | nothing the user did offline is lost on its way through collection, wipe, merge and playback (`UnsentHeld`); acknowledgements match what the server got (`AcksCurrent`); every change reaches the server (`Reconciled`), as long as again and again a playback does not overtake the merge before it |
| `cached_faults` | one item, 2 playbacks; failing calls, crashes | 158,586 | `OneSync` again where playbacks overlap; every waiting caller is called back (`RefreshCompletes`) |
| `alarms` | one item, 6 ticks, an interval of 2 and a month of 4 ticks, snoozes of 1; items without and with a length, alarms before, in, at the end of and after them | 421,147 | timers and window are current (`BellsCurrent`), every alarm at its own time, up to the end of its item, is somebody's responsibility (`AlarmCovered`) and is shown in the end (`AlarmShown`) |
| `transactions` | two items, a storage and a memory calendar, 3 transactions undone and redone any number of times, refusals, a user who waits | 1,591,951 (3,183,899 without the symmetry of the items) | undo restores what was found and redo what was made, in both calendars (`Restored`); no operation is refused because the transaction remembers something old (`NothingStale`); a move never loses its item, whichever half is refused (`MoveKeepsItem`) |
| `autosync` | two folders of one server, three messages, one of them larger than a group; one retry, one header per pass; new headers while no url of the folder runs, failing urls, folders that do not open | 45,386 | one folder of the server downloads at a time (`OneFolderPerServer`), as long as the program stays online semaphores are held exactly while there is a download (`OneDownload`; offline see counterexample 21), every update ends (`UpdateEnds`), and once downloads stop failing every queued folder is done in the end (`QueueDrains`) |
| `autosync_storm` | one message in each of the two folders, no retries; headers during auto-sync's own urls, waiting and sent messages, discovery, a reading user, going offline and groups refused there | 558,552 (888,734 with new headers between, failing urls, folders that do not open and one retry as well, too long for a run) | a folder its siblings wait for has a download running (`WaitedFor`) |
| `copy_service` | five requests: three for one destination, one of them with a source that lies there, a file and a folder; failures, refused folders, requests made by listeners | 299,300 | a folder copies for one request at a time (`OneCopyPerTarget`), no listener hears of an end too early (`NotAnsweredEarly`) or never (`Answered`), and when all calls have returned nobody waits for a free folder (`NobodyWaits`) |
| `ics` | two items, files on a server and on the disk, 3 requests and other clients' contents, 2 waiting actions; failing uploads, lost answers, other clients | 1,068,536 | what others write is never overwritten unseen (`OthersKept`), nobody hears of a success that is in no file (`SuccessWritten`), and an idle calendar shows what the file holds (`InSync`) |
| `ics_storm` | one item, 2 requests; also downloads that fail or are no calendar, others that write at any moment | 74,326 | the lock is held exactly while a request is under way (`LockHeld`), and whoever asks is answered (`Answered`) |
| `caldav` | two items, servers of both kinds, batches of one item, 3 stamps, a failure at any point, one change of the user at a time, other clients, restarts | 334,055 | the cache is what the sync token says (`TokenStands`), the user's changes replace only what he has seen (`SeenBefore`), whoever asks for a refresh is answered (`SyncAnswered`); none of the `Disturbances`, that is no multiget that fails unnoticed and no resource that is no calendar (counterexamples 13, 15 to 17, 23 and 24) |

One run ends in a counterexample to a statement of the repository's own about itself
(section 7): `transactions_move`.

One larger check is not among the runs, since its properties are proved: `OneSync` and
`ItemCount` with edits, answers out of order, returning ids and crashes at any point
(803,593 states with one item, three contents and two playbacks).

### Why these bounds

* *Items.* Items interact only through the order of the lookup queue, through
  `itemCount` and through the batches of a refill: two items are enough to have an
  operation on one between a read and a callback of the other, and a count above one.
  Three in `storage`, since with `Serial` each has at most one lookup. One item suffices
  where the question is about syncs and playbacks overlapping, which the larger
  disturbances make expensive. The alarm service treats items independently
  (`mTimerMap` has one entry for each), so one is enough there.
* *Contents* (`MaxVersion`). Three let an item be synced, changed offline and
  changed again, here or on the server, while the first change is on its way.
* *Queue.* Two callers: the one that starts the sync and one that waits. A bound
  blocks the next `Synchronize`; it never blocks an answer.
* *Playbacks* (`MaxPlaybacks`). Two: one with and one without a waiting caller.
* *Batches.* One `onGetResult` in the passing runs; two in `MCCachedCalendarBatches.cfg`, where
  the second is what breaks the code.
* *Time.* Six ticks are three search intervals: an alarm can be set in one, be moved
  over the next and be found in the third. `Month` is twice the interval so that a
  search reaches beyond the next one and yet items fall out of reach.
* *Searches* (`MaxGets`). Two overlapping ones.
* *Folders of auto-sync.* Servers do not interact but through the update queue, so both
  folders are of one server. Two are enough for one to wait for the other, to be the
  next in the chain and to be behind in the update queue. Three messages give a folder
  two groups: one of a small message, one larger than `GroupSize`, so that a group can
  fail with another behind it. `MaxUrls` is one: a second url of a kind is not made for a
  folder while the first runs, except by the misreadings the properties exclude.
* *Requests* (`Plan`). Five: a request that waits for another for the same destination,
  one behind that, and two for other destinations whose calls nest with theirs. Each is made
  once; a listener can make all those that are left.
* *ICS requests* (`MaxOps`, `MaxQueue`). Three: a change that is being written, one that
  waits behind it, and another client's or a reading. A refresh, forced or not, needs no
  number, so there can always be one more in the queue. A bound on the queue blocks the
  user, never what the calendar puts there itself. Two items are enough for a change of
  one to be written by the upload of the other. `ics_storm` has one, since its questions are
  about the lock and not about the contents, and two requests.
* *CalDAV stamps* (`MaxStamp`). Three: the items there are to begin with, and two changes, the
  user's or others', which is what it takes to change an item on both sides, and two items in
  one report. `BatchSize` is one, so that two items are two batches. Stamps are kept for changes
  under way (`RoomToWrite`), so that the bound never holds up a PUT. One refresh chain, as
  `Synchronize` has it; the chains of the user's changes may become refreshes of a disabled calendar
  besides. `MaxWriting` is one, as changes of different items meet only through a refresh.
  Some of the configurations of section 7 use up to five stamps on one item.
* *Transactions* (`MaxTxns`). Three: an addition or a change, a move, and a change or a
  deletion on top, all undone and redone in every order the stacks allow. `MaxCalls` is
  two, the most a patient user can cause; three in `transactions_move`.

Tried once with larger bounds, beyond what is kept as a run: `OneSync` and
`ItemCount` under all disturbances at once (6.0 million states),
`RefreshCompletes` with faults, crashes and edits together, and the `transactions`
properties with four transactions on one item in storage calendars (18.6 million states);
all hold.

Every property has a mutant (`PROJECT.json`, `mutants`): an operator marked
"Variant" in the module, a plausible mistake in the code, under which the property
fails in the same run.

## 5. Fairness

* `CachedCalendar`: weak fairness of every callback of the main thread (a posted
  event runs) and of the provider's answers to operations (`calICalendar.idl:470-471`:
  an `onOperationComplete` follows; `PlaybackAnswer` does not promise success). Weak
  fairness of `Refresh`: the calendar manager's timer refreshes again and again
  (`calCalendarManager.js:262-270`). Strong fairness of `UncachedLoaded` and
  `GetAnswer`: their guard is false while calls the user made before are outstanding,
  and the ICS provider serves a single queue in order (`calICSCalendar.js:519-584`), so
  later calls cannot hold a refresh or a `getItems` back for ever. No fairness for the
  user, the network's state, other clients or crashes. `Reconciled` assumes that the
  program stays online from some point on, and that again and again a playback begins after
  the lookups of the merge before it are done (`InTime`): the code does not wait for them, and a
  playback that always comes first sends nothing (counterexample 19 of section 7).
* `AlarmService`: weak fairness of the clock, of due timers and of the calendar's
  answers. None for edits, answers of the user, reloads or wake-ups.
* `AutoSync`: every url of the IMAP thread ends, the timer fires while it is set, idle times
  begin and end again and again, and the program does not stay offline once it is back
  (`Resume`). `DownloadStops` and `TimerCallback` are weakly fair; their `WF` is written
  as the disjunction it stands for, with the guard in place of `ENABLED`. No fairness for
  new headers, the user or going offline. `QueueDrains` assumes that from some point on the
  program is online (which it always is in `autosync`; a group refused offline keeps the
  semaphore, and then its folder never drains) and no download fails: `GroupRetryCount` gives up a group, but only
  until the next discovery finds its messages again.
* `CopyService`: every call returns, and every copy that has begun ends, well or badly
  (`nsMsgLocalMailFolder` ends each that got past `InitCopyState` with `OnCopyCompleted`). None for
  new requests. `Answered` leaves out "silence", copies that never begin and are not reported.
* `ICSCalendar`: the turn of the queue goes on (`ProcessQueue`, a loop on the main thread),
  and requests to the disk or a server end, if only by the channel's timeout (`Progress`). Which
  request ends how is left open, and there is no fairness for the user or other clients.
  Weak fairness of `Progress` as a whole is enough, as the lock keeps the requests to one.
* `CalDavCalendar`: every request is answered in the end, if only with an error or the channel's
  timeout (`ServerStep`), and the main thread handles what has arrived (`ClientStep`: answers,
  the timer of a batch, the cache's answer), for each chain. None for the user, the prompt he is
  asked with, other clients or restarts.
* `OfflineStorage` and `CalTransaction` state safety only.

## 6. What is proved

`OfflineStorageProofs`, with TLAPS, for every set of items, every number of contents
and every number of lookups outstanding:

| Theorem | Says | Needs |
| --- | --- | --- |
| `TypeCorrect` | `Spec => []TypeOK` | `StorageConstants` |
| `LookupsStayCurrent` | `Spec => []LookupsCurrent` | and `Serial` |
| `OwedStaysStored` | `Spec => []OwedStored` | and `Serial`, `~TornFlags` |
| `JournalImplemented` | `Spec => JournalRefined` | and `Serial` |

The argument. `OwedStored` alone is not inductive: a callback writes the flag it
*read*, so what matters is that the read is still true. `IInv` is `TypeOK`,
`LookupsCurrent` and `OwedKept`, which is `OwedStored` unless `TornFlags`. `LookupsCurrent` says that what a lookup has read is
still in the column, and that an item has at most one lookup: the second half makes
the first inductive, since the only steps that change a row are those of a caller
that may touch the item (it has no lookup then) and the callback of the lookup at the
head (no other lookup is for its item). `LookupsUndisturbed`, `OthersLookedUp` and
`TailCurrent` are these facts as lemmas. With `IInv`, each callback's new flag is a
function of the *current* flag, and `JournalStep` maps every action to one of the
journal's, or to a stutter. `Serial` is necessary: `MCOfflineStorageRace.cfg` shows what happens
without it; so is `~TornFlags` for `OwedStored`: `MCOfflineStorageTorn.cfg`.

`AlarmServiceProofs`, for every set of items, every choice of lengths, alarm offsets and snooze
durations and every interval (from `AlarmConstants` alone, which bounds how long before an item an
alarm may be, and not how long after):

| Theorem | Says |
| --- | --- |
| `ServiceTypeCorrect` | `Spec => []TypeOK` |
| `BellsStayCurrent` | `Spec => []BellsCurrent` |
| `AlarmsStayCovered` | `Spec => []AlarmCovered` |

The argument. `AInv` is `TypeOK`, `BellsCurrent`, `AlarmCovered` and `Timely`. A timer that
fires shows an alarm, and the window may only show what was not answered since: so a timer
must be later than the last answer, and for that no answer may lie in the future
(`Timely`). For the cover, every step either sets an item's bell anew (`BellSet`: a timer,
the window, or an alarm beyond the range whose item is not over before it, either: that is where
`AlarmCovered` needs that the alarm is not later than the item, see `WithinReached`), or posts a
search. A search around the current time reaches all recent items but those that start more than a
month ahead, whose alarms are beyond the interval because leads are shorter than the
difference (`FarAway`); this needs that the searched range ends at most an interval from now
(`Timely`). The periodic search starts exactly where the last range ended, so what was
beyond the range is either found by it or beyond the new range, too (`UpdateStep`).
The prover needs no bound on snoozes here, and indeed a snoozed alarm is *not* covered:
counterexample 7 of section 7; nor is one after its item: counterexample 20.

`CopyServiceProofs`, for every set of requests and every plan that is `Ordinary`, whatever
fails, is refused, returns in silence or is requested by listeners, at any depth of nesting:

| Theorem | Says |
| --- | --- |
| `CopyServiceTyped` | `Ordinary => (Spec => []TypeOK)` |
| `CopyNotAnsweredEarly` | `Ordinary => (Spec => []NotAnsweredEarly)` |
| `OneAtATime` | `Ordinary => (Spec => OneCopyPerTarget)` |
| `CopyNobodyWaits` | `Ordinary /\ NoneRefused => (Spec => []NobodyWaits)` |

The argument. A completion names a source and a destination, not a request, so what must
be invariant is that there is no doubt which request it means. `IInv` is the conjunction
of `Types`; `QueueOnce` (a request is in the queue exactly while its listener waits);
`Started` (a request that was made has its one source before it or has started it);
`CopiesQueued` (a folder copies for a started request of the queue); `InOrder` (of the
requests for one destination one is started only when those ahead of it are); and
`Notified`: every notification on the stack of calls, not only the innermost, is about a
request that was started and that no folder copies for. The last one takes the nesting into
account, since a listener called from one notification can push others on top. With
`Ordinary` the first match of `FindRequest` is the only one, so that `NotifyCompletion` clears
what has ended or, when a nested call has cleared it already, nothing.
`IInv` was checked with TLC, as an invariant of a run like `copy_service`, before it was proved.

`NobodyWaits` is about states in which no call is left, and the calls that are left are what
must be counted: `Enough` says that no more folders are waited for (requests at the front for
a folder that is free) than there are calls on the stack that will still look for a request to
start (`Wakers`: a `DoNextCopy`, or a notification that comes to one). `Settled` is about the
notifications: each reaches the request it is about, so that its end does call `DoNextCopy`.
Each of these steps serves one folder and spends one call; the end of a copy frees one folder
and brings one notification. A copy that returns in silence spends its call, too, but its folder
is waited for no more: the request blocks it for ever. A refused folder spends the call without a look at the others,
which is why `NoneRefused` is needed (section 7). `NInv` was checked with TLC
before the proof.

`CachedCalendarProofs`, for every finite set of items and any number of contents, waiting
callers, batches and playbacks; the first two with every disturbance - edits during a sync,
answers out of order, failures at any point, crashes:

| Theorem | Says |
| --- | --- |
| `CacheTypeCorrect` | `CacheSpec => [](TypeOK /\ CacheTypeOK)` |
| `OneSyncAtATime` | `CacheSpec => []OneSync` |
| `ItemsCounted` | `"deletes" \notin Disturbances => (CacheSpec => []ItemCount)` |
| `OfflineChangesHeld` | `Gentle => (CacheSpec => []UnsentHeld)` |
| `AcknowledgedIsCurrent` | `InOrder => (CacheSpec => AcksCurrent)` |

The argument. `CacheInv` is the types; `LoopsRefill` (refill loops exist only while the
provider's getItems is awaited, so the end of one never completes a sync that is over);
`OneOnItsWay`, which is `OneSync` with its "at most one" said by elements; and `Counted`: no
playback waits for fewer answers than it has operations outstanding, nor for more unless a
deletion may fail. The second half of `Counted` is what the code breaks when it does not count
the failed deletion; the first is what every `itemCount--` relies on and holds in spite of it, so
`OneSync` does not depend on it. That `itemCount` is the number of operations submitted is
`SubmittedTyped`, from a bijection between the items found and the calls (`AsManyAsItems`).
The cache's callbacks keep the storage's types by `OfflineStorageProofs`' own step lemma, which
is the composition at work: the facade's other writes go through the same two lemmas
(`RowStored`, `RequestStored`).

`Gentle` is `Disturbances \subseteq {"deletes"}` and `InOrder` is
`Disturbances \cap {"edits", "reorder"} = {}`. Neither can be weaker: with any other
disturbance alone TLC finds `UnsentHeld` violated, and with "edits" or "reorder" alone
`AcksCurrent`.

For `UnsentHeld` it must be known at every stage where the change is (`Held`): in the row, with
the flag it will be played back by; in the collected copy from the wipe (`HeldInRefill`) to the
item's turn in the merge (`HeldForMerge`); or in a lookup whose callback will leave such a row
(`LookupsFit`). Before the wipe the collected copy is the row itself for the kinds that have been
`Gathered`, so that the wipe loses nothing; during the refill a row is absent or what was
fetched, and an item that is not fetched is not on the server, which is why a created or revived
item can be played back. `CallsFit` says that an operation of a playback is what the row's flag
stands for, so that its success may clear the flag, and `InTurn` that the user's operations, the
sync, the lookups and the playbacks take turns, which is what `Gentle` buys. `HeldInv` was checked
with TLC (the 242,360 states of `cached_calm`), too. What a merge or a playback meets and that still has
a lookup has no flag yet (`Apart`), so a playback that overtakes the merge before it leaves the
change where it is.

`AcksCurrent` needs less of the order and nothing of the failures. Its invariant is `GivenInv`: the
content that a playback has given to the provider, the content of the dirty row and the one that a
sync has collected are one (`OneContent`), although after a failure a playback that nobody
waits for overlaps with a sync, and with the playback after it. The merge keeps that up since it
writes the collected content, and it writes it over a row that is clean (`RefillClean`); nothing
else gives a row that is dirty another content than the user, who is alone (`UserAlone`,
`ModifyAlone`). `GivenInv` was checked with TLC, too (804,429 states: one item, three contents, two
playbacks, everything that `InOrder` admits).

`ICSCalendarProofs`, for every set of items, any number of requests and waiting actions, both
kinds of files, whatever downloads and uploads do:

| Theorem | Says |
| --- | --- |
| `CalendarTyped` | `Orderly => (Spec => []TypeOK)` |
| `LockAlwaysHeld` | `Orderly => (Spec => []LockHeld)` |
| `SuccessAlwaysWritten` | `Orderly => (Spec => []SuccessWritten)` |
| `OthersAlwaysKept` | `Tagged => (Spec => OthersKept)` |
| `CalendarInSync` | `Tagged => (Spec => []InSync)` |

`Orderly` leaves out what ends the turn of the queue by an exception: deletions of items that
may be gone ("hasty"), a backup file that cannot be made ("disk"), an answer to PROPFIND that is
not XML ("nodav"); section 7 shows what each does. `Tagged` admits other clients while a tag is
known, and failing uploads.

The argument. `LockHeld` needs to know that the queue is only processed unlocked and that what
is to be written is known to the turn alone (`Turned`). `unlock` answers every change in
`pending`, so `SuccessWritten` needs that the accepted ones are on their way at every stage:
in the memory calendar before the upload is made, in the upload, in the file (`Reached`), and
that none is pending while a file is loaded (`PendingHeld`), since a load ends in the same
`unlock`. `DeletesLast` is what `Orderly` buys: a deletion that waits finds its item.
For `OthersKept` the invariant is `TagTrue`: a known tag is never newer than the file's; when it
is the file's own, the memory calendar was made from that file, or the file is being parsed; and
when none is known, the file is still to be read for the first time or is the one that the
memory calendar was made from. `ReplacesOwn` is the consequence the theorem uses. For `InSync`
two facts are added (`MInv`). `Served`: nothing is in the queue of an idle calendar, so whoever
was promised a refresh gets it. `Mirrored`: when the known tag is the file's, memory and file
agree, unless the calendar is writing, a load is on its way, or the difference is about to be
`Corrected`: a forced refresh is in the queue, has the turn or is under way. The last case is what
a failed upload leaves: the memory calendar holds changes that are in no file, and the refresh of
`forceRefresh` takes them out again. `IInv`, `KInv` and `MInv` were checked with TLC (`MInv` on
the 1,068,536 states of `ics`) before they were proved.

`CalDavCalendarProofs`, for every finite set of items and any refreshes, both kinds of servers,
any size of batches:

| Theorem | Says |
| --- | --- |
| `DavTyped` | `Spec => []TypeOK`, and with it that no multiget asks for nothing |
| `RowsStayTagged` | `"slow" \notin Disturbances => (Spec => []RowsTagged)` |
| `ChangesSeen` | `"slow" \notin Disturbances => (Spec => SeenBefore)` |
| `TokenTrusted` | `Prompt => (Spec => []TokenStands)` |

`DavTyped` has no condition at all. `Prompt` is `Disturbances \subseteq {"cut", "foreign"}`: none of
"lost", "keep", "skipped", "crossing" and "slow", each of which alone breaks `TokenStands` (sections 5
and 7). So the theorem is about failures that the calendar notices: error statuses of any
request but the last batch, refused reports, and items of a multistatus with an error status of their own.
It says nothing of a server whose multistatus is cut off in its body or holds data that cannot be
parsed. `TokenStands` itself leaves out overlapping refreshes.

The argument. `TypeOK` is inductive with the addition that a batch waits for its timer only when there
is something left to fetch (`ChainsTyped`). For `SeenBefore` the invariant is `Matched`. A PUT
replaces what its If-Match header names, and that is taken from `mItemInfoCache` when the cache
has told the item's flag; so it must be what the row held when the user changed it. Rows have
meta data and the etag they came with (`RowsTagged`, and `row[i] # 0 => known[i]`), and while the
flag is asked for the row stays what it was: answers of the server wait (`AnswerSteps`), and the
pauses of other chains store nothing (`PauseSteps`). The one write of the cache that
comes later, the facade's own after a modification (`late`), stores what the etag already says
(`LateStep`). An item that is deleted keeps its etag in one case (`etagsHandler`), which is why
`RowsTagged` is about rows and not about etags.

For `TokenStands` the stored token is not enough: while a refresh fetches batch after batch, the
token that it earns must come to stand for all items, though others change them, the user's
requests are read back and rows are deleted in between. `Synced` says how (`SInv` is `KInv` with it).
Of every chain that fetches, `Earned`: the token stands for the items that are neither asked for
nor still to be fetched. Of every answer under way, `Answered`: it tells what the server had at its
stamp (`Fresh`), a report leaves out only what has not changed since its token, and it is no older
than the stored token or any that is being earned. The last needs the wire to be in order
(`InOrder`, kept by `Pushed` and `Popped`): whatever an answer writes into the cache then is, for
every token, what the server still has or what the token does not stand for (`RowsFollow`).
A failed batch gives up the token with the chain unless it was the last one, and one that succeeds is about
all the items asked for (`AboutMulti`, "lost" and "skipped");
a deletion's row goes only when the server has none (the last conjunct of `Answered`, and "keep"
in `Fits`); and `Differing` may trust the index because, with webdav-sync, a known item's etag is
its row's (`IndexTrue`), which etags without a row (`etagsHandler`) would break. One lemma,
`GoesInSync`, has the step of a chain; `HandledInSync` and `PauseInSync` are its two uses. `Synced`
was checked with TLC, too: 907,117 states with the bounds of `caldav`, webdav-sync and what `Prompt`
admits.

`CalTransactionProofs`, for every set of items and calendars of both kinds, and any number of
transactions:

| Theorem | Says | Needs |
| --- | --- | --- |
| `TransactionsTyped` | `Spec => []TypeOK` | `TransactionConstants` |
| `MovesKeepItems` | `Spec => MoveKeepsItem` | and a user who waits |
| `UndoRestores` | `Spec => []Restored` | and a user who waits |
| `TransactionsCurrent` | `Spec => []NothingStale` | and a user who waits |

A user who waits is `"impatient" \notin Disturbances`: the next transaction, undo or redo comes
after the answers of the last. Calendars may refuse anything at any time; what `Restored` and
`NothingStale` themselves say is about states in which none has (`~refused`).

The argument. For a move it is enough to know what is asked at one time (`OneThing`): the
deletion of the old item is asked when the addition of the new one has succeeded, so the item is
in one of the two calendars throughout. For undo, a transaction remembers items with their
generations, and must remember what the transactions above it on the stack leave behind. `Line`
says so: the two stacks are one line of transactions with the present, `now`, between them; of
each item the last transaction on the undo stack leads to what is there now, each of the others
to what the next one found (`Linked`), and the redo stack is the same with the ends
exchanged. `Before` and `After` of a transaction never change, although its `mItem` does: a
calendar counts the generation up when it stores the item, and `onOperationComplete` puts the
stored item into the transaction; `Settled` says whether that has happened. Undo and redo move one
transaction across `now` (`PushLinked` and its inverse). `SInv` is that
there is such a line and that the calendars hold it (`Quiet`), or that one transaction is between its
two ends and how far it has come (`Busy`). `NothingStale` follows: what the transaction
remembers is what the calendar holds, so both kinds of calendars accept it (`CurrentAccepted`).
`SInv` was checked with TLC with three transactions on one item and four on two before it was
proved.

`AutoSyncProofs`, for any folders on any servers, any finite sets of messages of any sizes, any
ranks and group sizes:

| Theorem | Says | Needs |
| --- | --- | --- |
| `AutoSyncTyped` | `Spec => []TypeOK` | `AutoSyncConstants` |
| `AutoSyncWaitedFor` | `Spec => []WaitedFor` | `AutoSyncConstants` |
| `AutoSyncOneDownload` | `Spec => []OneDownload` | and `Undisturbed` |
| `AutoSyncOneFolderPerServer` | `Spec => []OneFolderPerServer` | and `Undisturbed` |

The first two hold whatever happens beside auto-sync's own work. `Undisturbed` admits new headers
while no url of the folder runs, failing urls, folders that do not open and a reading user, in a
program that stays online. Offline, a semaphore is kept (counterexample 21); each of the other
disturbances breaks `OneFolderPerServer` (TLC finds the
counterexample for each alone), "overlap" and "discovery" break `OneDownload`, too (section 7).

The argument. What the helpers do to a record of the state is stated in lemmas from the bottom
up: sorting and picking from a queue keep each message once (`AscendingMembers`,
`OnlyMembers`), a group begins and ends at places of the queue (`GroupLengthDoes`, `TakeDoes`), a
download begins once, if at all, and online one that does not begin leaves the semaphore as
it was (`DownloadDoes`, `Still`). `Passes` sums up every way to go from
one folder to those behind it: on each server at most one download begins, and it begins for
a folder of the queue that held no semaphore. `Settles` sums up the end of a download.
`WInv` is `TypeOK`, said of the record, with `Waits`: a folder in the state "download in
progress" has a group under way. It is inductive by itself, since the state and the group
are set and reset together, except by `OnFolderHasPendingMsgs`, which only resets the state.
`CInv` adds that the program is online and `Orderly`: a folder is in that state exactly while it holds its semaphore, it is in
the priority queue then, a folder in that queue is downloading or ready, and siblings do
not hold their semaphores both; `OneUrl` and `Asked`: one STATUS or update is under way for
all folders, while `mUpdateState` says so, and the folder of a STATUS still says "status issued".
The last is what lets `OnStopRunningUrl` tell a STATUS from a download by the state of the
folder. `CInv` was checked with TLC before it was proved.

Model-checked only: all liveness properties (`RefreshCompletes`, `Reconciled`, `AlarmShown`,
`QueueDrains`, `UpdateEnds`, both `Answered`, `SyncAnswered`), since the prover does not handle
fairness.

## 7. Findings

Disagreements between the code and what the repository says of it, met while
modelling. The first is a run; `PROJECT.json` quotes the lines.

1. `transactions_move`, `ItemKept`: taking back a move deletes the item from the new
   calendar without waiting for the old one to accept it, and when that one refuses the
   item is in neither. The counterexample may also show the second way: the user
   undoes before the last answer of the move itself.

Counterexamples kept beside the runs, with a configuration each; `tlc -config X.cfg M`
reproduces them:

2. `MCICSCalendarInvalid.cfg`, `InvalidKept`: a download that is not a calendar, such as the page of
   a server in trouble, leaves an empty calendar that is *not* read only, against the comment at
   `calICSCalendar.js:287-289`; the next change replaces the whole file. With a server's page the
   upload carries no tag, so that the server does not refuse it either.
3. `MCOfflineStorageRace.cfg`, `NoResurrection`: `calIChangeLog.idl:92-94` calls the storage
   calendar synchronous, "All modifying commands return after the modification has been
   performed", but `modifyItem` (502) writes in a later turn; a deletion in between is undone.
4. `MCCachedCalendarDeletes.cfg`, `RefreshCompletes`: `deleteListener` counts only successes
   (`calCachedCalendar.js:616-621`, "TODO do something on error"). One failed deletion in a
   playback, and no refresh of the calendar ever completes again.
5. `MCCachedCalendarBatches.cfg`, `RefreshCompletes`: an answer in two pieces, which
   `calICalendar.idl:470-471` allows, can make the sync forget the provider's
   `onOperationComplete` (`calCachedCalendar.js:363`), saved at 375-376 to "finish processing later".
6. `MCCachedCalendarCreated.cfg`, `CreatedNotOnServer`: after a failed `getItems` (431) a
   playback overlaps with the next sync, and an item the server has is adopted as a new
   one, against "Created items are not present on the server" (385).
7. `MCAlarmSnooze.cfg`, `SnoozeRings`: `calIAlarmService.idl:107-108` promises that a snoozed
   alarm "will instead fire at now + duration"; snoozed past the current search interval,
   with an item that has started, it is not looked for again (`calAlarmService.js:421`).
8. `MCAutoSyncStatus.cfg`, `UpdateEnds`: the end of a STATUS is taken for the end of a download
   when a discovery has started one meanwhile. `mUpdateState` stays "initiated" and no
   folder is updated automatically until the program restarts. The timer's period is
   400 ms and a discovery takes several of them, so a slow STATUS is all it needs.
9. `MCCopyServiceCross.cfg`, `OneCopyPerTarget`: a request with messages of two folders has its second
   copy started into a folder that is busy with the first, which is thereby forgotten, against
   the assertion "already copying a msg into this folder" (`nsLocalMailFolder.cpp:1341`). Its
   completion is not recognised either, and the destination's queue is blocked (`Answered`).
10. `MCICSCalendarHasty.cfg`, `SuccessWritten`: the user deletes an item a second time while the
   first deletion waits. `deleteItem` of the memory calendar throws (it reads a property of
   `undefined`), and the exception leaves `processQueue` inside the try block of `onAfterPut` (994),
   which takes it for a missing ETag; the answer to PROPFIND then unlocks the calendar a second
   time, and what another change is still waiting to have written is reported as written.
   When the turn began elsewhere, what had been performed in it is never answered.
11. `MCICSCalendarNodav.cfg`, `Answered`: `safeNewXML` (1019) is outside the try block. A server that
   sends no ETags and answers PROPFIND with something other than XML leaves the calendar locked.
12. `MCICSCalendarFailed.cfg`, `FailedNotWritten`: after a failed upload the forced refresh goes to
   the end of the queue (461). A change that waits is performed first and written together with
   the one whose listener has just been told of an error ("signal error to all modifying
   operations", 460).

13. `MCCalDavCalendarSkipped.cfg` with "lost" for "skipped", `TokenStands`: the last batch of a sync fails as a whole.
   `onStopRequest` (`calDavRequestHandlers.js:781-790`) stores the new token all the same, against
   the parameter's comment at 665, "new Sync token to set if operation successful". The items
   of the batch are never listed again.
14. `MCCalDavCalendarCtag.cfg`, `CtagStands`: no failure at all. The check of the server stores the
   ctag (`calDavCalendar.js:1636-1643`) before anything is fetched, and takes an equal one for a
   finished refresh; a program that is stopped between the two shows an empty calendar until
   something changes on the server. `safeRefresh` (1400) stores it early, too.
15. `MCCalDavCalendarKeep.cfg`, `TokenStands`: the user deletes an item that has changed on the server,
   and decides to keep it when asked (493). It is read back with the listener of the deletion,
   whose success makes the facade delete it from the cache.
16. `MCCalDavCalendarSlow.cfg`, `RowsTagged`: a refresh stores a newer content while the facade's
   `modifyItem` waits for the cache to tell a flag, and is then overwritten with the older one; the
   newer etag stays. The next change of the user replaces what he has not seen, If-Match or not.
17. `MCCalDavCalendarForeign.cfg` with "cut" for "foreign", `SyncAnswered`: the connection is lost when the capabilities are asked
   for. `request.responseStatus` (1737) throws outside of any try block, nobody calls the listener, and
   `mSyncQueue` is never emptied: no refresh until the program restarts.

18. `MCOfflineStorageTorn.cfg`, `OwedStored`: a row with a flag is rewritten by `flushItem`, which
   commits it without the flag, and `setOfflineJournalFlag` puts the flag back in a statement of its own
   (`calStorageCalendar.js:578-579`). A crash in between, and an offline change whose caller was told
   of its success long before is in no journal and is wiped with the next sync. `adoptOfflineItem` of
   an id that has a flag already can lose it in the same way.
19. `MCCachedCalendarOvertaken.cfg`, `ReconciledAnyway`: the merge marks what it writes with
   `modifyOfflineItem` and `deleteOfflineItem`, whose lookups are done in later turns (398), and the
   playback that follows asks for the marked items without waiting for them. It may find none, against
   the comment at 448 ("start replaying changes to the remote calendar"); the change stays in the
   journal for the next refresh, where the same can happen again.
20. `MCAlarmLate.cfg`, `LateCovered`: an alarm after the end of its item (an absolute one, or
   with a positive offset). When it is added, or found by a search, it lies beyond `mRangeEnd` and gets
   no timer (`calAlarmService.js:421`); the next search begins at `mRangeEnd`, where the item is over,
   although "we got all the past alarms before" (295). Only a reload, an edit or the next start
   finds it.
21. `MCAutoSyncOffline.cfg`, `OneDownload`: the folder's semaphore is taken (`nsAutoSyncState.cpp:674`,
   "acquire semaphore for offline store. If it fails, we won't download for this folder"), then
   the download url is refused (682), as `nsImapService.cpp:2233-2242` does whenever the program
   is offline, and nobody gives the semaphore back. A download that is under way when the program
   goes offline ends with an error, and its end tries the next folder without a look at `mPaused`
   (`nsAutoSyncManager.cpp:1279-1284`). That folder downloads nothing more until the program
   restarts.
22. `MCCopyServiceEmpty.cfg`, `Answered`: a folder without messages is copied from another server.
   `CopyFolderAcrossServer` calls `OnCopyCompleted` itself, "since there are no messages"
   (`nsLocalMailFolder.cpp:1700-1705`), but with the new folder as the source, and `FindRequest`
   (`nsMsgCopyService.cpp:421`) finds no request for it. The listener is never called, and since the
   request counts as processed its destination stays among the active ones (340): nothing
   is copied into it any more.

23. `MCCalDavCalendarSkipped.cfg`, `TokenStands`: a multistatus is cut off in its body, or the data of
   one of its items cannot be parsed. `onStopRequest` ignores its status and `fatalError` only warns
   (`calDavRequestHandlers.js:772-836`); `addTargetCalendarItem` warns and returns ("Warn and
   continue", `calDavCalendar.js:1008-1017`, 1031-1033). Neither counts in `unhandledErrors`, so in any
   batch the token is stored in the end (782-783), and the items are never listed again.
24. `MCCalDavCalendarForeign.cfg`, `SyncAnswered`: a calendar is disabled, and what the server has at
   its uri is no calendar. That is an error only when it is not disabled (`calDavCalendar.js:1685-1697`);
   otherwise the chain goes on to `getUpdatedItems`, which asks for the resource type again (1467). The
   requests follow each other without end, the listener is never called and `mSyncQueue` never emptied.

Circumstances in which properties of passing runs do not hold, found by adding the
disturbance to the configuration:

* `AutoSync`: headers that arrive while auto-sync's own urls run ("overlap") let two folders
  of a server download at once (`OneFolderPerServer`): an update's headers set a
  downloading folder back to "ready" (1227), so it no longer counts as downloading.
  A message known to wait ("pending") sets a folder to "update needed" whatever it does
  (1426), with the same effect. A discovery ("discovery") starts downloads while STATUS urls run
  (counterexample 8), whose ends release semaphores of groups under way (`OneDownload`). A sent message goes before the head of `mUpdateQ` (1423), and the
  end of the update under way pops it instead. An update that finds no bodies leaves its folder in "update
  issued" until the next header arrives.
* `CopyService`: two requests with the same source and destination ("twins",
  `MCPlanTwins`): a failure of the first answers both (`NotAnsweredEarly`). A folder that is
  refused (`MCPlanRefused`): `DoNextCopy` clears its request and starts nothing else, so a
  request behind it waits until another copy ends (`NobodyWaits`). `CopyMessages` that returns an
  error before `InitCopyState` ("silence": `nsLocalMailFolder.cpp:1545`, 1548 with the
  errors of the Maildir store, 1576), or `CopyFolderAcrossServer`, which ignores that error (1692):
  `DoNextCopy` clears folder requests only (369), so the request is never answered
  and blocks its destination (`Answered`); the other properties hold.
* `ICSCalendar`: a backup file that cannot be made ("disk") makes `writeICS` throw out of a turn
  after `unlock` has processed the rest of the queue, and what throws inside `onAfterPut` is
  handled as in counterexample 10 (`LockHeld`, `InSync`). `OthersKept` does not hold for what
  others write before the first download ("early"), nor between an upload and the answer with
  its tag ("window"; the comment at 996-999 concedes it: "Race conditions can happen"), nor
  when a forced download fails after a failed upload ("noload" with "failures").
* `CalDavCalendar`: answers that overtake each other ("crossing") let the older answer
  of a multiget be stored after that of a newer report (`TokenStands`). Two refreshes at once, which a change on a calendar that
  has been disabled meanwhile can start beside the facade's own, share one token: the report of
  one is read with the token that the other has stored since (`endDocument`, 504), and what was
  deleted on the server stays in the cache. `TokenStands` leaves these behaviours out (`overlapped`).

## 8. What is not modelled

* In the modelled parts: `CachedCalendar`'s change-log branch (307-327) and disabled
  branch (276), exceptions thrown inside listeners (`cal.forEach` then stops without
  `completed()`; the `catch` branches of the playbacks name an undefined variable),
  `getProperty` and `setProperty` forwarding. `AlarmService`: several calendars, several
  alarms or occurrences of an item, completed tasks and cancelled events, the preference
  that hides missed alarms, and timers that `addTimer` overwrites without cancelling them.
  The storage calendar's item caches and its schema upgrades.
  `CalTransaction`: batches, read-only calendars (`checkWritable`), iTIP messages and
  sequence numbers, occurrences of recurring items, calls that throw instead of answering,
  edits that bypass the manager, cached calendars (which are relaxed, and check less).
  `AutoSync`: the parallel model, excluded and trash folders, messages of size zero, calls
  that fail after the state has been set (`UpdateStatus`, `UpdateFolderWithListener`), failures of
  the download url (`nsAutoSyncState.cpp:682`) other than offline, the startup
  flag, the notifications to `nsIAutoSyncMgrListener`s. `CopyService`: undo batches,
  `OnStartCopy` (called once per source), IMAP and news folders as destinations, a request all of
  whose sources lie in the destination (it is neither started nor cleared), the
  shutdown that clears all requests, and what a failed copy reports: a local folder
  calls `OnCopyCompleted` with success after a copy that failed half way
  (`nsLocalMailFolder.cpp:2229-2247`); subfolders, copied with calls of their own that match no
  request (1711-1731); the Maildir store, which calls the listener itself as well
  (`nsMsgMaildirStore.cpp:1017`); running out of memory.
  `ICSCalendar`: 401 and 403, which disable the calendar; redirects; transports without hooks
  (`dummyHooks`, which compare nothing); components and properties that are not items; what
  the backup copies hold and when they are purged; batches; observers that call back from
  within a notification; the listeners' arguments.
  `CalDavCalendar`: the fallback to the offline journal when a server answers a change with an error
  of its own (5xx), and items that have a flag in the journal when they are changed; the queries
  for principals, access control lists and the inbox; scheduling; authentication that is renewed,
  401 and 403; calendars without a cache; items whose uid or path changes; reports with an
  error after some of their deletions have been performed. Listeners of the user's operations
  that are never called (a deletion somebody else has performed, 954-956) leave nothing behind
  in the model, where nothing else waits for a change.
* Planned: what is open in section 2.
* Left out: item data, recurrence and time zones (pure functions on large data, better
  served by tests), the Google and WCAP clients, the user interface, the rest of the mail
  side, and the other programs of the source tree (the platform under `mozilla/`, NSS, SQLite
  and the like are most of its lines).
