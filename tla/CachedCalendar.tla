--------------------------- MODULE CachedCalendar ---------------------------
(***************************************************************************)
(* calendar/base/src/calCachedCalendar.js: the facade that puts a cache    *)
(* database in front of a remote ("uncached") calendar, for the providers  *)
(* that know no change log.                                                *)
(*                                                                         *)
(* Online, operations go to the provider and its answer is written to the  *)
(* cache; offline they go to the cache and its journal.  A sync collects   *)
(* the journal, asks the provider for everything, wipes and refills the    *)
(* cache, merges the collected changes back and plays them back to the     *)
(* provider: created items, then modified ones, then deleted ones.  Each   *)
(* arrow between two of these is an asynchronous callback, and the user,   *)
(* the network and other clients of the server act in between.             *)
(*                                                                         *)
(* The cache is OfflineStorage, action by action; the provider and its     *)
(* server are external: calls that are answered later, in any order.       *)
(***************************************************************************)
EXTENDS OfflineStorage, FiniteSets, SequencesExt

CONSTANTS
    MaxQueue,     \* bound: synchronize() callers waiting at once
    MaxBatches,   \* onGetResult calls one getItems makes ("zero or more")
    MaxPlaybacks, \* bound: playbacks that exist at once
    Disturbances  \* what may go wrong, see below

\* "edits": the user edits while a sync or a playback is on its way;
\* "reorder": the provider may answer a getItems before the operations it was
\* given earlier, and an answer may overtake the lookups in the cache;
\* "deletes": a deletion that is played back may fail;
\* "faults": so may getItems, at any point, and the other playback calls;
\* "sameid": an id comes back after its deletion or from another client;
\* "crash": the process dies in the middle of something.
ASSUME CacheConstants ==
    /\ IsFiniteSet(Items)
    /\ MaxQueue \in Nat \ {0}
    /\ MaxBatches \in Nat \ {0}
    /\ MaxPlaybacks \in Nat \ {0}
    /\ Disturbances \subseteq {"edits", "reorder", "deletes", "faults", "sameid", "crash"}

VARIABLES
    offline,    \* the IO service's offline state
    loading,    \* the provider was told to refresh and has not called onLoad
    queue,      \* length of mSyncQueue
    sync,       \* where the running synchronize() is
    collected,  \* offlineCachedItems and offlineCachedItemFlags
    fetched,    \* completeListener.modifiedTimes
    tasks,      \* the playbacks: playbackAddedItems and what it leads to
    calls,      \* operations submitted to the provider and not answered
    server,     \* content per item on the server, 0 when it is not there
    unsent      \* history: the user's last offline change the server has not seen

storageVars == <<rows, lookups, owed>>
syncVars == <<queue, sync, collected, fetched>>
cacheVars == <<offline, loading, syncVars, tasks, calls, server, unsent>>
allVars == <<vars, cacheVars>>

Slots == 1 .. MaxPlaybacks

User == 0    \* the caller of an operation that no playback submitted

Kinds == {"created", "modified", "deleted"}

\* phase: collecting the items of one flag, waiting for the provider's getItems
\* ("asked"), waiting for the refill after it has completed ("answered"), merging.
\* rest: fetched items no onGetResult has delivered; loops: the refill loops that
\* have not completed; op: the saved arguments of onOperationComplete.
Sync == [phase : {"idle", "asked", "answered", "merge"} \cup Kinds, renewed : BOOLEAN,
         batches : 0 .. MaxBatches, rest : SUBSET Items,
         loops : Seq(SUBSET Items), op : {"none", "ok", "failed"}]
Idle == [phase |-> "idle", renewed |-> FALSE, batches |-> 0, rest |-> {},
         loops |-> <<>>, op |-> "none"]

Task == [kind : Kinds \cup {"none"}, wait : BOOLEAN,
         left : 0 .. Cardinality(Items), then : {"drain", "load"}]
NoTask == [kind |-> "none", wait |-> FALSE, left |-> 0, then |-> "load"]

\* ver: the content given to the server, 0 for a deletion.
ProviderCall ==
    {c \in [op : {"add", "modify", "delete"}, item : Items,
            ver : 0 .. MaxVersion, by : 0 .. MaxPlaybacks] : c.op = "delete" <=> c.ver = 0}

Nothing == [kind |-> "none", ver |-> 0]

CacheTypeOK ==
    /\ offline \in BOOLEAN /\ loading \in BOOLEAN
    /\ queue \in 0 .. MaxQueue
    /\ sync \in Sync
    /\ collected \in [Items -> Row]
    /\ fetched \in [Items -> 0 .. MaxVersion]
    /\ tasks \in [Slots -> Task]
    /\ calls \subseteq ProviderCall
    /\ server \in [Items -> 0 .. MaxVersion]
    /\ unsent \in [Items -> [kind : {"none", "put", "delete"}, ver : 0 .. MaxVersion]]

\* A start of the program with a cache that an earlier run left in step.
CacheInit ==
    /\ server \in [Items -> {0, 1}]
    /\ rows = [i \in Items |-> Flushed(server[i])]
    /\ lookups = <<>>
    /\ clock = 1
    /\ owed = [i \in Items |-> "none"]
    /\ offline \in BOOLEAN
    /\ loading = FALSE
    /\ queue = 0
    /\ sync = Idle
    /\ collected = [i \in Items |-> NoRow]
    /\ fetched = [i \in Items |-> 0]
    /\ tasks = [s \in Slots |-> NoTask]
    /\ calls = {}
    /\ unsent = [i \in Items |-> Nothing]

-----------------------------------------------------------------------------
(* Assumptions on the environment *)

Calm ==
    /\ queue = 0 /\ sync = Idle
    /\ calls = {} /\ lookups = <<>>
    /\ \A s \in Slots : tasks[s] = NoTask

MayEdit == "edits" \in Disturbances \/ Calm

\* The provider answers over the network, the cache from the local disk; and the
\* ICS provider's queue answers a getItems after the operations before it.
MayAnswer == "reorder" \in Disturbances \/ lookups = <<>>
MayAnswerGet == MayAnswer /\ ("reorder" \in Disturbances \/ \A c \in calls : c.by # User)

-----------------------------------------------------------------------------
(* mSyncQueue *)

\* Variant: only the first waiting caller is answered.
AnswerFirst == queue' = queue - 1

\* emptyQueue: every waiting caller gets its answer (an onLoad).
EmptyQueue == queue' = 0

\* A playback whose getItems for one kind of changes is posted.
Posted(kind, then) == [kind |-> kind, wait |-> FALSE, left |-> 0, then |-> then]

\* playbackAddedItems: a getItems for the created items is posted.
StartPlayback(then) ==
    \E s \in Slots :
        /\ tasks[s] = NoTask
        /\ \A t \in Slots : tasks[t] = NoTask => s <= t
        /\ tasks' = [tasks EXCEPT ![s] = Posted("created", then)]

\* Variant: a caller that comes while the last sync is being played back does
\* not wait for its end.
SynchronizeEagerly ==
    /\ queue < MaxQueue
    /\ IF queue > 0 /\ sync.phase # "idle"
       THEN queue' = queue + 1 /\ UNCHANGED <<sync, collected, fetched>>
       ELSE IF offline THEN EmptyQueue /\ UNCHANGED <<sync, collected, fetched>>
       ELSE /\ queue' = queue + 1
            /\ sync' = [Idle EXCEPT !.phase = "created"]
            /\ collected' = [i \in Items |-> NoRow]
            /\ fetched' = [i \in Items |-> 0]

\* synchronize(): the first caller starts the sync, the others wait for it.
\* Offline, the queue is emptied at once.
Synchronize ==
    /\ queue < MaxQueue
    /\ IF queue > 0 THEN queue' = queue + 1 /\ UNCHANGED <<sync, collected, fetched>>
       ELSE IF offline THEN EmptyQueue /\ UNCHANGED <<sync, collected, fetched>>
       ELSE /\ queue' = 1
            /\ sync' = [Idle EXCEPT !.phase = "created"]
            /\ collected' = [i \in Items |-> NoRow]
            /\ fetched' = [i \in Items |-> 0]

\* refresh(), by the user, by the timer of the calendar manager or on going
\* online.  Online the provider loads first.
RefreshOnline == loading' = TRUE /\ UNCHANGED syncVars

Refresh ==
    /\ IF offline THEN Synchronize /\ UNCHANGED loading ELSE ~loading /\ RefreshOnline
    /\ UNCHANGED <<vars, offline, tasks, calls, server, unsent>>

\* The provider's onLoad.
UncachedLoaded ==
    /\ loading /\ MayAnswerGet
    /\ loading' = FALSE
    /\ Synchronize
    /\ UNCHANGED <<vars, offline, tasks, calls, server, unsent>>

GoOffline ==
    /\ ~offline /\ offline' = TRUE
    /\ UNCHANGED <<vars, loading, syncVars, tasks, calls, server, unsent>>

\* onOfflineStatusChanged(false) refreshes.
GoOnline ==
    /\ offline /\ offline' = FALSE
    /\ RefreshOnline
    /\ UNCHANGED <<vars, tasks, calls, server, unsent>>

-----------------------------------------------------------------------------
(* The full sync *)

\* Variant: the deleted items are not collected.
AfterCollectingTwo == [created |-> "modified", modified |-> "asked", deleted |-> "asked"]

AfterCollecting == [created |-> "modified", modified |-> "deleted", deleted |-> "asked"]

\* getOfflineAddedItems, getOfflineModifiedItems, getOfflineDeletedItems; the
\* last one's callback asks the provider for everything.
CollectOffline ==
    /\ sync.phase \in Kinds
    /\ collected' = [i \in Items |-> IF i \in Selected(sync.phase) THEN rows[i] ELSE collected[i]]
    /\ sync' = [sync EXCEPT !.phase = AfterCollecting[sync.phase]]
    /\ UNCHANGED <<vars, offline, loading, queue, fetched, tasks, calls, server, unsent>>

\* onGetResult: the first one wipes the cache; each starts a loop that adds the
\* batch to it.  The provider answers with what the server has at the first.
GetResult(batch) ==
    LET snapshot == IF sync.renewed THEN fetched ELSE server
        rest == IF sync.renewed THEN sync.rest ELSE {i \in Items : server[i] # 0} IN
    /\ sync.phase = "asked" /\ MayAnswerGet
    /\ sync.batches < MaxBatches
    /\ batch \subseteq rest
    /\ sync.batches + 1 = MaxBatches => batch = rest
    /\ IF sync.renewed THEN UNCHANGED <<rows, owed>> ELSE Wipe
    /\ fetched' = snapshot
    /\ sync' = [sync EXCEPT !.renewed = TRUE, !.batches = @ + 1, !.rest = rest \ batch,
                            !.loops = Append(@, batch)]
    /\ UNCHANGED <<lookups, clock, offline, loading, queue, collected, tasks, calls, server, unsent>>

\* Variants: when the provider's getItems failed, nobody is called back; or the
\* playback after it counts as the end of the sync, too.
OperationForgets(status) ==
    IF status = "ok"
    THEN /\ sync' = [Idle EXCEPT !.phase = "merge"]
         /\ UNCHANGED <<queue, collected, fetched, tasks>>
    ELSE /\ StartPlayback("load")
         /\ sync' = Idle
         /\ UNCHANGED <<queue, collected, fetched>>

OperationAnswersTwice(status) ==
    IF status = "ok"
    THEN /\ sync' = [Idle EXCEPT !.phase = "merge"]
         /\ UNCHANGED <<queue, collected, fetched, tasks>>
    ELSE /\ StartPlayback("drain")
         /\ EmptyQueue
         /\ sync' = Idle
         /\ UNCHANGED <<collected, fetched>>

\* onOperationComplete once every loop has completed: merge what was collected,
\* or give up and play back what is there.
OperationComplete(status) ==
    IF status = "ok"
    THEN /\ sync' = [Idle EXCEPT !.phase = "merge"]
         /\ UNCHANGED <<queue, collected, fetched, tasks>>
    ELSE /\ StartPlayback("load")
         /\ EmptyQueue
         /\ sync' = Idle
         /\ UNCHANGED <<collected, fetched>>

\* The provider's onOperationComplete; it is saved for later while loops run.  A
\* provider that has nothing may come here without any onGetResult, and then the
\* cache is not wiped.
GetCompleted(status) ==
    /\ sync.phase = "asked" /\ MayAnswerGet
    /\ status = "ok" => IF sync.renewed THEN sync.rest = {} ELSE \A i \in Items : server[i] = 0
    /\ status = "failed" => "faults" \in Disturbances
    /\ IF sync.loops = <<>> THEN OperationComplete(status)
       ELSE /\ sync' = [sync EXCEPT !.phase = "answered", !.op = status]
            /\ UNCHANGED <<queue, collected, fetched, tasks>>
    /\ UNCHANGED <<vars, offline, loading, calls, server, unsent>>

\* One turn of a refill loop: addItem of one fetched item.
AddFetched ==
    \E k \in DOMAIN sync.loops : \E i \in sync.loops[k] :
        /\ Store(i, Flushed(fetched[i]), "none")
        /\ sync' = [sync EXCEPT !.loops[k] = @ \ {i}]
        /\ UNCHANGED <<lookups, clock, offline, loading, queue, collected, fetched, tasks,
                       calls, server, unsent>>

\* The loop's completed(): replays a saved onOperationComplete and forgets it.
LoopCompleted ==
    \E k \in DOMAIN sync.loops :
        LET left == RemoveAt(sync.loops, k) IN
        /\ sync.loops[k] = {}
        /\ IF sync.op # "none" /\ left = <<>> THEN OperationComplete(sync.op)
           ELSE /\ sync' = [sync EXCEPT !.loops = left, !.op = "none"]
                /\ UNCHANGED <<queue, collected, fetched, tasks>>
        /\ UNCHANGED <<vars, offline, loading, calls, server, unsent>>

-----------------------------------------------------------------------------
(* Merging what was collected into the refilled cache *)

\* The item's turn is over.
Merged(i) ==
    /\ sync.phase = "merge" /\ collected[i] # NoRow
    /\ collected' = [collected EXCEPT ![i] = NoRow]
    /\ UNCHANGED <<clock, offline, loading, queue, sync, fetched, tasks, calls, server>>

Mine(i) == collected[i]
Older(i) == Mine(i).ver < fetched[i]

MergeCreated(i) ==
    /\ Merged(i) /\ Mine(i).flag = "created"
    /\ Store(i, WithFlag(Flushed(Mine(i).ver), "created"), "created")
    /\ UNCHANGED <<lookups, unsent>>

\* modifyOfflineItem(item, null): the row is overwritten at once, marking it
\* takes a lookup.  Asked first when the server's item is the newer one.
MergeModified(i) ==
    /\ Merged(i) /\ Mine(i).flag = "modified" /\ fetched[i] # 0
    /\ Store(i, Flushed(Mine(i).ver), "none")
    /\ PostLookup("mark", i, Mine(i).ver, TRUE)
    /\ UNCHANGED unsent

\* Modified here, deleted on the server, and the user wants it back.
MergeRevived(i) ==
    /\ Merged(i) /\ Mine(i).flag = "modified" /\ fetched[i] = 0
    /\ Store(i, WithFlag(Flushed(Mine(i).ver), "created"), "created")
    /\ UNCHANGED <<lookups, unsent>>

MergeDeleted(i) ==
    /\ Merged(i) /\ Mine(i).flag = "deleted" /\ fetched[i] # 0
    /\ PostLookup("remove", i, 0, FALSE)
    /\ UNCHANGED <<rows, owed, unsent>>

\* The user answers the prompt of a conflict with no, or there is nothing left
\* to delete: what the server has stays.
MergeDropped(i) ==
    /\ Merged(i)
    /\ \/ Mine(i).flag = "modified" /\ (Older(i) \/ fetched[i] = 0)
       \/ Mine(i).flag = "deleted" /\ (Older(i) \/ fetched[i] = 0)
    /\ unsent' = [unsent EXCEPT ![i] = Nothing]
    /\ UNCHANGED storageVars

\* The merge loop's completed(): playback, which empties the queue at its end.
MergeCompleted ==
    /\ sync.phase = "merge"
    /\ \A i \in Items : collected[i] = NoRow
    /\ sync' = Idle
    /\ fetched' = [i \in Items |-> 0]
    /\ StartPlayback("drain")
    /\ UNCHANGED <<vars, offline, loading, queue, collected, calls, server, unsent>>

-----------------------------------------------------------------------------
(* Playback *)

\* Variant: playbackAddedItems goes straight on to playbackDeletedItems.
AfterKindSkipping == [created |-> "deleted", modified |-> "deleted"]

OpFor == [created |-> "add", modified |-> "modify", deleted |-> "delete"]
AfterKind == [created |-> "modified", modified |-> "deleted"]

\* callbackFunc.
Finish(s) ==
    /\ tasks' = [tasks EXCEPT ![s] = NoTask]
    /\ IF tasks[s].then = "drain" THEN EmptyQueue ELSE UNCHANGED queue

\* playbackAddedItems leads to playbackModifiedItems and that to
\* playbackDeletedItems, which calls back.
Advance(s) ==
    IF tasks[s].kind = "deleted" THEN Finish(s)
    ELSE /\ tasks' = [tasks EXCEPT ![s] = Posted(AfterKind[@.kind], @.then)]
         /\ UNCHANGED queue

\* The posted getItems runs: abort when offline, go on when there is nothing to
\* do, else submit every item found.  Nothing makes it wait for the lookups that
\* the merge has posted: what they will mark is then found by the next sync.
PlaybackGet(s) ==
    LET found == Selected(tasks[s].kind) IN
    /\ tasks[s] # NoTask /\ ~tasks[s].wait
    /\ \/ /\ offline
          /\ Finish(s)
          /\ UNCHANGED calls
       \/ /\ ~offline /\ found = {}
          /\ Advance(s)
          /\ UNCHANGED calls
       \/ /\ ~offline /\ found # {}
          /\ tasks' = [tasks EXCEPT ![s] = [kind |-> @.kind, wait |-> TRUE,
                                            left |-> Cardinality(found), then |-> @.then]]
          /\ calls' = calls \cup {[op |-> OpFor[tasks[s].kind], item |-> i, by |-> s,
                                   ver |-> IF tasks[s].kind = "deleted" THEN 0 ELSE rows[i].ver] :
                                  i \in found}
          /\ UNCHANGED queue
    /\ UNCHANGED <<vars, offline, loading, sync, collected, fetched, server, unsent>>

\* Variant: the count is tested before it is decremented.
CountDownLate(s) ==
    IF tasks[s].left = 0 THEN Advance(s)
    ELSE tasks' = [tasks EXCEPT ![s].left = @ - 1] /\ UNCHANGED queue

\* itemCount--, and on to the next kind at zero.
CountDown(s) ==
    IF tasks[s].left = 1 THEN Advance(s)
    ELSE tasks' = [tasks EXCEPT ![s].left = @ - 1] /\ UNCHANGED queue

-----------------------------------------------------------------------------
(* The provider's answers (external), and what their listeners do *)

Performed(c) ==
    /\ c.op = "add" => server[c.item] = 0
    /\ c.op = "modify" => server[c.item] # 0
    /\ server' = [server EXCEPT ![c.item] = c.ver]
    /\ unsent' = [unsent EXCEPT ![c.item] =
                    IF c.by = User \/ @.ver <= c.ver \/ (@.kind = "delete" /\ c.op = "delete")
                    THEN Nothing ELSE @]

\* The opListeners of adoptItem, modifyItem and deleteItem write to the cache.
UserCallSucceeds(c) ==
    /\ c \in calls /\ c.by = User /\ MayAnswer
    /\ Performed(c)
    /\ calls' = calls \ {c}
    /\ \/ /\ c.op = "add"
          /\ Store(c.item, Flushed(c.ver), "none")
          /\ UNCHANGED lookups
       \/ /\ c.op = "modify"
          /\ PostLookup("modify", c.item, c.ver, FALSE)
          /\ UNCHANGED <<rows, owed>>
       \/ /\ c.op = "delete"
          /\ Store(c.item, NoRow, "none")
          /\ UNCHANGED lookups
    /\ UNCHANGED <<clock, offline, loading, syncVars, tasks>>

UserCallFails(c) ==
    /\ c \in calls /\ c.by = User /\ MayAnswer
    /\ calls' = calls \ {c}
    /\ UNCHANGED <<vars, offline, loading, syncVars, tasks, server, unsent>>

\* Success in playback: the flag is cleared, or the row deleted for good.
PlaybackSucceeds(c) ==
    /\ c \in calls /\ c.by \in Slots /\ MayAnswer
    /\ Performed(c)
    /\ calls' = calls \ {c}
    /\ Store(c.item, IF c.op = "delete" THEN NoRow ELSE WithFlag(rows[c.item], "none"), "none")
    /\ CountDown(c.by)
    /\ UNCHANGED <<lookups, clock, offline, loading, sync, collected, fetched>>

MayFail(c) ==
    \/ c.op = "add" /\ server[c.item] # 0
    \/ c.op = "modify" /\ server[c.item] = 0
    \/ c.op \in {"add", "modify"} /\ "faults" \in Disturbances
    \/ c.op = "delete" /\ "deletes" \in Disturbances

\* Variants: no failure is counted; the flag is cleared whatever the status.
PlaybackFailsUncounted(c) ==
    /\ c \in calls /\ c.by \in Slots /\ MayAnswer /\ MayFail(c)
    /\ calls' = calls \ {c}
    /\ UNCHANGED <<vars, offline, loading, syncVars, tasks, server, unsent>>

PlaybackIgnoresStatus(c) ==
    /\ c \in calls /\ c.by \in Slots /\ MayAnswer /\ MayFail(c)
    /\ calls' = calls \ {c}
    /\ Store(c.item, WithFlag(rows[c.item], "none"), "none")
    /\ IF c.op = "delete" THEN UNCHANGED <<tasks, queue>> ELSE CountDown(c.by)
    /\ UNCHANGED <<lookups, clock, offline, loading, sync, collected, fetched, server, unsent>>

\* Failure in playback: a created or modified item stays flagged and is counted
\* as done; for a deleted item the listener does nothing at all.
PlaybackFails(c) ==
    /\ c \in calls /\ c.by \in Slots /\ MayAnswer /\ MayFail(c)
    /\ calls' = calls \ {c}
    /\ IF c.op = "delete" THEN UNCHANGED <<tasks, queue>> ELSE CountDown(c.by)
    /\ UNCHANGED <<vars, offline, loading, sync, collected, fetched, server, unsent>>

-----------------------------------------------------------------------------
(* The user *)

Visible(i) == Present(i) /\ rows[i].flag # "deleted"

NewVersion == clock < MaxVersion /\ clock' = clock + 1

\* A new item, or - an undone deletion, an import - an id there was before.
Addable(i) ==
    /\ ~Visible(i)
    /\ "sameid" \in Disturbances \/ (~Present(i) /\ server[i] = 0)

AddOffline(i) ==
    /\ offline /\ MayEdit /\ Addable(i) /\ NewVersion
    /\ Store(i, WithFlag(Flushed(clock'), "created"), "created")
    /\ unsent' = [unsent EXCEPT ![i] = [kind |-> "put", ver |-> clock']]
    /\ UNCHANGED <<lookups, offline, loading, syncVars, tasks, calls, server>>

ModifyOffline(i) ==
    /\ offline /\ MayEdit /\ Visible(i) /\ NewVersion
    /\ PostLookup("modify", i, clock', TRUE)
    /\ unsent' = [unsent EXCEPT ![i] = [kind |-> "put", ver |-> clock']]
    /\ UNCHANGED <<rows, owed, offline, loading, syncVars, tasks, calls, server>>

DeleteOffline(i) ==
    /\ offline /\ MayEdit /\ Visible(i)
    /\ PostLookup("remove", i, 0, FALSE)
    /\ unsent' = [unsent EXCEPT ![i] = IF server[i] = 0 THEN Nothing
                                       ELSE [kind |-> "delete", ver |-> 0]]
    /\ UNCHANGED <<rows, owed, clock, offline, loading, syncVars, tasks, calls, server>>

\* adoptItem, modifyItem, deleteItem while online: one at a time for an item.
Submit(op, i, v) ==
    /\ ~offline /\ MayEdit
    /\ \A c \in calls : c.by = User => c.item # i
    /\ calls' = calls \cup {[op |-> op, item |-> i, ver |-> v, by |-> User]}
    /\ UNCHANGED <<storageVars, offline, loading, syncVars, tasks, server, unsent>>

AddOnline(i) == Addable(i) /\ NewVersion /\ Submit("add", i, clock')
ModifyOnline(i) == Visible(i) /\ NewVersion /\ Submit("modify", i, clock')
DeleteOnline(i) == Visible(i) /\ Submit("delete", i, 0) /\ UNCHANGED clock

-----------------------------------------------------------------------------
(* Other clients of the server (external), the cache's callbacks, the process *)

Unknown(i) == rows[i] = NoRow /\ collected[i] = NoRow /\ \A c \in calls : c.item # i

RemotePut(i) ==
    /\ server[i] # 0 \/ Unknown(i) \/ "sameid" \in Disturbances
    /\ NewVersion
    /\ server' = [server EXCEPT ![i] = clock']
    /\ UNCHANGED <<storageVars, offline, loading, syncVars, tasks, calls, unsent>>

RemoteDelete(i) ==
    /\ server[i] # 0
    /\ server' = [server EXCEPT ![i] = 0]
    /\ unsent' = [unsent EXCEPT ![i] = IF @.kind = "delete" THEN Nothing ELSE @]
    /\ UNCHANGED <<vars, offline, loading, syncVars, tasks, calls>>

StorageCallback ==
    /\ ReadFlag \/ DoModifyItem \/ FinishModifyOfflineItem \/ FinishDeleteOfflineItem
    /\ UNCHANGED cacheVars

\* Everything in memory is gone; the database and the server are not.
RestartCache ==
    /\ "crash" \in Disturbances \/ (Calm /\ ~loading)
    /\ lookups' = <<>> /\ calls' = {}
    /\ loading' = FALSE /\ queue' = 0 /\ sync' = Idle
    /\ collected' = [i \in Items |-> NoRow] /\ fetched' = [i \in Items |-> 0]
    /\ tasks' = [s \in Slots |-> NoTask]
    /\ offline' \in BOOLEAN
    /\ UNCHANGED <<rows, owed, clock, server, unsent>>

UserEdit ==
    \E i \in Items : \/ AddOffline(i) \/ ModifyOffline(i) \/ DeleteOffline(i)
                     \/ AddOnline(i) \/ ModifyOnline(i) \/ DeleteOnline(i)

MergeItem ==
    \E i \in Items : \/ MergeCreated(i) \/ MergeModified(i) \/ MergeRevived(i)
                     \/ MergeDeleted(i) \/ MergeDropped(i)

GetAnswer ==
    \/ \E batch \in SUBSET Items : GetResult(batch)
    \/ \E status \in {"ok", "failed"} : GetCompleted(status)

UserCallAnswer == \E c \in calls : UserCallSucceeds(c) \/ UserCallFails(c)
PlaybackAnswer == \E c \in calls : PlaybackSucceeds(c) \/ PlaybackFails(c)

CacheNext ==
    \/ Refresh \/ UncachedLoaded \/ GoOffline \/ GoOnline
    \/ CollectOffline \/ GetAnswer \/ AddFetched \/ LoopCompleted
    \/ MergeItem \/ MergeCompleted
    \/ \E s \in Slots : PlaybackGet(s)
    \/ UserCallAnswer \/ PlaybackAnswer
    \/ UserEdit
    \/ \E i \in Items : RemotePut(i) \/ RemoteDelete(i)
    \/ StorageCallback
    \/ RestartCache

\* Posted callbacks run and the provider answers: "zero or more onGetResult calls
\* followed by an onOperationComplete" (calICalendar.idl:470-471).
\* The calendar manager's timer refreshes again and again (calCalendarManager.js:262-270).
\* What the user's calls go before, a refresh or a getItems, is served in spite of
\* later calls (calICSCalendar.js:519-584, one queue): their fairness is strong.
CacheFairness ==
    /\ WF_allVars(Refresh)
    /\ SF_allVars(UncachedLoaded)
    /\ WF_allVars(CollectOffline)
    /\ SF_allVars(GetAnswer)
    /\ WF_allVars(AddFetched)
    /\ WF_allVars(LoopCompleted)
    /\ WF_allVars(MergeItem)
    /\ WF_allVars(MergeCompleted)
    /\ \A s \in Slots : WF_allVars(PlaybackGet(s))
    /\ WF_allVars(UserCallAnswer)
    /\ WF_allVars(PlaybackAnswer)
    /\ WF_allVars(StorageCallback)

CacheSpec == CacheInit /\ [][CacheNext]_allVars /\ CacheFairness

-----------------------------------------------------------------------------
(* Properties *)

Drains == {s \in Slots : tasks[s] # NoTask /\ tasks[s].then = "drain"}

\* There are callers in mSyncQueue exactly while one sync, or the one playback
\* that ends it, is on its way to emptyQueue: nobody waits for a sync that is not
\* there (calCachedCalendar.js:280-284), and no two syncs share
\* offlineCachedItems.
OneSync ==
    /\ queue # 0 <=> sync.phase # "idle" \/ Drains # {}
    /\ sync.phase # "idle" => Drains = {}
    /\ Cardinality(Drains) <= 1

\* A playback waits for as many answers as its itemCount says: it neither moves on
\* to the next kind early nor waits for an answer that never comes.
ItemCount ==
    \A s \in Slots :
        /\ tasks[s].left = Cardinality({c \in calls : c.by = s})
        /\ tasks[s].wait <=> tasks[s].left > 0

\* The offline change i's user made last and the server has not seen is somewhere
\* it will be played back from: in the cache with its flag, in offlineCachedItems
\* while a sync is between the wipe and the merge, or in a pending lookup.
UnsentHeld ==
    \A i \in Items :
        LET holds(row, flags) == row.flag \in flags /\ (row.flag = "deleted" \/ row.ver = unsent[i].ver)
            flags == IF unsent[i].kind = "put" THEN {"created", "modified"} ELSE {"deleted"}
        IN  unsent[i] # Nothing =>
                \/ holds(rows[i], flags)
                \/ holds(collected[i], flags) /\ sync.phase # "idle"
                \/ Busy(i)

\* calCachedCalendar.js:385 says "Created items are not present on the server, so
\* its safe to adopt them" of the items the merge finds marked as created.
CreatedNotOnServer ==
    \A i \in Items : sync.phase = "merge" /\ Mine(i).flag = "created" => fetched[i] = 0

\* A playback's acknowledgement clears the flag of what the server was given, not
\* of something newer.
AcksCurrent ==
    [][\A i \in Items :
         /\ rows[i].flag \in {"created", "modified"}
         /\ rows'[i] = WithFlag(rows[i], "none")
         => server'[i] = rows[i].ver]_allVars

\* Every caller waiting for a sync is called back, which is what completes a
\* refresh for the composite calendar and the views (calCachedCalendar.js:71-78).
RefreshCompletes == queue # 0 ~> queue = 0

\* A playback begins when the lookups that the merge before it has posted are done.
InTime == \E s \in Slots : tasks[s] = Posted("created", "drain") /\ lookups = <<>>

\* Once the program stays online, every offline change reaches the server, or the
\* user gives it up when asked about a conflict - provided that again and again the
\* cache has marked the merged changes when their playback asks for them.
Reconciled ==
    <>[]~offline /\ []<>InTime => \A i \in Items : []<>(unsent[i] = Nothing)

\* The same without the proviso, as a reader of calCachedCalendar.js:448 would expect
\* of going online: "start replaying changes to the remote calendar".
ReconciledAnyway ==
    <>[]~offline => \A i \in Items : []<>(unsent[i] = Nothing)

=============================================================================
