---------------------------- MODULE CalDavCalendar ----------------------------
(***************************************************************************)
(* calendar/providers/caldav: calDavCalendar.js and                        *)
(* calDavRequestHandlers.js, for a calendar that is cached.  The facade    *)
(* asks for the changes of the server (replayChangesOn); they are fetched  *)
(* in a chain of requests and stored in the cache.  A change of the user   *)
(* is a chain of its own: the item is written to the server and read back. *)
(*                                                                         *)
(* The server stamps the collection with every change.  A stamp is the     *)
(* etag of what the change wrote, the collection's ctag and its sync       *)
(* token.                                                                  *)
(***************************************************************************)
EXTENDS Naturals, FiniteSets, Sequences

CONSTANTS
    Items,         \* item ids, and the chains of the user's changes
    Refreshes,     \* chains of requests started by replayChangesOn
    Modes,         \* what servers support, "ctag" or "sync" (webdav-sync)
    BatchSize,     \* calendar.caldav.multigetBatchSize
    MaxStamp,      \* bound: changes of the collection
    MaxFailures,   \* bound: requests that fail
    MaxWriting,    \* bound: the user's changes under way
    Disturbances   \* what may happen, see below

\* "lost": the last answer that a sync token waits for is an error; "cut": the server is
\* gone when its capabilities are asked for; "crossing": answers overtake each other;
\* "slow": an answer of the server may overtake the cache's answer to a query for a flag;
\* "keep": the user keeps an item that he has deleted here and others have changed;
\* "skipped": items of an answer are skipped and nobody counts them; "foreign": what the
\* server has at the calendar's uri is no calendar any more.
ASSUME CalDavConstants ==
    /\ Items \cap Refreshes = {} /\ IsFiniteSet(Items)
    /\ Modes \subseteq {"ctag", "sync"}
    /\ BatchSize \in Nat \ {0}
    /\ MaxStamp \in Nat \ {0} /\ MaxFailures \in Nat /\ MaxWriting \in Nat
    /\ Disturbances \subseteq {"lost", "cut", "crossing", "slow", "keep", "skipped", "foreign"}

VARIABLES
    mode,       \* what the server supports
    server,     \* the items on the server, by their etags; 0: there is none
    changed,    \* the stamp of the last change of each item, a deletion too
    stamp,      \* the last stamp
    tag,        \* mCtag or mWebdavSyncToken, which are saved as soon as they are set; 0: null
    saved,      \* the calendar's properties have been saved
    etag,       \* mItemInfoCache: the etags; 0: no entry
    known,      \* mHrefIndex, which agrees with the item's meta data in the cache
    row,        \* the cache: the etag that the content of the row came with; 0: no row
    checked,    \* mCheckedServerInfo
    refreshed,  \* mFirstRefreshDone
    disabled,   \* mDisabled, and with it mReadOnly
    waiting,    \* the facade: mSyncQueue is not empty
    chain,      \* what each chain waits for
    answer,     \* what the server has answered
    wire,       \* the chains whose answers are under way
    late,       \* modifications of the cache that wait for a flag
    failures,   \* failures so far
    overlapped  \* history: two refreshes have been under way at the same time

serverVars == <<mode, server, changed, stamp, failures>>
cacheVars == <<etag, known, row, late>>
flagVars == <<checked, refreshed, disabled>>
vars == <<serverVars, cacheVars, flagVars, tag, saved, waiting, chain, answer, wire, overlapped>>

Chains == Items \cup Refreshes
Stamps == 0 .. MaxStamp

\* The requests of a refresh, and those of a change of an item.
Queries == {"type", "caps", "ctag", "etags", "report", "multi"}
Writes == {"add", "modify", "overwrite", "delete", "erase"}
\* What a chain waits for that is not the server: the cache, a timer, onStopRequest,
\* the user.
Pauses == {"flag", "batch", "stop", "prompt"}

\* op: the user's operation; about: the items asked for; need: itemsNeedFetching;
\* token: the sync token that is sent or will be stored; base: the content the user
\* has changed; match: the If-Match header.
Request == [kind : {"none", "head"} \cup Queries \cup Writes \cup Pauses,
            op : {"none", "add", "modify", "delete"}, about : SUBSET Items,
            need : SUBSET Items, token : Stamps, base : Stamps, match : Stamps]
Answer == [status : {"ok", "partial", "conflict", "gone", "failed", "cut", "other"}, about : SUBSET Items,
           seen : [Items -> Stamps], stamp : Stamps]

\* Types.  No multiget is sent that asks for nothing.
TypeOK ==
    /\ mode \in {"ctag", "sync"}
    /\ server \in [Items -> Stamps] /\ changed \in [Items -> Stamps]
    /\ stamp \in Stamps /\ tag \in Stamps
    /\ etag \in [Items -> Stamps] /\ row \in [Items -> Stamps]
    /\ known \in [Items -> BOOLEAN] /\ late \in [Items -> Stamps]
    /\ saved \in BOOLEAN /\ checked \in BOOLEAN
    /\ refreshed \in BOOLEAN /\ disabled \in BOOLEAN /\ overlapped \in BOOLEAN
    /\ waiting \in BOOLEAN /\ failures \in 0 .. MaxFailures
    /\ chain \in [Chains -> Request]
    /\ answer \in [Chains -> Answer]
    /\ wire \in Seq(Chains)
    /\ \A c \in Chains : chain[c].kind = "multi" => chain[c].about # {}

Nothing == [i \in Items |-> 0]
Ask(kind) == [kind |-> kind, op |-> "none", about |-> {}, need |-> {}, token |-> 0,
              base |-> 0, match |-> 0]
Idle == Ask("none")
NoAnswer == [status |-> "ok", about |-> {}, seen |-> Nothing, stamp |-> 0]

\* A calendar that has just been set up, with or without items on the server.
Init ==
    /\ mode \in Modes
    /\ server \in {[i \in Items |-> n] : n \in {0, 1}} /\ changed = [i \in Items |-> 1] /\ stamp = 1
    /\ tag = 0 /\ saved = FALSE
    /\ etag = Nothing /\ row = Nothing /\ late = Nothing
    /\ known = [i \in Items |-> FALSE]
    /\ checked = FALSE /\ refreshed = FALSE /\ disabled = FALSE
    /\ waiting = FALSE /\ failures = 0 /\ overlapped = FALSE
    /\ chain = [c \in Chains |-> Idle]
    /\ answer = [c \in Chains |-> NoAnswer]
    /\ wire = <<>>

OnWire(c) == \E k \in DOMAIN wire : wire[k] = c

\* The items that the user is changing
Writing == {i \in Items : chain[i].op # "none"}
\* Bound: stamps are kept for them.
RoomToWrite == stamp + Cardinality(Writing) < MaxStamp

-----------------------------------------------------------------------------
(* The requests that follow one another *)

\* getUpdatedItems, with the tag, mFirstRefreshDone and mDisabled of that moment.
GetUpdatedItems(t, off) ==
    CASE off -> Ask("type")
      [] ~off /\ mode = "sync" -> [Ask("report") EXCEPT !.token = t]
      [] ~off /\ mode = "ctag" -> Ask("etags")

\* safeRefresh
SafeRefresh(t, done, off) ==
    IF t = 0 \/ ~done \/ mode = "sync" THEN GetUpdatedItems(t, off) ELSE Ask("ctag")

\* Variant: a batch ends one item too early.
BatchesShort(need) == {b \in SUBSET need : Cardinality(b) = BatchSize - 1}

\* The next batch of what needs fetching
Batches(need) ==
    IF Cardinality(need) <= BatchSize THEN {need}
    ELSE {b \in SUBSET need : Cardinality(b) = BatchSize}

\* Variant: the batches that are left are forgotten.
DoMultiGetOnce(q, need, off) ==
    IF off THEN {Ask("type")}
    ELSE {[q EXCEPT !.kind = "multi", !.about = b, !.need = {}] : b \in Batches(need)}

\* doMultiGet: the next batch, or the check of the server if the calendar is disabled.
DoMultiGet(q, need, off) ==
    IF off THEN {Ask("type")}
    ELSE {[q EXCEPT !.kind = "multi", !.about = b, !.need = need \ b] : b \in Batches(need)}

\* Variant: nobody is told before the server has been checked.
NotifyChecked(c) == waiting' = (waiting /\ (c \notin Refreshes \/ ~checked))

\* onResult of the listener of synchronize: everyone in mSyncQueue is answered.
Notify(c) == waiting' = (waiting /\ c \notin Refreshes)

-----------------------------------------------------------------------------
(* The user, the facade and the others *)

\* synchronize: the first one calls replayChangesOn, the others wait for its end with it.
Synchronize ==
    /\ ~waiting /\ waiting' = TRUE
    /\ \E c \in Refreshes :
          /\ chain[c] = Idle
          /\ chain' = [chain EXCEPT ![c] = IF checked THEN SafeRefresh(tag, refreshed, disabled)
                                          ELSE Ask("type")]
    /\ UNCHANGED <<serverVars, cacheVars, flagVars, tag, saved, answer, wire>>

\* A change starts on what the views show, unless the calendar has become read-only.
\* The user waits for his changes of an item.
Change(i, kind) ==
    /\ ~disabled /\ RoomToWrite /\ Cardinality(Writing) < MaxWriting /\ chain[i] = Idle /\ late[i] = 0
    /\ chain' = [chain EXCEPT ![i] =
          [Ask(IF kind = "add" THEN kind ELSE "flag")
             EXCEPT !.op = kind, !.about = {i}, !.base = row[i]]]
    /\ UNCHANGED <<serverVars, cacheVars, flagVars, tag, saved, waiting, answer, wire>>

AddItem(i) == row[i] = 0 /\ Change(i, "add")
ModifyItem(i) == row[i] # 0 /\ Change(i, "modify")
DeleteItem(i) == row[i] # 0 /\ Change(i, "delete")

\* The cache has told modifyItemOrUseCache or deleteItemOrUseCache that the item has no
\* flag.  Without an entry in mItemInfoCache there is an exception.
OnFlag(i) ==
    /\ chain[i].kind = "flag"
    /\ chain' = [chain EXCEPT ![i] =
          IF etag[i] = 0 THEN Idle ELSE [@ EXCEPT !.kind = chain[i].op, !.match = etag[i]]]
    /\ UNCHANGED <<serverVars, cacheVars, flagVars, tag, saved, waiting, answer, wire>>

\* Another client makes, changes or deletes an item.
Others(i) ==
    /\ RoomToWrite /\ stamp' = stamp + 1
    /\ \/ server' = [server EXCEPT ![i] = stamp']
       \/ server[i] # 0 /\ server' = [server EXCEPT ![i] = 0]
    /\ changed' = [changed EXCEPT ![i] = stamp']
    /\ UNCHANGED <<mode, failures, cacheVars, flagVars, tag, saved, waiting, chain, answer, wire>>

\* The program is started again: what is in the cache is still there, with the etags
\* of the items that have meta data.
Restart ==
    /\ etag' = [i \in Items |-> IF known[i] THEN etag[i] ELSE 0]
    /\ late' = Nothing
    /\ checked' = saved /\ refreshed' = FALSE /\ disabled' = FALSE
    /\ waiting' = FALSE
    /\ chain' = [c \in Chains |-> Idle] /\ answer' = [c \in Chains |-> NoAnswer] /\ wire' = <<>>
    /\ UNCHANGED <<serverVars, known, row, tag, saved>>

-----------------------------------------------------------------------------
(* The server *)

Reply(c, status, about) ==
    /\ ~OnWire(c) /\ wire' = Append(wire, c)
    /\ answer' = [answer EXCEPT ![c] = [status |-> status, about |-> about,
                                        seen |-> server', stamp |-> stamp']]
    /\ UNCHANGED <<mode, cacheVars, flagVars, tag, saved, waiting, chain>>

\* A report lists what has changed since its token, with no token all there is.
Reported(q) ==
    CASE q.kind = "report" -> {i \in Items : IF q.token = 0 THEN server[i] # 0 ELSE changed[i] > q.token}
      [] q.kind = "etags" -> {i \in Items : server[i] # 0}
      [] OTHER -> q.about

\* A resource that is no calendar stays one: it is no failure that passes.
AnswerQuery(c) ==
    /\ chain[c].kind \in Queries
    /\ UNCHANGED <<server, changed, stamp, failures>>
    /\ \/ Reply(c, "ok", Reported(chain[c]))
       \/ "foreign" \in Disturbances /\ chain[c].kind = "type" /\ Reply(c, "other", {})

Accepted(q, i) ==
    CASE q.kind = "add" -> server[i] = 0
      [] q.kind \in {"modify", "delete"} -> server[i] = q.match
      [] q.kind = "overwrite" -> TRUE
      [] q.kind = "erase" -> server[i] # 0

\* A PUT of a new item that the server has, and a DELETE of one it has not, are failures.
AnswerWrite(i) ==
    LET q == chain[i]
        removes == q.kind \in {"delete", "erase"}
    IN
    /\ q.kind \in Writes
    /\ \/ /\ Accepted(q, i) /\ stamp < MaxStamp /\ failures' = failures
          /\ stamp' = stamp + 1
          /\ server' = [server EXCEPT ![i] = IF removes THEN 0 ELSE stamp']
          /\ changed' = [changed EXCEPT ![i] = stamp']
          /\ Reply(i, "ok", {i})
       \/ /\ ~Accepted(q, i) /\ UNCHANGED <<server, changed, stamp>>
          /\ failures' = IF q.kind \in {"add", "erase"} THEN failures + 1 ELSE failures
          /\ failures' <= MaxFailures
          /\ Reply(i, IF q.kind = "erase" THEN "failed" ELSE "conflict", {i})

AnswerHead(i) ==
    /\ chain[i].kind = "head"
    /\ UNCHANGED <<server, changed, stamp, failures>>
    /\ Reply(i, IF server[i] = 0 THEN "gone" ELSE "ok", {i})

\* A sync token waits for no more than this answer.
LastOfSync(q) == q.kind = "multi" /\ q.need = {} /\ q.token # 0

\* A status that is not expected, a multistatus with errors in it for some items, a
\* token that is not valid any more, no answer at all, or a multistatus some of whose
\* items are skipped without an error: those after the point where its body is cut off,
\* whose status onStopRequest does not look at, and those whose data addTargetCalendarItem
\* cannot parse or finds no item in.
AnswerFailure(c) ==
    LET q == chain[c] IN
    /\ failures < MaxFailures /\ failures' = failures + 1
    /\ UNCHANGED <<server, changed, stamp>>
    /\ \/ /\ q.kind \in Queries \cup Writes \cup {"head"}
          /\ LastOfSync(q) => "lost" \in Disturbances
          /\ Reply(c, "failed", {})
       \/ /\ q.kind = "multi"
          /\ \E handled \in SUBSET q.about \ {q.about} : Reply(c, "partial", handled)
       \/ /\ "skipped" \in Disturbances /\ q.kind = "multi"
          /\ \E handled \in SUBSET q.about \ {q.about} : Reply(c, "ok", handled)
       \/ q.kind = "report" /\ q.token # 0 /\ Reply(c, "gone", {})
       \/ "cut" \in Disturbances /\ q.kind \in {"caps", "head"} /\ Reply(c, "cut", {})

-----------------------------------------------------------------------------
(* What the calendar does with the answers *)

\* The cache is asked for a flag.
FlagPending(i) == chain[i].kind = "flag" \/ late[i] # 0

\* Answers arrive in the order they were given, unless they overtake each other, and
\* when the cache has answered.
Arrives(c) ==
    /\ "slow" \in Disturbances \/ \A i \in Items : ~FlagPending(i)
    /\ \E k \in DOMAIN wire :
        /\ wire[k] = c
        /\ k = 1 \/ "crossing" \in Disturbances
        /\ wire' = [j \in 1 .. Len(wire) - 1 |-> IF j < k THEN wire[j] ELSE wire[j + 1]]

Handles(c, kinds) ==
    /\ chain[c].kind \in kinds /\ Arrives(c)
    /\ answer' = [answer EXCEPT ![c] = NoAnswer]
    /\ UNCHANGED serverVars

Become(c, q) == chain' = [chain EXCEPT ![c] = q]

\* checkDavResourceType.  In ctag mode a ctag that has not changed counts as a refresh;
\* what is no calendar may have one or not.  That it is no calendar is an error only as
\* long as the calendar is not disabled: then the chain goes on, and it stays disabled.
OnType(c) ==
    LET a == answer[c]
        goesOn == a.status = "ok" \/ (a.status = "other" /\ disabled)
    IN
    /\ Handles(c, {"type"})
    /\ \/ /\ mode = "ctag" /\ a.status \in {"ok", "other"}
          /\ tag' = a.stamp /\ saved' = TRUE /\ refreshed' = (refreshed \/ a.stamp = tag)
       \/ (mode = "ctag" => a.status # "ok") /\ UNCHANGED <<tag, saved, refreshed>>
    /\ IF goesOn THEN Become(c, Ask("caps")) /\ waiting' = waiting
                 ELSE Become(c, Idle) /\ Notify(c)
    /\ disabled' = (a.status # "ok")
    /\ UNCHANGED <<cacheVars, checked>>

\* checkServerCaps to completeCheckServerInfo; without any status, an exception.
OnCaps(c) ==
    /\ Handles(c, {"caps"})
    /\ IF answer[c].status = "ok"
       THEN /\ saved' = TRUE /\ checked' = TRUE
            /\ Become(c, SafeRefresh(tag, refreshed, disabled)) /\ waiting' = waiting
       ELSE /\ Become(c, Idle) /\ UNCHANGED <<saved, checked>>
            /\ IF answer[c].status = "cut" THEN waiting' = waiting ELSE Notify(c)
    /\ UNCHANGED <<cacheVars, refreshed, disabled, tag>>

\* safeRefresh, with the collection's ctag
OnCtag(c) ==
    LET a == answer[c] IN
    /\ Handles(c, {"ctag"})
    /\ IF a.status = "ok" /\ (disabled \/ a.stamp # tag)
       THEN /\ Become(c, IF disabled THEN Ask("type") ELSE GetUpdatedItems(a.stamp, disabled))
            /\ tag' = IF disabled THEN tag ELSE a.stamp
            /\ waiting' = waiting
       ELSE Notify(c) /\ Become(c, Idle) /\ tag' = tag
    /\ UNCHANGED <<cacheVars, flagVars, saved>>

\* Of what the server says there is: what is unknown here, or known with another etag.
Differing(a) == {i \in a.about : a.seen[i] # 0 /\ (~known[i] \/ etag[i] # a.seen[i])}

\* etagsHandler.  mItemInfoCache keeps the entry of an item that is deleted.
OnEtags(c) ==
    LET a == answer[c]
        gone == {i \in Items \ a.about : known[i] /\ row[i] # 0}
    IN
    /\ Handles(c, {"etags"})
    /\ IF a.status = "ok"
       THEN /\ known' = [i \in Items |-> known[i] /\ i \notin gone]
            /\ row' = [i \in Items |-> IF i \in gone THEN 0 ELSE row[i]]
            /\ disabled' = disabled
            /\ IF Differing(a) = {} THEN Notify(c) /\ Become(c, Idle)
               ELSE waiting' = waiting /\ \E q \in DoMultiGet(Idle, Differing(a), disabled) : Become(c, q)
       ELSE disabled' = TRUE /\ Notify(c) /\ Become(c, Idle) /\ UNCHANGED <<known, row>>
    /\ UNCHANGED <<etag, late, checked, refreshed, tag, saved>>

\* deleteTargetCalendarItem, for those of the items that are known and in the cache
Deletable(s) == {i \in s : known[i] /\ row[i] # 0}

\* Variant: an item that is in the cache already is not written again.
UpdateNew(fresh, gone, etags, rows) ==
    /\ known' = [i \in Items |-> i \in fresh \/ (known[i] /\ i \notin gone)]
    /\ etag' = [i \in Items |-> IF i \in fresh THEN etags[i] ELSE IF i \in gone THEN 0 ELSE etag[i]]
    /\ row' = [i \in Items |-> IF i \in fresh /\ row[i] = 0 THEN rows[i]
                               ELSE IF i \in gone THEN 0 ELSE row[i]]

\* addTargetCalendarItem for the items that differ, as far as it does not skip them, and
\* deleteTargetCalendarItem for others.
Update(fresh, gone, etags, rows) ==
    /\ known' = [i \in Items |-> i \in fresh \/ (known[i] /\ i \notin gone)]
    /\ etag' = [i \in Items |-> IF i \in fresh THEN etags[i] ELSE IF i \in gone THEN 0 ELSE etag[i]]
    /\ row' = [i \in Items |-> IF i \in fresh THEN rows[i] ELSE IF i \in gone THEN 0 ELSE row[i]]

\* The end of a refresh: the new token, and finalizeUpdatedItems
Finalize(c, token) ==
    /\ IF token # 0 THEN tag' = token /\ saved' = TRUE ELSE UNCHANGED <<tag, saved>>
    /\ refreshed' = TRUE /\ Notify(c) /\ Become(c, Idle)

\* webDavSyncHandler.  A report that was asked for without a token lists all there is.
ReportRead(c) ==
    LET a == answer[c]
        listed == {i \in a.about : a.seen[i] # 0}
        gone == (a.about \ listed) \cup (IF tag = 0 THEN Items \ listed ELSE {})
    IN
    /\ Update({}, Deletable(gone), etag, row)
    /\ IF Differing(a) = {} THEN Finalize(c, a.stamp)
       ELSE /\ \E q \in DoMultiGet([Idle EXCEPT !.token = a.stamp], Differing(a), disabled) : Become(c, q)
            /\ UNCHANGED <<waiting, tag, saved, refreshed>>
    /\ disabled' = disabled

OnReport(c) ==
    /\ Handles(c, {"report"})
    /\ CASE answer[c].status = "ok" -> ReportRead(c)
         [] answer[c].status = "gone" /\ tag # 0 ->
              /\ tag' = 0 /\ saved' = TRUE
              /\ Become(c, SafeRefresh(0, refreshed, disabled))
              /\ UNCHANGED <<known, etag, row, waiting, refreshed, disabled>>
         [] OTHER ->
              /\ disabled' = TRUE /\ Notify(c) /\ Become(c, Idle)
              /\ UNCHANGED <<known, etag, row, tag, saved, refreshed>>
    /\ UNCHANGED <<late, checked>>

\* multigetSyncHandler, for the items of the answer that are not skipped.  The listener of a user's operation hears of the item it gets:
\* that of a modification stores it once more, as soon as the cache has told its flag,
\* and that of a deletion deletes it from the cache.
MultiRead(c) ==
    LET a == answer[c]
        op == chain[c].op
        fresh == Differing(a)
    IN
    /\ Update(fresh, Deletable({i \in a.about : a.seen[i] = 0}), a.seen,
              IF op = "delete" THEN Nothing ELSE a.seen)
    /\ late' = [i \in Items |-> IF i \in fresh /\ op = "modify" THEN a.seen[i] ELSE late[i]]

\* The batch that was the last is finalized even if it is an error, of which the
\* listener has been told before.  An answer that has been cut off is not.
OnMulti(c) ==
    LET q == chain[c] IN
    /\ Handles(c, {"multi"})
    /\ CASE answer[c].status = "ok" ->
              /\ MultiRead(c)
              /\ IF q.need = {} THEN Finalize(c, q.token)
                 ELSE /\ Become(c, [q EXCEPT !.kind = "batch", !.about = {}])
                      /\ UNCHANGED <<waiting, tag, saved, refreshed>>
         [] answer[c].status = "partial" ->
              MultiRead(c) /\ Notify(c) /\ Become(c, Idle) /\ UNCHANGED <<tag, saved, refreshed>>
         [] OTHER ->
              /\ Notify(c)
              /\ Become(c, IF q.need = {} THEN [q EXCEPT !.kind = "stop"] ELSE Idle)
              /\ UNCHANGED <<cacheVars, tag, saved, refreshed>>
    /\ UNCHANGED <<checked, disabled>>

\* onStopRequest after onStartRequest has seen the error
OnStop(c) ==
    /\ chain[c].kind = "stop" /\ Finalize(c, chain[c].token)
    /\ UNCHANGED <<serverVars, cacheVars, checked, disabled, answer, wire>>

\* The timer for the next batch
OnBatch(c) ==
    /\ chain[c].kind = "batch"
    /\ \E q \in DoMultiGet(chain[c], chain[c].need, disabled) : Become(c, q)
    /\ UNCHANGED <<serverVars, cacheVars, flagVars, tag, saved, waiting, answer, wire>>

\* getUpdatedItem: the item is read back from the server.
GetUpdatedItem(i) ==
    \E q \in DoMultiGet([Idle EXCEPT !.op = chain[i].op], {i}, disabled) : Become(i, q)

\* The answer to a PUT.  When somebody else has changed the item the user is asked.
OnPut(i) ==
    LET q == chain[i] IN
    /\ Handles(i, {"add", "modify", "overwrite"})
    /\ CASE answer[i].status = "ok" -> GetUpdatedItem(i) /\ disabled' = disabled
         [] answer[i].status = "conflict" /\ q.kind = "modify" ->
              Become(i, [q EXCEPT !.kind = "prompt"]) /\ disabled' = disabled
         [] OTHER -> Become(i, Idle) /\ disabled' = TRUE
    /\ UNCHANGED <<cacheVars, checked, refreshed, tag, saved, waiting>>

\* The answer to a DELETE.  The facade's listener deletes the row.
OnDelete(i) ==
    LET q == chain[i] IN
    /\ Handles(i, {"delete", "erase"})
    /\ CASE answer[i].status = "ok" ->
              /\ known' = [known EXCEPT ![i] = FALSE]
              /\ etag' = [etag EXCEPT ![i] = 0] /\ row' = [row EXCEPT ![i] = 0]
              /\ Become(i, Idle) /\ disabled' = disabled
         [] answer[i].status = "conflict" ->
              Become(i, [q EXCEPT !.kind = "head"]) /\ UNCHANGED <<known, etag, row, disabled>>
         [] OTHER -> Become(i, Idle) /\ disabled' = TRUE /\ UNCHANGED <<known, etag, row>>
    /\ UNCHANGED <<late, checked, refreshed, tag, saved, waiting>>

\* Has the item been changed or deleted?  Nobody is told that it has been deleted.
OnHead(i) ==
    /\ Handles(i, {"head"})
    /\ Become(i, IF answer[i].status \in {"gone", "cut"} THEN Idle
                 ELSE [chain[i] EXCEPT !.kind = "prompt"])
    /\ UNCHANGED <<cacheVars, flagVars, tag, saved, waiting>>

\* promptOverwrite: the user overwrites what is on the server, or keeps it.
OnPrompt(i) ==
    LET q == chain[i] IN
    /\ q.kind = "prompt"
    /\ \/ Become(i, IF etag[i] = 0 THEN Idle
                     ELSE [q EXCEPT !.kind = IF q.op = "delete" THEN "erase" ELSE "overwrite"])
       \/ (q.op = "delete" => "keep" \in Disturbances) /\ GetUpdatedItem(i)
    /\ UNCHANGED <<serverVars, cacheVars, flagVars, tag, saved, waiting, answer, wire>>

\* The cache has told the item's flag: the facade's modifyItem goes on.
OnLate(i) ==
    /\ late[i] # 0
    /\ row' = [row EXCEPT ![i] = late[i]] /\ late' = [late EXCEPT ![i] = 0]
    /\ UNCHANGED <<serverVars, etag, known, flagVars, tag, saved, waiting, chain, answer, wire>>

-----------------------------------------------------------------------------

ServerStep(c) ==
    \/ AnswerQuery(c) \/ AnswerFailure(c)
    \/ c \in Items /\ (AnswerWrite(c) \/ AnswerHead(c))

ClientStep(c) ==
    \/ OnType(c) \/ OnCaps(c) \/ OnCtag(c) \/ OnEtags(c) \/ OnReport(c)
    \/ OnMulti(c) \/ OnStop(c) \/ OnBatch(c)
    \/ c \in Items /\ (OnFlag(c) \/ OnPut(c) \/ OnDelete(c) \/ OnHead(c) \/ OnLate(c))

UserStep ==
    \/ Synchronize \/ Restart
    \/ \E i \in Items : AddItem(i) \/ ModifyItem(i) \/ DeleteItem(i) \/ OnPrompt(i) \/ Others(i)

\* A change of an item on a calendar that has been disabled meanwhile ends as a refresh.
Refreshing(c) == chain[c].kind # "none" /\ chain[c].op = "none"
Overlap == \E c, d \in Chains : c # d /\ Refreshing(c) /\ Refreshing(d)

History == overlapped' = (overlapped \/ Overlap')

Next ==
    /\ UserStep \/ \E c \in Chains : ServerStep(c) \/ ClientStep(c)
    /\ History

\* A request is answered in the end, if only with an error, and the answer is handled.
Fairness == \A c \in Chains : WF_vars(ServerStep(c) /\ History) /\ WF_vars(ClientStep(c) /\ History)

Spec == Init /\ [][Next]_vars /\ Fairness

-----------------------------------------------------------------------------
(* Properties *)

\* With webdav-sync the server lists only what has changed since the token that is
\* stored: what has not changed since must be in the cache as it is on the server,
\* whatever batches, failures, restarts and operations of the user there have been, as
\* long as no item of a batch is skipped (MCCalDavCalendarSkipped.cfg), the last batch does
\* not fail as a whole ("lost") and the user keeps nothing he has deleted (...Keep.cfg).
TokenStands ==
    mode = "sync" /\ tag # 0 /\ ~overlapped =>
        \A i \in Items : changed[i] <= tag => row[i] = server[i]

\* The ctag is stored before what it stands for is fetched.  Once a refresh is over, no
\* request has failed and nothing has changed since, the cache is what the server holds.
CtagStands ==
    mode = "ctag" /\ refreshed /\ tag = stamp /\ failures = 0 /\ (\A c \in Chains : chain[c] = Idle)
        => row = server

\* What the cache holds of an item is what its etag says: a later If-Match is a
\* statement about what the user has seen.
RowsTagged == \A i \in Items : row[i] # 0 => etag[i] = row[i]

\* Without asking, a change of the user replaces only the content he has changed, or
\* deletes only what he has seen.
SeenBefore ==
    [][\A i \in Items :
        chain[i].kind \in {"modify", "delete"} /\ server'[i] # server[i] /\ OnWire(i)' /\ ~OnWire(i)
          => server[i] = chain[i].base]_vars

\* Whoever calls synchronize is answered, unless the server is gone when its capabilities
\* are asked for ("cut"), or what it has is no calendar any more and the calendar is
\* disabled (MCCalDavCalendarForeign.cfg).
SyncAnswered == waiting ~> ~waiting
=============================================================================
