------------------------------ MODULE AutoSync ------------------------------
(***************************************************************************)
(* mailnews/imap/src/nsAutoSyncManager.cpp and nsAutoSyncState.cpp: while  *)
(* nobody uses the program it looks for new messages (a STATUS, then an    *)
(* update of the folders that changed) and downloads bodies for offline    *)
(* use, group by group, one folder per server at a time (the chained       *)
(* model, the one the constructor sets).                                   *)
(*                                                                         *)
(* Everything runs on one thread, but every url ends in a callback of its  *)
(* own: a folder's sync object hears of the ends of its STATUS and of its  *)
(* downloads with the same method, the manager of the ends of the updates. *)
(*                                                                         *)
(* The handlers call each other several levels deep, so they are written   *)
(* as operators on a record "w" of the variables they change.              *)
(***************************************************************************)
EXTENDS Integers, FiniteSets, SequencesExt

CONSTANTS
    FolderList,       \* the offline folders, as ListDescendents lists them
    Server,           \* the server of each folder
    Rank,             \* the folder strategy: a lower rank comes first
    MsgsOf,           \* the messages of each folder; the message strategy
    Size,             \* prefers the lower number
    GroupSize,        \* mGroupSize
    FirstGroupSize,   \* kFirstGroupSizeLimit
    GroupRetryCount,  \* kGroupRetryCount
    HeadersPerPass,   \* kNumberOfHeadersToProcess
    MaxUrls,          \* bound: STATUS or update urls of one folder at once
    Disturbances      \* what happens beside auto-sync's own work, see below

Folders == ToSet(FolderList)
Messages == UNION {MsgsOf[f] : f \in Folders}

\* "push": headers of new messages arrive outside auto-sync's own updates (the
\* user opens the folder, or the server announces them);
\* "overlap": they do so while a url of auto-sync runs for that folder;
\* "discovery": the last discovery is more than an hour old;
\* "failures": urls may fail; "closed": a folder may not be opened;
\* "pending", "sent": messages are known to wait on the server, in a sent folder;
\* "reading": the user reads or deletes messages; "network": on- and offline.
ASSUME AutoSyncConstants ==
    /\ FolderList \in Seq(Folders) /\ IsInjective(FolderList)
    /\ Server \in [Folders -> Nat] /\ Rank \in [Folders -> Nat]
    /\ DOMAIN MsgsOf = Folders
    /\ \A f \in Folders : MsgsOf[f] \subseteq Nat /\ IsFiniteSet(MsgsOf[f])
    /\ \A f, g \in Folders : f # g => MsgsOf[f] \cap MsgsOf[g] = {}
    /\ Size \in [Messages -> Nat \ {0}]
    /\ {GroupSize, FirstGroupSize, HeadersPerPass, MaxUrls} \subseteq Nat \ {0}
    /\ GroupRetryCount \in Nat
    /\ Disturbances \subseteq {"push", "overlap", "discovery", "failures", "closed",
                               "pending", "sent", "reading", "network"}

VARIABLES
    sync,        \* the nsAutoSyncState of each folder
    priorityQ,   \* mPriorityQ
    running,     \* the groups being downloaded for each folder, oldest first
    message,     \* what the program has of each message
    discoveryQ,  \* mDiscoveryQ
    updateQ,     \* mUpdateQ
    initiated,   \* mUpdateState = initiated
    status,      \* STATUS urls running for each folder
    update,      \* update urls running for each folder
    idle,        \* mIdleState
    paused,      \* mPaused, and the IO service is offline
    timer        \* mTimer is set

downloadVars == <<sync, priorityQ, running, message>>
updateVars == <<discoveryQ, updateQ, initiated, status, update>>
idleVars == <<idle, paused, timer>>
vars == <<downloadVars, updateVars, idleVars>>

States == {"completedIdle", "statusIssued", "updateNeeded", "updateIssued",
           "downloadInProgress", "readyToDownload"}

Work == [sync |-> sync, pq |-> priorityQ, running |-> running, message |-> message]

TypeOK ==
    /\ \A f \in Folders :
        /\ sync[f].state \in States
        /\ sync[f].q \in Seq(MsgsOf[f]) /\ IsInjective(sync[f].q)
        /\ sync[f].offset \in 0 .. Len(sync[f].q)
        /\ sync[f].last \in 0 .. sync[f].offset
        /\ sync[f].retry \in 0 .. GroupRetryCount
        /\ sync[f].changed \in BOOLEAN /\ sync[f].held \in BOOLEAN
        /\ sync[f].existing \in Seq(MsgsOf[f])
        /\ running[f] \in Seq(SUBSET MsgsOf[f])
        /\ status[f] \in 0 .. MaxUrls /\ update[f] \in 0 .. MaxUrls
    /\ \A q \in {priorityQ, discoveryQ, updateQ} : q \in Seq(Folders) /\ IsInjective(q)
    /\ message \in [Messages -> {"onServer", "known", "stored", "deleted"}]
    /\ initiated \in BOOLEAN /\ paused \in BOOLEAN /\ timer \in BOOLEAN
    /\ idle \in {"notIdle", "systemIdle", "appIdle"}

\* A start of the program, with nothing to download.
Init ==
    /\ sync = [f \in Folders |->
                [state |-> "completedIdle", q |-> <<>>, offset |-> 0, last |-> 0,
                 retry |-> 0, changed |-> FALSE, held |-> FALSE, existing |-> <<>>]]
    /\ priorityQ = <<>> /\ discoveryQ = <<>> /\ updateQ = <<>>
    /\ running = [f \in Folders |-> <<>>]
    /\ message \in [Messages -> IF "discovery" \in Disturbances
                                THEN {"onServer", "known"} ELSE {"onServer"}]
    /\ initiated = FALSE
    /\ status = [f \in Folders |-> 0] /\ update = [f \in Folders |-> 0]
    /\ idle = "notIdle" /\ paused = FALSE /\ timer = FALSE

-----------------------------------------------------------------------------
(* nsAutoSyncState *)

\* The members of a set of numbers in order, and those of a sequence that are in a set.
Ascending(S) ==
    [i \in 1 .. Cardinality(S) |-> CHOOSE n \in S : Cardinality({m \in S : m < n}) = i - 1]
Only(s, S) ==
    LET places == Ascending({k \in DOMAIN s : s[k] \in S})
    IN  [i \in DOMAIN places |-> s[places[i]]]

\* SetState: a folder that is done forgets its download queue.
SetState(w, f, state) ==
    [w EXCEPT !.sync[f] =
        IF state = "completedIdle"
        THEN [@ EXCEPT !.state = state, !.q = <<>>, !.offset = 0, !.last = 0]
        ELSE [@ EXCEPT !.state = state]]

\* Variant: one retry too many.
TryCurrentGroupOnceMore(w, f) ==
    LET s == w.sync[f]
    IN  [w EXCEPT !.sync[f] =
            IF s.retry <= GroupRetryCount
            THEN [s EXCEPT !.state = "readyToDownload", !.retry = s.retry + 1, !.offset = s.last]
            ELSE [s EXCEPT !.state = "readyToDownload", !.retry = 0]]

\* TryCurrentGroupAgain(kGroupRetryCount), with Rollback.
TryCurrentGroupAgain(w, f) ==
    LET s == w.sync[f]
    IN  [w EXCEPT !.sync[f] =
            IF s.retry < GroupRetryCount
            THEN [s EXCEPT !.state = "readyToDownload", !.retry = s.retry + 1, !.offset = s.last]
            ELSE [s EXCEPT !.state = "readyToDownload", !.retry = 0]]

Pending(s) == Len(s.q) - s.offset

\* SortQueueBasedOnStrategy and SortSubQueueBasedOnStrategy: the messages from
\* mOffset on.
Sorted(s) ==
    LET rest == SubSeq(s.q, s.offset + 1, Len(s.q))
    IN  IF s.changed THEN Ascending(ToSet(rest)) ELSE rest

\* The messages without a body among the first k.
Bodies(w, rest, k) == {m \in ToSet(SubSeq(rest, 1, k)) : w.message[m] = "known"}

TotalSize(group) == MapThenSumSet(LAMBDA m : Size[m], group)

\* How much of the queue one group takes: as many bodies as fit, or a single message
\* of GroupSize or more.
GroupLength(w, rest) ==
    LET large == {k \in DOMAIN rest : /\ Size[rest[k]] >= GroupSize
                                      /\ Bodies(w, rest, k) = {rest[k]}}
    IN  IF large # {} THEN Min(large)
        ELSE Max({k \in 0 .. Len(rest) : TotalSize(Bodies(w, rest, k)) <= GroupSize})

\* Messages that have their body are passed over, deleted ones leave the queue.
Take(w, f, rest, n) ==
    LET s == w.sync[f]
        kept == Only(SubSeq(rest, 1, n), {m \in Messages : w.message[m] # "deleted"})
    IN  [group |-> Bodies(w, rest, n),
         w |-> [w EXCEPT !.sync[f] =
                   [s EXCEPT !.q = SubSeq(s.q, 1, s.offset) \o kept
                                       \o SubSeq(rest, n + 1, Len(rest)),
                             !.last = s.offset, !.offset = s.offset + Len(kept),
                             !.changed = FALSE]]]

\* GetNextGroupOfMessages.
NextGroup(w, f) ==
    LET rest == Sorted(w.sync[f]) IN Take(w, f, rest, GroupLength(w, rest))

\* A download of the group, unless the folder's semaphore or the limit (0: none)
\* keeps it from starting.  Offline the url is refused when the semaphore has been
\* taken, and it is not given back.
DownloadGroup(f, limit, next) ==
    IF next.group = {} THEN [w |-> next.w, rv |-> "notAvailable"]
    ELSE IF next.w.sync[f].held \/ (limit # 0 /\ limit < TotalSize(next.group))
         THEN [w |-> next.w, rv |-> "failed"]
    ELSE IF paused
         THEN [w |-> [next.w EXCEPT !.sync[f].held = TRUE], rv |-> "failed"]
    ELSE [w |-> [next.w EXCEPT !.sync[f] = [@ EXCEPT !.held = TRUE,
                                                     !.state = "downloadInProgress"],
                               !.running[f] = Append(@, next.group)],
          rv |-> "ok"]

\* The manager's DownloadMessagesForOffline and the sync object's.
Download(w, f, limit) ==
    IF Pending(w.sync[f]) = 0 THEN [w |-> w, rv |-> "notAvailable"]
    ELSE DownloadGroup(f, limit, NextGroup(w, f))

-----------------------------------------------------------------------------
(* nsAutoSyncManager: the priority queue *)

Siblings(f, g) == f # g /\ Server[f] = Server[g]

\* ScheduleFolderForOfflineDownload: from the end, past the folders it outranks.
Schedule(pq, f) ==
    LET others == {k \in DOMAIN pq : Rank[pq[k]] <= Rank[f]}
        k == Max(others)
    IN  IF f \in ToSet(pq) THEN pq
        ELSE IF others = {} THEN <<f>> \o pq
        ELSE InsertAt(pq, IF Rank[pq[k]] < Rank[f] THEN k + 1 ELSE k, f)

\* One of them; each folder is handled by itself.
Retried(d, g) == IF d.rv = "failed" THEN TryCurrentGroupAgain(d.w, g) ELSE d.w
Handled(w, v) ==
    [w EXCEPT !.sync = [g \in Folders |-> v[g].sync[g]],
              !.running = [g \in Folders |-> v[g].running[g]]]

\* GetNextSibling, from the folder on: those that stand behind it.
NextSiblings(pq, f) ==
    {k \in DOMAIN pq : Siblings(f, pq[k]) /\ \E i \in 1 .. k - 1 : pq[i] = f}

\* HandleDownloadErrorFor: the next siblings in the queue, until one starts.
HandleDownloadError(d, f) ==
    LET w == Retried(d, f)
        next == NextSiblings(w.pq, f)
        tried == {w.pq[k] : k \in {k \in next : \A j \in next :
                      j < k => Download(w, w.pq[j], 0).rv # "ok"}}
    IN  Handled(w, [g \in Folders |-> IF g \in tried THEN Retried(Download(w, g, 0), g) ELSE w])

OrNext(d, f) == IF d.rv = "ok" THEN d.w ELSE HandleDownloadError(d, f)
DownloadOrNext(w, f) == OrNext(Download(w, f, 0), f)

\* OnDownloadQChanged.  It starts a download at once, with a limit when the
\* user is there, unless a sibling downloads.
OrAgain(d, f) == IF d.rv = "ok" THEN d ELSE [d EXCEPT !.w = TryCurrentGroupAgain(@, f)]
DownloadFirst(w, f) ==
    IF \E g \in ToSet(w.pq) : Siblings(f, g) /\ w.sync[g].state = "downloadInProgress"
    THEN [w |-> w, rv |-> "ok"]
    ELSE OrAgain(Download(w, f, IF idle = "notIdle" THEN FirstGroupSize ELSE 0), f)

OnDownloadQChanged(w, f) ==
    IF paused THEN [w |-> w, rv |-> "ok"]
    ELSE DownloadFirst([SetState(w, f, "readyToDownload") EXCEPT !.pq = Schedule(@, f)], f)

\* PlaceIntoDownloadQ.
PlaceIntoDownloadQ(w, f, keys) ==
    LET s == w.sync[f]
        new == keys \ ToSet(s.q)
        v == [w EXCEPT !.sync[f] = [s EXCEPT !.q = s.q \o Ascending(new),
                                             !.changed = s.changed \/ new # {}]]
    IN  IF keys # {} /\ v.sync[f].changed THEN OnDownloadQChanged(v, f)
        ELSE [w |-> v, rv |-> "ok"]

\* Variant: the state of the folder stays "download in progress".
OnDownloadCompletedUnready(w, f, ok) ==
    IF ~ok \/ Pending(w.sync[f]) > 0 THEN w ELSE [w EXCEPT !.pq = Only(@, Folders \ {f})]

\* The highest sibling of the folder, if the folder is done or comes after it.
NextFolder(w, f, more) ==
    LET siblings == {k \in DOMAIN w.pq : Siblings(f, w.pq[k])}
        first == Min(siblings)
        ahead == \E k \in DOMAIN w.pq : w.pq[k] = f /\ first < k
    IN  IF siblings # {} /\ (~more \/ ahead) THEN {w.pq[first]}
        ELSE IF more THEN {f} ELSE {}

ContinueWith(w, next) ==
    IF idle = "notIdle" \/ next = {} THEN w
    ELSE DownloadOrNext(w, CHOOSE g \in next : TRUE)

\* OnDownloadCompleted.
OnDownloadCompleted(w, f, ok) ==
    LET again == TryCurrentGroupAgain(w, f)
        reset == [w EXCEPT !.sync[f].retry = 0]
        more == Pending(w.sync[f]) > 0
        done == IF more THEN SetState(reset, f, "readyToDownload")
                ELSE [SetState(reset, f, "completedIdle") EXCEPT !.pq = Only(@, Folders \ {f})]
    IN  IF ok THEN ContinueWith(done, NextFolder(done, f, more))
        ELSE IF idle = "notIdle" THEN again ELSE DownloadOrNext(again, f)

-----------------------------------------------------------------------------
(* The ends of the urls *)

Apply(w) ==
    /\ sync' = w.sync
    /\ priorityQ' = w.pq
    /\ running' = w.running
    /\ message' = w.message

\* The manager's OnStopRunningUrl: the update of the first folder is over.
UpdateOver ==
    /\ initiated' = FALSE
    /\ updateQ' = IF updateQ = <<>> THEN <<>> ELSE Tail(updateQ)

\* Variant: the semaphore is kept when a download fails.
OnStopRunningUrlKeeping(w, f, ok, changed) ==
    IF w.sync[f].state = "statusIssued"
    THEN IF changed
         THEN /\ update[f] < MaxUrls
              /\ update' = [update EXCEPT ![f] = @ + 1]
              /\ Apply(SetState(w, f, "updateIssued"))
              /\ UNCHANGED <<initiated, updateQ>>
         ELSE /\ Apply(SetState(w, f, "completedIdle"))
              /\ UpdateOver
              /\ UNCHANGED update
    ELSE /\ Apply(OnDownloadCompleted([w EXCEPT !.sync[f].held = ~ok], f, ok))
         /\ UNCHANGED <<initiated, updateQ, update>>

\* The sync object's OnStopRunningUrl, for the end of a STATUS or of a download:
\* the state of the folder tells which.  up: the update urls, changed: the
\* counts of the folder differ from the last ones.
OnStopRunningUrl(w, f, ok, changed) ==
    IF w.sync[f].state = "statusIssued"
    THEN IF changed
         THEN /\ update[f] < MaxUrls
              /\ update' = [update EXCEPT ![f] = @ + 1]
              /\ Apply(SetState(w, f, "updateIssued"))
              /\ UNCHANGED <<initiated, updateQ>>
         ELSE /\ Apply(SetState(w, f, "completedIdle"))
              /\ UpdateOver
              /\ UNCHANGED update
    ELSE /\ Apply(OnDownloadCompleted([w EXCEPT !.sync[f].held = FALSE], f, ok))
         /\ UNCHANGED <<initiated, updateQ, update>>

MayFail(ok) == ok \/ "failures" \in Disturbances

StatusStops(f, ok, changed) ==
    /\ status[f] > 0 /\ MayFail(ok)
    /\ status' = [status EXCEPT ![f] = @ - 1]
    /\ OnStopRunningUrl(Work, f, ok, changed)
    /\ UNCHANGED <<discoveryQ, idleVars>>

\* The bodies that came ("got") are in the offline store; a download that fails
\* may have fetched some of its messages.
DownloadStops(f, ok, got, changed) ==
    /\ running[f] # <<>> /\ MayFail(ok)
    /\ LET group == {m \in Head(running[f]) : message[m] = "known"}
           w == [Work EXCEPT !.running[f] = Tail(@),
                             !.message = [m \in Messages |-> IF m \in got THEN "stored"
                                                             ELSE @[m]]]
       IN  /\ IF ok THEN got = group ELSE got \subseteq group
           /\ OnStopRunningUrl(w, f, ok, changed)
    /\ UNCHANGED <<status, discoveryQ, idleVars>>

UpdateStops(f) ==
    /\ update[f] > 0
    /\ update' = [update EXCEPT ![f] = @ - 1]
    /\ UpdateOver
    /\ UNCHANGED <<downloadVars, discoveryQ, status, idleVars>>

-----------------------------------------------------------------------------
(* New headers, waiting messages, the user *)

NoUrl(f) == running[f] = <<>> /\ status[f] = 0 /\ update[f] = 0

\* HeaderFetchCompleted, GetBodysToDownload and OnNewHeaderFetchCompleted: an
\* update, auto-sync's or another, has put the headers "new" in the database.
HeaderFetchCompleted(f, new) ==
    /\ \/ update[f] > 0 /\ (running[f] = <<>> \/ "overlap" \in Disturbances)
       \/ "push" \in Disturbances /\ new # {} /\ (NoUrl(f) \/ "overlap" \in Disturbances)
    /\ new \subseteq {m \in MsgsOf[f] : message[m] = "onServer"}
    /\ LET w == [Work EXCEPT !.message = [m \in Messages |-> IF m \in new THEN "known"
                                                             ELSE @[m]]]
           keys == {m \in MsgsOf[f] : w.message[m] = "known"}
       IN  Apply(PlaceIntoDownloadQ(w, f, keys).w)
    /\ UNCHANGED <<updateVars, idleVars>>

\* OnFolderHasPendingMsgs; front: the folder holds sent or archived mail.
OnFolderHasPendingMsgs(f, front) ==
    /\ (IF front THEN "sent" ELSE "pending") \in Disturbances
    /\ f \notin ToSet(updateQ)
    /\ updateQ' = IF front THEN <<f>> \o updateQ ELSE Append(updateQ, f)
    /\ Apply(SetState(Work, f, "updateNeeded"))
    /\ UNCHANGED <<discoveryQ, initiated, status, update, idleVars>>

\* The user reads a message, which stores it, or deletes it.
UserTakes(m, to) ==
    /\ "reading" \in Disturbances
    /\ \/ message[m] = "known" /\ to \in {"stored", "deleted"}
       \/ message[m] = "stored" /\ to = "deleted"
    /\ message' = [message EXCEPT ![m] = to]
    /\ UNCHANGED <<sync, priorityQ, running, updateVars, idleVars>>

-----------------------------------------------------------------------------
(* The timer *)

\* ProcessExistingHeaders of the first folder in mDiscoveryQ: the next headers
\* of the list made at the first pass, again when their download cannot start.
PassOver(placed, f, list) ==
    LET left == IF placed.rv = "ok" THEN SubSeq(list, HeadersPerPass + 1, Len(list)) ELSE list
    IN  [w |-> [placed.w EXCEPT !.sync[f].existing = left], over |-> left = <<>>]

ProcessExistingHeaders(f) ==
    LET all == Ascending({m \in MsgsOf[f] : message[m] \in {"known", "stored"}})
        list == IF sync[f].existing = <<>> THEN all ELSE sync[f].existing
        pass == SubSeq(list, 1, Min({HeadersPerPass, Len(list)}))
        keys == {m \in ToSet(pass) : message[m] = "known"}
    IN  PassOver(PlaceIntoDownloadQ(Work, f, keys), f, list)

\* Variant: the update counts as initiated although the folder does not open.
InitiateUnopened(w, opens) ==
    LET f == Head(updateQ)
    IN  IF opens /\ w.sync[f].state = "completedIdle"
        THEN /\ status[f] < MaxUrls
             /\ status' = [status EXCEPT ![f] = @ + 1]
             /\ Apply(SetState(w, f, "statusIssued"))
             /\ initiated' = TRUE
             /\ UNCHANGED <<updateQ, update>>
        ELSE /\ initiated' = TRUE
             /\ Apply(w)
             /\ UNCHANGED <<updateQ, status, update>>

\* InitiateAutoSync of the first folder in mUpdateQ; the folder leaves the queue
\* when nothing can be started for it.
InitiateAutoSync(w, opens) ==
    LET f == Head(updateQ)
        state == w.sync[f].state
    IN  IF state \in {"completedIdle", "updateNeeded"} /\ opens
        THEN /\ initiated' = TRUE
             /\ UNCHANGED updateQ
             /\ IF state = "updateNeeded"
                THEN /\ update[f] < MaxUrls
                     /\ update' = [update EXCEPT ![f] = @ + 1]
                     /\ Apply(SetState(w, f, "updateIssued"))
                     /\ UNCHANGED status
                ELSE /\ status[f] < MaxUrls
                     /\ status' = [status EXCEPT ![f] = @ + 1]
                     /\ Apply(SetState(w, f, "statusIssued"))
                     /\ UNCHANGED update
        ELSE /\ updateQ' = Tail(updateQ)
             /\ Apply(w)
             /\ UNCHANGED <<initiated, status, update>>

\* TimerCallback, after the first folder of mDiscoveryQ has had its turn.
ProcessQueues(discovery, opens) ==
    /\ discoveryQ' = IF discovery.over THEN Tail(discoveryQ) ELSE discoveryQ
    /\ IF updateQ # <<>> /\ ~initiated
       THEN InitiateAutoSync(discovery.w, opens)
       ELSE Apply(discovery.w) /\ UNCHANGED <<updateQ, initiated, status, update>>

TimerCallback(opens) ==
    /\ timer
    /\ timer' = (idle # "notIdle" /\ (discoveryQ # <<>> \/ updateQ # <<>>))
    /\ ProcessQueues(IF discoveryQ = <<>> THEN [w |-> Work, over |-> FALSE]
                     ELSE ProcessExistingHeaders(Head(discoveryQ)), opens)
    /\ opens \/ "closed" \in Disturbances
    /\ UNCHANGED <<idle, paused>>

-----------------------------------------------------------------------------
(* Idle time *)

Same(pq, f) == {k \in DOMAIN pq : Server[pq[k]] = Server[f]}

\* Variant: the first folder of the server, whether or not another downloads.
ChainedFirst(w) == {w.pq[Min(Same(w.pq, f))] : f \in ToSet(w.pq)}

\* ChainFoldersInQ: one folder per server, the first or the one downloading.
Chained(w) ==
    LET first(f) == Min(Same(w.pq, f))
        busy(f) == {k \in Same(w.pq, f) : /\ k > first(f)
                                          /\ w.sync[w.pq[k]].state = "downloadInProgress"}
    IN  {w.pq[IF busy(f) = {} THEN first(f) ELSE Max(busy(f))] : f \in ToSet(w.pq)}

\* StartIdleProcessing: the chained folders that are ready start a group, each on its
\* server; those with nothing to download leave the queue at the end.
Ready(w) == {f \in Chained(w) : w.sync[f].state = "readyToDownload"}
StartServer(w, f) == IF \E g \in Ready(w) : Server[g] = Server[f]
                     THEN DownloadOrNext(w, CHOOSE g \in Ready(w) : Server[g] = Server[f])
                     ELSE w
StartAll(w) == Handled(w, [f \in Folders |-> StartServer(w, f)])

Drop(w, gone) ==
    [Handled(w, [f \in Folders |-> IF f \in gone THEN SetState(w, f, "completedIdle") ELSE w])
        EXCEPT !.pq = Only(@, Folders \ gone)]
StartedAll(w) == Drop(StartAll(w), {f \in Ready(w) : Download(w, f, 0).rv = "notAvailable"})

\* AutoUpdateFolders; stale: the folders whose last update is older than BiffMinutes,
\* old: those whose last discovery is older than kAutoSyncFreq.
AutoUpdateFolders(w, stale, old) ==
    /\ Apply(w)
    /\ updateQ' = updateQ \o Only(FolderList,
                    {f \in stale \ ToSet(updateQ) : w.sync[f].state = "completedIdle"})
    /\ discoveryQ' = discoveryQ \o Only(FolderList, old \ ToSet(discoveryQ))
    /\ timer' = (timer \/ updateQ' # <<>> \/ discoveryQ' # <<>>)
    /\ UNCHANGED <<initiated, status, update>>

StartIdleProcessing(stale, old) ==
    IF paused THEN UNCHANGED <<downloadVars, updateVars, timer>>
    ELSE AutoUpdateFolders(StartedAll(Work), stale, old)

MayBeOld == IF "discovery" \in Disturbances THEN Folders ELSE {}

\* Observe: the program, or the whole system, is idle.
GoIdle(kind, stale, old) ==
    /\ IF idle = "notIdle"
       THEN idle' = kind /\ StartIdleProcessing(stale, old)
       ELSE /\ idle' = IF kind = "appIdle" THEN kind ELSE idle
            /\ UNCHANGED <<downloadVars, updateVars, timer>>
    /\ UNCHANGED paused

\* Observe: back from one of the two; the end of a system idle time does not end
\* an idle time of the program.
ComeBack(kind) ==
    /\ idle # "notIdle"
    /\ kind = "systemIdle" => idle # "appIdle"
    /\ idle' = "notIdle"
    /\ UNCHANGED <<downloadVars, updateVars, paused, timer>>

\* Observe: Pause when going offline, Resume when online again.
Pause ==
    /\ "network" \in Disturbances /\ ~paused
    /\ paused' = TRUE /\ timer' = FALSE
    /\ UNCHANGED <<downloadVars, updateVars, idle>>

Resume ==
    /\ paused
    /\ paused' = FALSE
    /\ timer' = (timer \/ updateQ # <<>> \/ discoveryQ # <<>>)
    /\ UNCHANGED <<downloadVars, updateVars, idle>>

-----------------------------------------------------------------------------

Next ==
    \/ \E f \in Folders, changed \in BOOLEAN :
        \/ \E ok \in BOOLEAN : StatusStops(f, ok, changed)
        \/ \E ok \in BOOLEAN, got \in SUBSET MsgsOf[f] : DownloadStops(f, ok, got, changed)
    \/ \E f \in Folders :
        \/ UpdateStops(f)
        \/ \E new \in SUBSET MsgsOf[f] : HeaderFetchCompleted(f, new)
        \/ \E front \in BOOLEAN : OnFolderHasPendingMsgs(f, front)
    \/ \E m \in Messages, to \in {"stored", "deleted"} : UserTakes(m, to)
    \/ \E opens \in BOOLEAN : TimerCallback(opens)
    \/ \E kind \in {"systemIdle", "appIdle"} :
        \/ \E stale \in SUBSET Folders, old \in SUBSET MayBeOld : GoIdle(kind, stale, old)
        \/ ComeBack(kind)
    \/ Pause
    \/ Resume

\* The IMAP thread ends every url, the timer fires while it is set, and idle
\* times begin and end again and again.  The two disjunctions are WF_vars of
\* DownloadStops, possible while a group is running, and of the timer's callback,
\* possible while the timer is set (MaxUrls holds it back until a url ends, no
\* longer).  WF_idle is about the steps that change mIdleState.
Fairness ==
    /\ \A f \in Folders :
        /\ WF_vars(\E ok, changed \in BOOLEAN : StatusStops(f, ok, changed))
        /\ \/ []<>(running[f] = <<>>)
           \/ []<><<\E ok, changed \in BOOLEAN, got \in SUBSET MsgsOf[f] :
                        DownloadStops(f, ok, got, changed)>>_vars
        /\ WF_vars(UpdateStops(f))
    /\ \/ []<>~timer
       \/ []<><<\E opens \in BOOLEAN : TimerCallback(opens)>>_vars
    /\ WF_idle(idle = "notIdle" /\ idle' \in {"systemIdle", "appIdle"})
    /\ WF_idle(idle # "notIdle" /\ idle' = "notIdle")
    /\ WF_vars(Resume)

Spec == Init /\ [][Next]_vars /\ Fairness

-----------------------------------------------------------------------------
(* What it promises *)

\* OneFolderPerServer: the chained model: "One folder per imap server any given
\* time" downloads (nsAutoSyncManager.h).
OneFolderPerServer ==
    \A f, g \in Folders : Siblings(f, g) => running[f] = <<>> \/ running[g] = <<>>

\* OneDownload: the semaphore of a folder is held exactly while one group of it is
\* downloaded: it is neither taken twice nor kept.
OneDownload ==
    \A f \in Folders : Len(running[f]) = IF sync[f].held THEN 1 ELSE 0

\* WaitedFor: a folder whose siblings wait for it does download.
WaitedFor ==
    \A f \in Folders : sync[f].state = "downloadInProgress" => running[f] # <<>>

\* UpdateEnds: no update is under way for ever, so that the next folder gets its turn.
UpdateEnds == initiated ~> ~initiated

\* A download of the folder fails and leaves a message without its body.
Fails(f) ==
    /\ Len(running'[f]) < Len(running[f])
    /\ \E m \in Head(running[f]) : message'[m] = "known"

\* QueueDrains: online, once downloads have stopped failing, no folder stays in the
\* priority queue: every folder with bodies to fetch comes to its end.
QueueDrains ==
    <>[]~paused /\ <>[][\A f \in Folders : ~Fails(f)]_vars
        => \A f \in Folders : f \in ToSet(priorityQ) ~> f \notin ToSet(priorityQ)
=============================================================================
