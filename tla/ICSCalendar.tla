----------------------------- MODULE ICSCalendar -----------------------------
(***************************************************************************)
(* calendar/providers/ics/calICSCalendar.js: a calendar that is one file,  *)
(* on a server or on the disk.  The file is loaded into a memory calendar  *)
(* (calMemoryCalendar.js); what the user changes is changed there, and the *)
(* whole file is written again.  Requests wait in a queue while the        *)
(* calendar is locked, that is, while the file is read or written.         *)
(*                                                                         *)
(* An ETag, or the time a local file was changed, is to keep the program   *)
(* from overwriting what another client has written since.                 *)
(***************************************************************************)
EXTENDS Integers, SequencesExt

CONSTANTS
    Items,        \* item ids
    Schemes,      \* what the calendar's uri may be, which chooses its hooks
    MaxOps,       \* bound: requests of the user for items, and contents of other clients
    MaxQueue,     \* bound: requests that wait when the user makes one more
    Disturbances  \* what may go wrong, see below

\* "others": another client writes the file; "early": even if no tag of it is known;
\* "window": it changes the file in the moment before its new tag is known;
\* "failures": an upload fails or its answer is lost; "noload": any download fails;
\* "invalid": a download is not a calendar, as a server's error page;
\* "hasty": the user deletes while the calendar is busy with what may delete the item;
\* "disk": the backup file cannot be made;
\* "nodav": a server that sends no ETags for uploads has no answer to PROPFIND either.
ASSUME ICSConstants ==
    /\ Schemes \subseteq {"http", "file"}
    /\ MaxOps \in Nat /\ MaxQueue \in Nat \ {0}
    /\ Disturbances \subseteq {"others", "early", "window", "failures", "noload",
                               "invalid", "hasty", "disk", "nodav"}

VARIABLES
    scheme,    \* "http": httpHooks; "file": fileHooks
    file,      \* the file: what it holds and its tag; tag 0: there is none
    known,     \* mEtag or mtime of the hooks
    memory,    \* mMemoryCalendar
    queue,     \* queue
    locked,    \* locked
    turn,      \* what the turn under way does next: see Turns
    writing,   \* writeICS in processQueue
    pending,   \* mModificationActions and what the memory calendar said of them
    requests,  \* the requests to the file, the disk or the memory calendar under way
    readOnly,  \* readOnly
    clock,     \* requests made and contents written, so far
    answers,   \* history: what the listener of each request was told
    applied,   \* history: the requests performed on the memory calendar since it was loaded
    base,      \* history: the tag of the file that the memory calendar was last read from
               \* or written to
    written    \* history: the requests that have been part of a file

fileVars == <<file, known, base, written>>
vars == <<scheme, file, known, memory, queue, locked, turn, writing, pending, requests,
          readOnly, clock, answers, applied, base, written>>

Ops == 1 .. MaxOps
Versions == 0 .. MaxOps + 1
Contents == [Items -> Versions]
Empty == [i \in Items |-> 0]

\* What is read from an answer that has no tag in it: the tag of no file.
NoTag == -1

\* The functions that may have to go on after a call of processQueue: the end of the
\* turn, the try block of httpHooks.onAfterPut, or forceRefresh in a catch block.
Turns == {"none", "process", "try", "then refresh"}

Action == [op : {"add", "modify", "delete"}, id : Items, old : Versions, n : Ops]
          \cup [op : {"get"}, n : Ops]
          \cup [op : {"refresh"}, force : BOOLEAN]
Request == [step : {"get", "parse", "backup", "read", "put", "etag"}, force : BOOLEAN,
            items : Contents, tag : Nat, ops : SUBSET Ops]

TypeOK ==
    /\ scheme \in Schemes
    /\ file \in [items : Contents, tag : Nat] /\ base \in Nat
    /\ known \in Nat \cup {NoTag}
    /\ memory \in Contents
    /\ queue \in Seq(Action)
    /\ locked \in BOOLEAN /\ writing \in BOOLEAN /\ readOnly \in BOOLEAN
    /\ turn \in Turns
    /\ pending \in Seq([n : Ops, ok : BOOLEAN])
    /\ requests \in Seq(Request)
    /\ clock \in 0 .. MaxOps
    /\ answers \in [Ops -> {"none", "waiting", "ok", "failed", "read"}]
    /\ applied \in SUBSET Ops /\ written \in SUBSET Ops

Refresh(force) == [op |-> "refresh", force |-> force]

\* The calendar manager refreshes a calendar as soon as it is set up.
Init ==
    /\ scheme \in Schemes
    /\ file \in [items : [Items -> {0, 1}], tag : {1}] \cup {[items |-> Empty, tag |-> 0]}
    /\ known = 0 /\ memory = Empty
    /\ queue = <<Refresh(FALSE)>> /\ turn = "process"
    /\ locked = FALSE /\ writing = FALSE /\ readOnly = FALSE
    /\ pending = <<>> /\ requests = <<>>
    /\ clock = 0
    /\ answers = [n \in Ops |-> "none"]
    /\ applied = {} /\ base = 0 /\ written = {}

-----------------------------------------------------------------------------
(* What is asked of the calendar *)

\* Variant: the lock is not looked at.
EnqueueAlways(a) ==
    /\ turn = "none" /\ Len(queue) < MaxQueue
    /\ queue' = Append(queue, a)
    /\ turn' = "process"

\* Put in the queue, which is processed at once unless the calendar is locked.
\* A listener that asks for more in its onOperationComplete finds it locked, as one
\* does that asked just before.
Enqueue(a) ==
    /\ turn = "none" /\ Len(queue) < MaxQueue
    /\ queue' = Append(queue, a)
    /\ turn' = IF locked THEN "none" ELSE "process"

\* Requests are numbered, and so are the contents they write.
Number == clock + 1
Ask(a) ==
    /\ clock < MaxOps /\ clock' = Number
    /\ answers' = [answers EXCEPT ![Number] = "waiting"]
    /\ Enqueue(a)
    /\ UNCHANGED <<scheme, memory, locked, writing, pending, requests, readOnly, applied, fileVars>>

\* adoptItem, modifyItem, deleteItem: the user works on the items as the memory
\* calendar has told the views.
Change(op, i) == [op |-> op, id |-> i, old |-> memory[i], n |-> Number]

\* Variant: an action of a name that the queue does not know.
AdoptItemMisnamed(i) == ~readOnly /\ memory[i] = 0 /\ Ask(Change("adopt", i))

AdoptItem(i) == ~readOnly /\ memory[i] = 0 /\ Ask(Change("add", i))
ModifyItem(i) == ~readOnly /\ memory[i] # 0 /\ Ask(Change("modify", i))

\* Nothing that is under way or waits can have deleted the item by then.
Lasting(i) ==
    /\ \A k \in DOMAIN requests : requests[k].step \notin {"get", "parse"}
    /\ \A k \in DOMAIN queue : queue[k].op # "refresh" /\ (queue[k].op = "delete" => queue[k].id # i)

DeleteItem(i) ==
    /\ ~readOnly /\ memory[i] # 0
    /\ "hasty" \in Disturbances \/ Lasting(i)
    /\ Ask(Change("delete", i))

\* getItem and getItems.
GetItems == Ask([op |-> "get", n |-> Number])

\* refresh, by the user, a timer or the calendar manager.
AskRefresh ==
    /\ Enqueue(Refresh(FALSE))
    /\ UNCHANGED <<scheme, memory, locked, writing, pending, requests, readOnly, clock, answers,
                   applied, fileVars>>

\* The user clears the read-only mark that an error has set.
MakeWritable ==
    /\ turn = "none" /\ readOnly
    /\ readOnly' = FALSE
    /\ UNCHANGED <<scheme, memory, queue, locked, turn, writing, pending, requests, clock, answers,
                   applied, fileVars>>

-----------------------------------------------------------------------------
(* The lock *)

\* The listeners of what has been done hear of a failure if the memory calendar
\* refused or the write failed.
Result(p, failed) == IF failed \/ ~p.ok THEN "failed" ELSE "ok"
Told(failed) ==
    [n \in Ops |-> IF \E p \in ToSet(pending) : p.n = n
                   THEN Result(CHOOSE p \in ToSet(pending) : p.n = n, failed) ELSE answers[n]]

\* unlock, up to its call of processQueue.  It does not mind if nothing is locked.
Unlock(failed, next) ==
    /\ answers' = Told(failed)
    /\ pending' = <<>>
    /\ locked' = FALSE
    /\ turn' = next

-----------------------------------------------------------------------------
(* processQueue: one round of its loop a step; nothing else runs in between *)

\* calMemoryCalendar.js adds anything, and compares what it modifies or deletes with
\* what it has.
Accepts(a) == a.op = "add" \/ (memory[a.id] # 0 /\ a.old = memory[a.id])

Begin(step, force) ==
    [step |-> step, force |-> force, items |-> Empty, tag |-> 0, ops |-> {}]

\* An exception leaves the turn.  httpHooks.onAfterPut catches it and takes it for a
\* missing ETag.
Throw(next) ==
    /\ writing' = FALSE
    /\ turn' = next
    /\ requests' = IF turn = "try" THEN Append(requests, Begin("etag", FALSE)) ELSE requests

\* Variant: a change that the memory calendar refuses is not written down.
PerformSilently ==
    /\ queue # <<>> /\ Head(queue).op \in {"add", "modify", "delete"}
    /\ LET a == Head(queue) IN
        /\ memory' = IF Accepts(a) THEN [memory EXCEPT ![a.id] = IF a.op = "delete" THEN 0 ELSE a.n + 1]
                     ELSE memory
        /\ applied' = IF Accepts(a) THEN applied \cup {a.n} ELSE applied
        /\ pending' = IF Accepts(a) THEN Append(pending, [n |-> a.n, ok |-> TRUE]) ELSE pending
        /\ writing' = TRUE
    /\ queue' = Tail(queue)
    /\ UNCHANGED <<locked, turn, requests, answers>>

\* deleteItem of an item that is gone reads a property of undefined.
Perform ==
    /\ queue # <<>> /\ Head(queue).op \in {"add", "modify", "delete"}
    /\ LET a == Head(queue) IN
        IF a.op = "delete" /\ memory[a.id] = 0
        THEN Throw("none") /\ UNCHANGED <<memory, applied, pending>>
        ELSE /\ memory' = IF ~Accepts(a) THEN memory
                          ELSE [memory EXCEPT ![a.id] = IF a.op = "delete" THEN 0 ELSE a.n + 1]
             /\ applied' = IF Accepts(a) THEN applied \cup {a.n} ELSE applied
             /\ pending' = Append(pending, [n |-> a.n, ok |-> Accepts(a)])
             /\ writing' = TRUE
             /\ UNCHANGED <<turn, requests>>
    /\ queue' = Tail(queue)
    /\ UNCHANGED <<locked, answers>>

\* A calendar that is not locked answers at once.
Read ==
    /\ queue # <<>> /\ Head(queue).op = "get"
    /\ answers' = [answers EXCEPT ![Head(queue).n] = "read"]
    /\ queue' = Tail(queue)
    /\ UNCHANGED <<memory, applied, pending, writing, locked, turn, requests>>

\* The turn ends, but for the call of forceRefresh that may follow in it.
EndTurn(rest, lock) ==
    /\ locked' = lock
    /\ writing' = FALSE
    /\ IF turn = "then refresh"
       THEN queue' = Append(rest, Refresh(TRUE)) /\ turn' = IF lock THEN "none" ELSE "process"
       ELSE queue' = rest /\ turn' = "none"

\* asyncOpen throws for a local file that is not there.
NoFile == scheme = "file" /\ file.tag = 0

\* writeICS and makeBackup.  A refresh stays in the queue.
WriteICS ==
    \/ /\ EndTurn(queue, TRUE)
       /\ requests' = Append(requests, Begin(IF NoFile THEN "read" ELSE "backup", FALSE))
       /\ UNCHANGED <<pending, answers>>
    \/ /\ "disk" \in Disturbances
       /\ answers' = Told(TRUE) /\ pending' = <<>>
       /\ Throw("process")
       /\ UNCHANGED <<queue, locked>>

DoRefresh ==
    IF NoFile THEN Unlock(FALSE, turn) /\ queue' = Tail(queue) /\ UNCHANGED <<writing, requests>>
    ELSE /\ EndTurn(Tail(queue), TRUE)
         /\ requests' = Append(requests, Begin("get", Head(queue).force))
         /\ UNCHANGED <<pending, answers>>

EndLoop ==
    /\ queue # <<>> => Head(queue).op = "refresh"
    /\ IF writing THEN WriteICS
       ELSE IF queue # <<>> THEN DoRefresh
       ELSE EndTurn(queue, locked) /\ UNCHANGED <<requests, pending, answers>>
    /\ UNCHANGED <<memory, applied>>

ProcessQueue ==
    /\ turn # "none"
    /\ Perform \/ Read \/ EndLoop
    /\ UNCHANGED <<scheme, readOnly, clock, fileVars>>

-----------------------------------------------------------------------------
(* Loading the file *)

\* A request is over, or goes on as another.
Ends(k) == requests' = RemoveAt(requests, k)
Becomes(k, r) == requests' = [requests EXCEPT ![k] = r]
At(k, step) == turn = "none" /\ k \in DOMAIN requests /\ requests[k].step = step

\* onAfterGet: the file is the one that is known (304, or the same time), or there is
\* none (404).
NothingNew(k) == file.tag = 0 \/ (known = file.tag /\ ~requests[k].force)

\* onStreamComplete without an answer to parse.  An ordinary refresh may fail once
\* the file has been loaded.
KeepOldData(k) ==
    /\ At(k, "get")
    /\ NothingNew(k) \/ "noload" \in Disturbances \/ (known # 0 /\ ~requests[k].force)
    /\ Ends(k) /\ Unlock(FALSE, "process")
    /\ UNCHANGED <<scheme, memory, queue, writing, readOnly, clock, applied, fileVars>>

\* The answer has no bytes: the memory calendar is made anew.
LoadEmpty(k) ==
    /\ At(k, "get") /\ ~NothingNew(k) /\ file.items = Empty
    /\ known' = file.tag /\ base' = file.tag
    /\ memory' = Empty /\ applied' = {}
    /\ Ends(k) /\ Unlock(FALSE, "process")
    /\ UNCHANGED <<scheme, file, queue, writing, readOnly, clock, written>>

\* The tag of what is not a calendar: a page that a server sends with an error has none.
PageTags == IF scheme = "http" THEN {0, file.tag} ELSE {file.tag}

\* The bytes cannot be decoded: the old data stay, and the new tag.
Undecodable(k) ==
    /\ At(k, "get") /\ ~NothingNew(k) /\ "invalid" \in Disturbances
    /\ known' \in PageTags
    /\ readOnly' = TRUE
    /\ Ends(k) /\ Unlock(FALSE, "process")
    /\ UNCHANGED <<scheme, file, memory, queue, writing, clock, applied, base, written>>

\* Something to parse has come: the file, or (tag 0) what is not a calendar - a file
\* in some other format, or the page that a server sends with an error.
Downloaded(k) ==
    /\ At(k, "get") /\ ~NothingNew(k)
    /\ \/ /\ known' = file.tag
          /\ Becomes(k, [requests[k] EXCEPT !.step = "parse", !.items = file.items, !.tag = file.tag])
       \/ /\ "invalid" \in Disturbances
          /\ known' \in PageTags
          /\ Becomes(k, [requests[k] EXCEPT !.step = "parse"])
    /\ UNCHANGED <<scheme, file, memory, queue, locked, turn, writing, pending, readOnly, clock,
                   answers, applied, base, written>>

\* onParsingComplete does not look at the parser's status; without a calendar there are
\* no items.  Until onLoad the views have the items of the old memory calendar.
ParsingComplete(k) ==
    /\ At(k, "parse")
    /\ memory' = requests[k].items /\ applied' = {}
    /\ base' = IF requests[k].tag = 0 THEN base ELSE requests[k].tag
    /\ Ends(k) /\ Unlock(FALSE, "process")
    /\ UNCHANGED <<scheme, file, known, queue, writing, readOnly, clock, written>>

-----------------------------------------------------------------------------
(* Writing the file *)

\* onDownloadComplete, whether or not the file could be copied: doWriteICS.
BackupComplete(k) ==
    /\ At(k, "backup")
    /\ Becomes(k, [requests[k] EXCEPT !.step = "read"])
    /\ UNCHANGED <<scheme, memory, queue, locked, turn, writing, pending, readOnly, clock,
                   answers, applied, fileVars>>

\* Variant: local files are not looked at.
NotChangedEver == TRUE

\* onBeforePut.
NotChanged == scheme = "file" => known \in {0, file.tag}

\* The memory calendar has returned its items, in a later turn: the upload begins.
StartPut(k) ==
    /\ At(k, "read") /\ NotChanged
    /\ Becomes(k, [requests[k] EXCEPT !.step = "put", !.items = memory, !.ops = applied])
    /\ UNCHANGED <<scheme, memory, queue, locked, turn, writing, pending, readOnly, clock,
                   answers, applied, fileVars>>

\* It does not: the file has been changed, or the channel cannot be opened and the
\* file is loaded again.
GiveUpPut(k) ==
    /\ At(k, "read")
    /\ Ends(k)
    /\ \/ ~NotChanged /\ Unlock(TRUE, "process")
       \/ NotChanged /\ "failures" \in Disturbances /\ Unlock(TRUE, "then refresh")
    /\ readOnly' = TRUE
    /\ UNCHANGED <<scheme, memory, queue, writing, clock, applied, fileVars>>

\* The server (external) compares the tag it is given, if it is given one.
Accepted == scheme = "http" => known \in {0, file.tag}

Store(k) ==
    /\ file' = [items |-> requests[k].items, tag |-> file.tag + 1]
    /\ written' = written \cup requests[k].ops

\* onStopRequest and onAfterPut: the new tag comes with the answer, from the disk, or is
\* asked for.
PutSucceeds(k) ==
    /\ At(k, "put") /\ Accepted
    /\ Store(k) /\ base' = file'.tag
    /\ \/ /\ known' = file'.tag
          /\ Ends(k) /\ Unlock(FALSE, IF scheme = "http" THEN "try" ELSE "process")
       \/ /\ scheme = "http"
          /\ Becomes(k, Begin("etag", FALSE))
          /\ UNCHANGED <<known, locked, turn, pending, answers>>
    /\ UNCHANGED <<scheme, memory, queue, writing, readOnly, clock, applied>>

\* Variant: what a failed upload leaves in the memory calendar stays there.
PutFailsOnly(k) ==
    /\ At(k, "put")
    /\ ~Accepted \/ "failures" \in Disturbances
    /\ UNCHANGED <<file, written>>
    /\ readOnly' = TRUE
    /\ Ends(k) /\ Unlock(TRUE, "process")
    /\ UNCHANGED <<scheme, known, memory, queue, writing, clock, applied, base>>

\* Variant: the lock is given back without the error.
PutFailsUntold(k) ==
    /\ At(k, "put")
    /\ ~Accepted \/ "failures" \in Disturbances
    /\ UNCHANGED <<file, written, base>>
    /\ readOnly' = TRUE
    /\ queue' = Append(queue, Refresh(TRUE))
    /\ Ends(k) /\ Unlock(FALSE, "process")
    /\ UNCHANGED <<scheme, known, memory, writing, clock, applied>>

\* onStopRequest with an error: the file was not stored, or was and nobody knows.
PutFails(k) ==
    /\ At(k, "put")
    /\ \/ /\ ~Accepted \/ "failures" \in Disturbances
          /\ UNCHANGED <<file, base, written>>
       \/ Accepted /\ "failures" \in Disturbances /\ Store(k) /\ base' = file'.tag
    /\ readOnly' = TRUE
    /\ queue' = Append(queue, Refresh(TRUE))
    /\ Ends(k) /\ Unlock(TRUE, "process")
    /\ UNCHANGED <<scheme, known, memory, writing, clock, applied>>

\* The answer to PROPFIND.  If it is not XML an exception keeps the rest from happening.
EtagAnswered(k) ==
    /\ At(k, "etag")
    /\ Ends(k)
    /\ \/ known' \in {file.tag, NoTag} /\ Unlock(FALSE, "process")
       \/ "nodav" \in Disturbances /\ UNCHANGED <<known, locked, turn, pending, answers>>
    /\ UNCHANGED <<scheme, file, memory, queue, writing, readOnly, clock, applied, base, written>>

-----------------------------------------------------------------------------
(* Other clients (external) *)

TagUnknown ==
    \E k \in DOMAIN requests :
        requests[k].step = "etag" \/ (requests[k].step = "put" /\ scheme = "file")

\* Another client adds, changes or removes an item of the file.
OtherWrites(i) ==
    /\ "others" \in Disturbances
    /\ turn = "none" /\ clock < MaxOps /\ clock' = Number
    /\ known # 0 \/ "early" \in Disturbances
    /\ TagUnknown => "window" \in Disturbances
    /\ \E v \in {0, Number + 1} \ {file.items[i]} :
           file' = [items |-> [file.items EXCEPT ![i] = v], tag |-> file.tag + 1]
    /\ UNCHANGED <<scheme, known, memory, queue, locked, turn, writing, pending, requests,
                   readOnly, answers, applied, base, written>>

UserAsks ==
    \/ \E i \in Items : AdoptItem(i) \/ ModifyItem(i) \/ DeleteItem(i)
    \/ GetItems \/ AskRefresh \/ MakeWritable

Progress ==
    \E k \in DOMAIN requests :
        \/ KeepOldData(k) \/ LoadEmpty(k) \/ Undecodable(k) \/ Downloaded(k) \/ ParsingComplete(k)
        \/ BackupComplete(k) \/ StartPut(k) \/ GiveUpPut(k)
        \/ PutSucceeds(k) \/ PutFails(k) \/ EtagAnswered(k)

Next == UserAsks \/ ProcessQueue \/ Progress \/ \E i \in Items : OtherWrites(i)

\* Requests to the disk and to servers end, if only by a timeout, and the thread runs.
Fairness == WF_vars(ProcessQueue) /\ WF_vars(Progress)

Spec == Init /\ [][Next]_vars /\ Fairness

-----------------------------------------------------------------------------
(* Properties *)

\* The calendar is locked exactly while one request for the file is under way
\* (lock, 587, called at 212 and 324; unlock, 591): no path of the loading and the writing keeps
\* the lock or gives it back early, so no two of them ever run together and nothing
\* waits for an end that does not come.
LockHeld == Len(requests) = IF locked THEN 1 ELSE 0

\* A listener is told of a success only when its change has been part of the file
\* (unlock, 594-608): not when the memory calendar has it and not by the end of a
\* request that it did not wait for.
SuccessWritten == \A n \in Ops : answers[n] = "ok" => n \in written

\* The file is only replaced by one made from it (onBeforePut, 979-988 and 1093-1100):
\* what another client has written since is never overwritten unseen.
OthersKept == [][file' # file /\ clock' = clock => base = file.tag]_vars

\* "not good for invalid files.  That's why we put them in readOnly mode" (287-289): a
\* calendar that is not read only never replaces a file that it could not read.
InvalidKept ==
    [][file' # file /\ clock' = clock /\ ~readOnly => base = file.tag]_vars

\* When nothing is to be done and the file is the one whose tag is known, the memory
\* calendar holds what the file holds (forceRefresh after a failure, 389 and 461): what
\* could not be written is not shown for long.
InSync ==
    turn = "none" /\ ~locked /\ known = file.tag /\ file.tag # 0 => memory = file.items

\* Whoever asks is answered, in spite of failing downloads and uploads (calICalendar.idl
\* 376-377 and 399-400: "The results of the operation are reported through an
\* onOperationComplete call on the listener").
Answered == \A n \in Ops : answers[n] = "waiting" ~> answers[n] \in {"ok", "failed", "read"}

\* "the PUT has failed, refresh, and signal error to all modifying operations"
\* (calICSCalendar.js:460): a change whose listener heard of an error is not written
\* afterwards.
FailedNotWritten == [][\A n \in Ops : answers[n] = "failed" /\ n \in written' => n \in written]_vars
=============================================================================
