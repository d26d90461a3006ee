--------------------------- MODULE OfflineStorage ---------------------------
(***************************************************************************)
(* The cache database behind an offline-capable calendar:                  *)
(* calendar/providers/storage/calStorageCalendar.js, in the relaxed mode   *)
(* calCachedCalendar.js:202 sets.  Every item has one row, and the row's   *)
(* offline_journal column remembers what the user did to the item while    *)
(* the server could not be told.                                           *)
(*                                                                         *)
(* The writes are synchronous, but the column is READ asynchronously:      *)
(* modifyItem, modifyOfflineItem and deleteOfflineItem post a SELECT to    *)
(* the database thread and do their work in its completion callback, with  *)
(* the value that was read.  Everything between the read and the callback  *)
(* is an interleaving this module makes explicit.                          *)
(***************************************************************************)
EXTENDS Naturals, Sequences

CONSTANTS
    Items,       \* item ids
    MaxVersion,  \* bound: contents written in one behaviour
    MaxLookups,  \* bound: flag lookups outstanding at once
    Serial,      \* TRUE: no caller touches an item that has a lookup pending
    TornFlags    \* TRUE: the process may also die while a row with a flag is rewritten

ASSUME StorageConstants ==
    /\ MaxVersion \in Nat \ {0}
    /\ MaxLookups \in Nat \ {0}
    /\ Serial \in BOOLEAN
    /\ TornFlags \in BOOLEAN

VARIABLES
    rows,     \* the table: content version (0: no row) and offline_journal
    lookups,  \* FIFO of asynchronous offline_journal reads and what they are for
    clock,    \* contents written so far
    owed      \* history: the flag each item's caller was last told is stored

vars == <<rows, lookups, clock, owed>>

Flags == {"none", "created", "modified", "deleted"}

Unread == "unread"

\* The flag is a column: without a row there is none.
Row == {r \in [ver : 0 .. MaxVersion, flag : Flags] : r.ver = 0 => r.flag = "none"}

NoRow == [ver |-> 0, flag |-> "none"]

\* "modify": modifyItem; "mark": modifyOfflineItem; "remove": deleteOfflineItem.
\* chain: the listener of a "modify" goes on to call modifyOfflineItem, as
\* calCachedCalendar's modifyOfflineItem makes it do.
Lookup ==
    {l \in [op : {"modify", "mark", "remove"}, item : Items, ver : 0 .. MaxVersion,
            chain : BOOLEAN, seen : Flags \cup {Unread}] : l.op = "modify" => l.ver # 0}

TypeOK ==
    /\ rows \in [Items -> Row]
    /\ lookups \in Seq(Lookup)
    /\ clock \in 0 .. MaxVersion
    /\ owed \in [Items -> Flags]

Init ==
    /\ rows = [i \in Items |-> NoRow]
    /\ lookups = <<>>
    /\ clock = 0
    /\ owed = [i \in Items |-> "none"]

-----------------------------------------------------------------------------
(* Helpers *)

Present(i) == rows[i].ver # 0

Busy(i) == \E k \in 1 .. Len(lookups) : lookups[k].item = i

\* What a caller that waits for its own operations may do to item i now.
MayTouch(i) == Serial => ~Busy(i)

\* getItemOfflineFlag: post the SELECT; the callback runs later.
PostLookup(op, i, v, chain) ==
    /\ Len(lookups) < MaxLookups
    /\ lookups' = Append(lookups, [op |-> op, item |-> i, ver |-> v,
                                   chain |-> chain, seen |-> Unread])

\* flushItem: delete the row and insert the new one, whose column is null.
Flushed(v) == [ver |-> v, flag |-> "none"]

\* setOfflineJournalFlag: an UPDATE, so a missing row stays missing.
WithFlag(row, f) == IF row.ver = 0 THEN row ELSE [row EXCEPT !.flag = f]

\* Variant: a creation or a deletion on record is replaced.
AfterModifyOverwriting(row, seen) == WithFlag(row, "modified")

\* modifyOfflineItem's callback, given the flag that was read.
AfterModifyOffline(row, seen) ==
    IF seen \in {"created", "deleted"} THEN row ELSE WithFlag(row, "modified")

\* Variant: the record of an item that never reached the server outlives its row.
AfterDeleteKeepingFlag(row, seen) ==
    IF seen = "created" THEN [row EXCEPT !.ver = 0]
    ELSE IF seen = "deleted" THEN row
    ELSE WithFlag(row, "deleted")

\* deleteOfflineItem's callback, given the flag that was read.
AfterDeleteOffline(row, seen) ==
    IF seen = "created" THEN NoRow
    ELSE IF seen = "deleted" THEN row
    ELSE WithFlag(row, "deleted")

\* What getItems returns for an offline filter.
Selected(filter) == {i \in Items : Present(i) /\ rows[i].flag = filter}

\* One row is written, and the caller may take it that the flag told is stored.
Store(i, row, told) ==
    /\ rows' = [rows EXCEPT ![i] = row]
    /\ owed' = [owed EXCEPT ![i] = told]

\* deleteCalendar: every row goes.
Wipe ==
    /\ rows' = [i \in Items |-> NoRow]
    /\ owed' = [i \in Items |-> "none"]

-----------------------------------------------------------------------------
(* Synchronous operations *)

\* adoptItem by a caller that does not go on to mark the item (an online add,
\* a replay from the server, the refill after a full sync).
AdoptItem(i) ==
    /\ MayTouch(i) /\ clock < MaxVersion
    /\ clock' = clock + 1
    /\ Store(i, Flushed(clock'), "none")
    /\ UNCHANGED lookups

\* calCachedCalendar's adoptOfflineItem: adoptItem, then addOfflineItem from
\* its listener, in one turn of the main thread.
AdoptOfflineItem(i) ==
    /\ MayTouch(i) /\ clock < MaxVersion
    /\ clock' = clock + 1
    /\ Store(i, WithFlag(Flushed(clock'), "created"), "created")
    /\ UNCHANGED lookups

\* modifyItem without an old item: there is nothing to look up, the flag
\* passed on is null, and the row is overwritten in any case.
OverwriteItem(i) ==
    /\ MayTouch(i) /\ clock < MaxVersion
    /\ clock' = clock + 1
    /\ Store(i, WithFlag(Flushed(clock'), "none"), "none")
    /\ UNCHANGED lookups

DeleteItem(i) ==
    /\ MayTouch(i)
    /\ Store(i, NoRow, "none")
    /\ UNCHANGED <<lookups, clock>>

ResetItemOfflineFlag(i) ==
    /\ MayTouch(i)
    /\ Store(i, WithFlag(rows[i], "none"), "none")
    /\ UNCHANGED <<lookups, clock>>

DeleteCalendar ==
    /\ \A i \in Items : MayTouch(i)
    /\ Wipe
    /\ UNCHANGED <<lookups, clock>>

-----------------------------------------------------------------------------
(* Asynchronous operations: the request, the read, the callback *)

\* modifyItem with an old item, which its caller got from this table; chain when
\* the caller is modifyOfflineItem of the cached calendar.
ModifyItem(i, chain) ==
    /\ Present(i) /\ MayTouch(i) /\ clock < MaxVersion
    /\ clock' = clock + 1
    /\ PostLookup("modify", i, clock', chain)
    /\ UNCHANGED <<rows, owed>>

DeleteOfflineItem(i) ==
    /\ Present(i) /\ MayTouch(i)
    /\ PostLookup("remove", i, 0, FALSE)
    /\ UNCHANGED <<rows, clock, owed>>

\* Variant: the result row is never looked at.
ReadFlagBlind ==
    \E k \in 1 .. Len(lookups) :
        /\ lookups[k].seen = Unread
        /\ \A j \in 1 .. (k - 1) : lookups[j].seen # Unread
        /\ lookups' = [lookups EXCEPT ![k].seen = "none"]
        /\ UNCHANGED <<rows, clock, owed>>

\* The database thread runs the oldest SELECT that has not run yet.
ReadFlag ==
    \E k \in 1 .. Len(lookups) :
        /\ lookups[k].seen = Unread
        /\ \A j \in 1 .. (k - 1) : lookups[j].seen # Unread
        /\ lookups' = [lookups EXCEPT ![k].seen = rows[lookups[k].item].flag]
        /\ UNCHANGED <<rows, clock, owed>>

Answered(op) == lookups # <<>> /\ Head(lookups).op = op /\ Head(lookups).seen # Unread

\* Variant: doModifyItem without the flag, the state before the fix that
\* calStorageCalendar.js:493 calls a hack.
DoModifyForgetting ==
    /\ Answered("modify")
    /\ LET l == Head(lookups) IN
        /\ rows' = [rows EXCEPT ![l.item] = Flushed(l.ver)]
        /\ lookups' = IF l.chain
                        THEN Append(Tail(lookups), [l EXCEPT !.op = "mark", !.seen = Unread])
                        ELSE Tail(lookups)
    /\ UNCHANGED <<clock, owed>>

\* doModifyItem: rewrite the row, put the flag that was read back, tell the
\* listener - which may ask for the item to be marked.
DoModifyItem ==
    /\ Answered("modify")
    /\ LET l == Head(lookups) IN
        /\ rows' = [rows EXCEPT ![l.item] = WithFlag(Flushed(l.ver), l.seen)]
        /\ lookups' = IF l.chain
                        THEN Append(Tail(lookups), [l EXCEPT !.op = "mark", !.seen = Unread])
                        ELSE Tail(lookups)
    /\ UNCHANGED <<clock, owed>>

FinishModifyOfflineItem ==
    /\ Answered("mark")
    /\ LET l == Head(lookups) IN
        /\ rows' = [rows EXCEPT ![l.item] = AfterModifyOffline(rows[l.item], l.seen)]
        /\ owed' = [owed EXCEPT ![l.item] = rows'[l.item].flag]
    /\ lookups' = Tail(lookups)
    /\ UNCHANGED clock

FinishDeleteOfflineItem ==
    /\ Answered("remove")
    /\ LET l == Head(lookups) IN
        /\ rows' = [rows EXCEPT ![l.item] = AfterDeleteOffline(rows[l.item], l.seen)]
        /\ owed' = [owed EXCEPT ![l.item] = rows'[l.item].flag]
    /\ lookups' = Tail(lookups)
    /\ UNCHANGED clock

-----------------------------------------------------------------------------
(* The process ends: callbacks are lost, committed rows are not *)

\* Quit or crash between two turns of the main thread.
Restart ==
    /\ lookups' = <<>>
    /\ UNCHANGED <<rows, clock, owed>>

\* The process dies between the statements that rewrite one row and put its
\* flag back; what the item's caller was told before still holds for him.
Torn(i, row) ==
    /\ TornFlags \/ rows[i].flag = "none"
    /\ rows' = [rows EXCEPT ![i] = row]
    /\ lookups' = <<>>
    /\ UNCHANGED owed

\* A crash inside adoptOfflineItem, between its two UPDATEs: the row is there,
\* the mark is not, and the caller was told nothing.
CrashInAdoptOffline(i) ==
    /\ MayTouch(i) /\ clock < MaxVersion
    /\ clock' = clock + 1
    /\ Torn(i, Flushed(clock'))

\* A crash inside doModifyItem: after deleteItemById's own transaction, or
\* after flushItem's and before setOfflineJournalFlag.
CrashInDoModify ==
    /\ Answered("modify")
    /\ LET l == Head(lookups) IN \E row \in {NoRow, Flushed(l.ver)} : Torn(l.item, row)
    /\ UNCHANGED clock

Next ==
    \/ \E i \in Items : AdoptItem(i)
    \/ \E i \in Items : AdoptOfflineItem(i)
    \/ \E i \in Items : OverwriteItem(i)
    \/ \E i \in Items : DeleteItem(i)
    \/ \E i \in Items : ResetItemOfflineFlag(i)
    \/ DeleteCalendar
    \/ \E i \in Items, chain \in BOOLEAN : ModifyItem(i, chain)
    \/ \E i \in Items : DeleteOfflineItem(i)
    \/ ReadFlag
    \/ DoModifyItem
    \/ FinishModifyOfflineItem
    \/ FinishDeleteOfflineItem
    \/ Restart
    \/ \E i \in Items : CrashInAdoptOffline(i)
    \/ CrashInDoModify

Spec == Init /\ [][Next]_vars

-----------------------------------------------------------------------------
(* Properties *)

\* The strengthening behind everything below: while callers wait for their own
\* operations an item has at most one lookup, and what a lookup has read is
\* still what the column holds when its callback acts on it
\* (calStorageCalendar.js:498-501 and 1035-1047 assume so).
LookupsCurrent ==
    \A k \in 1 .. Len(lookups) :
        /\ lookups[k].seen # Unread => lookups[k].seen = rows[lookups[k].item].flag
        /\ \A j \in 1 .. Len(lookups) : lookups[j].item = lookups[k].item => j = k

\* An offline change whose caller was told it is stored is in the journal as
\* what the caller was told, over later modifications, restarts and crashes, until
\* it is reset, overwritten, replaced or deleted (calStorageCalendar.js:493-515,
\* which takes care to keep the flag).  Not so when the process may die while a
\* row with a flag is rewritten (TornFlags): 578 and 579 are no transaction.
OwedStored == \A i \in Items : owed[i] # "none" => Present(i) /\ rows[i].flag = owed[i]

\* The flags move as the journal of OfflineJournal.tla allows: a deletion never
\* turns into a modification, a creation never into a modification or deletion
\* of something the server has never seen.
Journal == INSTANCE OfflineJournal WITH journal <- [i \in Items |-> rows[i].flag]

JournalRefined == Journal!Spec

\* calIChangeLog.idl:93 says of this calendar that "All modifying commands return
\* after the modification has been performed": then no row comes back after its
\* deletion unless a new request writes it.
NoResurrection ==
    [][\A i \in Items : ~Present(i) /\ rows'[i].ver # 0 => clock' # clock]_vars
=============================================================================
