---------------------------- MODULE CalTransaction ----------------------------
(***************************************************************************)
(* calendar/base/src/calTransactionManager.js: what the user does to items *)
(* as transactions that can be undone and redone.                          *)
(*                                                                         *)
(* The stacks are those of nsTransactionManager.cpp.  It takes a           *)
(* transaction for done when doTransaction() returns; but the calendars    *)
(* answer later, and a transaction learns from the answers what its items  *)
(* have become.  Moving an item to another calendar is two operations.     *)
(*                                                                         *)
(* The calendars are of two kinds, both in strict mode and neither a       *)
(* cache: storage calendars (calStorageCalendar.js) and calendars over a   *)
(* memory calendar (calMemoryCalendar.js; an ICS file is one, and answers  *)
(* when it has got its lock and has been written).  Answers to operations  *)
(* that are outstanding together come in any order; an answer that comes   *)
(* at once is one that is the next step.                                   *)
(***************************************************************************)
EXTENDS Naturals, Sequences, SequencesExt

CONSTANTS
    Items,        \* item ids
    Cals,         \* calendars
    MemoryCals,   \* those over a memory calendar; the others are storage calendars
    MaxTxns,      \* bound: transactions the user starts
    MaxCalls,     \* bound: operations outstanding at once
    Disturbances  \* what may go wrong

\* "refusals": a calendar may refuse an operation for reasons of its own;
\* "impatient": the user does not wait for the answers before the next command.
ASSUME TransactionConstants ==
    /\ MemoryCals \subseteq Cals
    /\ MaxTxns \in Nat \ {0} /\ MaxCalls \in Nat \ {0, 1}
    /\ Disturbances \subseteq {"refusals", "impatient"}

NoCal == "none"
ASSUME CalendarNames == NoCal \notin Cals

VARIABLES
    cals,     \* the calendars' contents
    txns,     \* the transactions, in the order of their creation
    undos,    \* mUndoStack and
    redos,    \* mRedoStack, as indices of txns
    calls,    \* operations that have not been answered
    wanted,   \* history: where, and with what content, the user wants each item
    refused   \* history: an operation was refused

vars == <<cals, txns, undos, redos, calls, wanted, refused>>

Versions == 0 .. MaxTxns + 1

\* An item as a calendar has it, and as a transaction has it.
Stored == [ver : Versions, gen : Nat]
Gone == [ver |-> 0, gen |-> 0]
Item == [cal : Cals \cup {NoCal}, ver : Versions, gen : Nat]
NoItem == [cal |-> NoCal, ver |-> 0, gen |-> 0]
Place == [cal : Cals \cup {NoCal}, ver : Versions]
Nowhere == [cal |-> NoCal, ver |-> 0]

Txn == [action : {"add", "modify", "delete"}, id : Items, cal : Cals,
        item : Item, old : Item, oldCal : Cals \cup {NoCal}, isDo : BOOLEAN,
        was : Place, is : Place]

\* then: the addListener of a move, or the transaction itself.
Call == [op : {"add", "modify", "delete"}, cal : Cals, id : Items, item : Item, old : Item,
         txn : 1 .. MaxTxns, then : {"done", "deleteOld"}]

TypeOK ==
    /\ cals \in [Cals -> [Items -> Stored]]
    /\ txns \in Seq(Txn) /\ Len(txns) <= MaxTxns
    /\ undos \in Seq(DOMAIN txns) /\ redos \in Seq(DOMAIN txns)
    /\ IsInjective(undos \o redos)
    /\ calls \in Seq(Call) /\ Len(calls) <= MaxCalls
    /\ wanted \in [Items -> Place]
    /\ refused \in BOOLEAN

\* Some items are there, each in one calendar.
Init ==
    /\ wanted \in [Items -> [cal : Cals, ver : {1}] \cup {Nowhere}]
    /\ cals = [c \in Cals |-> [i \in Items |->
                 IF wanted[i].cal = c THEN [ver |-> 1, gen |-> 0] ELSE Gone]]
    /\ txns = <<>> /\ undos = <<>> /\ redos = <<>> /\ calls = <<>>
    /\ refused = FALSE

-----------------------------------------------------------------------------
(* What a transaction asks of the calendars *)

Ask(op, cal, t, id, item, old) ==
    [op |-> op, cal |-> cal, id |-> id, item |-> item, old |-> old, txn |-> t, then |-> "done"]

Moves(x) == x.action = "modify" /\ x.item.cal # x.old.cal

\* Variant: a move deletes the old item without waiting for the new one.
DoCallsAtOnce(t, x) ==
    IF Moves(x) THEN <<Ask("add", x.cal, t, x.id, x.item, NoItem),
                       Ask("delete", x.old.cal, t, x.id, x.old, NoItem)>>
    ELSE <<Ask(x.action, x.cal, t, x.id, x.item, x.old)>>

\* doTransaction: a move adds, and deletes when it hears that it has added.
DoCalls(t, x) ==
    IF Moves(x) THEN <<[Ask("add", x.cal, t, x.id, x.item, NoItem) EXCEPT !.then = "deleteOld"]>>
    ELSE <<Ask(x.action, x.cal, t, x.id, x.item, x.old)>>

Done(x) == [x EXCEPT !.isDo = TRUE, !.oldCal = IF Moves(x) THEN x.old.cal ELSE @]

\* Variant: the item is modified to what it was modified to before.
UndoCallsForward(t, x) ==
    IF x.action = "add" THEN <<Ask("delete", x.cal, t, x.id, x.item, NoItem)>>
    ELSE IF x.action = "delete" THEN <<Ask("add", x.cal, t, x.id, x.item, NoItem)>>
    ELSE IF Moves(x) THEN <<Ask("delete", x.cal, t, x.id, x.item, NoItem),
                            Ask("add", x.oldCal, t, x.id, x.old, NoItem)>>
    ELSE <<Ask("modify", x.cal, t, x.id, x.item, x.item)>>

\* undoTransaction: of a move, both operations at once.
UndoCalls(t, x) ==
    IF x.action = "add" THEN <<Ask("delete", x.cal, t, x.id, x.item, NoItem)>>
    ELSE IF x.action = "delete" THEN <<Ask("add", x.cal, t, x.id, x.item, NoItem)>>
    ELSE IF Moves(x) THEN <<Ask("delete", x.cal, t, x.id, x.item, NoItem),
                            Ask("add", x.oldCal, t, x.id, x.old, NoItem)>>
    ELSE <<Ask("modify", x.cal, t, x.id, x.old, x.item)>>

Undone(x) == [x EXCEPT !.isDo = FALSE]

-----------------------------------------------------------------------------
(* The user *)

MayAct == "impatient" \in Disturbances \/ calls = <<>>

Give(cs) == Len(calls) + Len(cs) <= MaxCalls /\ calls' = calls \o cs

\* createAndCommitTxn; nsTransactionManager pushes it and clears the redo stack.
Commit(action, i, cal, item, old, is) ==
    LET x == [action |-> action, id |-> i, cal |-> cal, item |-> item, old |-> old,
              oldCal |-> NoCal, isDo |-> FALSE, was |-> wanted[i], is |-> is]
        t == Len(txns) + 1 IN
    /\ MayAct /\ t <= MaxTxns
    /\ txns' = Append(txns, Done(x))
    /\ Give(DoCalls(t, x))
    /\ undos' = Append(undos, t)
    /\ redos' = <<>>
    /\ wanted' = [wanted EXCEPT ![i] = is]
    /\ UNCHANGED <<cals, refused>>

\* The content a new transaction writes.
NewVersion == Len(txns) + 2

\* The item as the views have it from the calendar.
Seen(i, c) == [cal |-> c, ver |-> cals[c][i].ver, gen |-> cals[c][i].gen]
Present(i, c) == cals[c][i] # Gone

\* A new item has an id of its own.
Add(i, c) ==
    LET item == [cal |-> c, ver |-> NewVersion, gen |-> 0] IN
    /\ wanted[i] = Nowhere /\ \A t \in DOMAIN txns : txns[t].id # i
    /\ Commit("add", i, c, item, NoItem, [cal |-> c, ver |-> NewVersion])

\* Change an item, and perhaps its calendar, in the event dialog.
Modify(i, c, to) ==
    LET item == [cal |-> to, ver |-> NewVersion, gen |-> cals[c][i].gen] IN
    /\ Present(i, c)
    /\ Commit("modify", i, to, item, Seen(i, c), [cal |-> to, ver |-> NewVersion])

Delete(i, c) ==
    /\ Present(i, c)
    /\ Commit("delete", i, c, Seen(i, c), NoItem, Nowhere)

Undo ==
    /\ MayAct /\ undos # <<>>
    /\ LET t == Last(undos) IN
        /\ txns' = [txns EXCEPT ![t] = Undone(@)]
        /\ Give(UndoCalls(t, txns[t]))
        /\ undos' = Front(undos)
        /\ redos' = Append(redos, t)
        /\ wanted' = [wanted EXCEPT ![txns[t].id] = txns[t].was]
    /\ UNCHANGED <<cals, refused>>

\* Variant: the transaction stays on the redo stack.
RedoKeeping ==
    /\ MayAct /\ redos # <<>>
    /\ LET t == Last(redos) IN
        /\ txns' = [txns EXCEPT ![t] = Done(@)]
        /\ Give(DoCalls(t, txns[t]))
        /\ undos' = Append(undos, t)
        /\ wanted' = [wanted EXCEPT ![txns[t].id] = txns[t].is]
    /\ UNCHANGED <<cals, refused, redos>>

Redo ==
    /\ MayAct /\ redos # <<>>
    /\ LET t == Last(redos) IN
        /\ txns' = [txns EXCEPT ![t] = Done(@)]
        /\ Give(DoCalls(t, txns[t]))
        /\ undos' = Append(undos, t)
        /\ redos' = Front(redos)
        /\ wanted' = [wanted EXCEPT ![txns[t].id] = txns[t].is]
    /\ UNCHANGED <<cals, refused>>

-----------------------------------------------------------------------------
(* The calendars *)

\* A storage calendar refuses to add an id it has, and to modify an item that it
\* has not or that is of another generation.  It deletes anything.
StorageAccepts(call, stored) ==
    /\ call.op = "add" => stored = Gone
    /\ call.op = "modify" => stored # Gone /\ call.old.gen = stored.gen

\* A memory calendar adds anything; it compares the generation of what it deletes,
\* and the content, too, of what it modifies.
MemoryAccepts(call, stored) ==
    /\ call.op = "modify" => stored = [ver |-> call.old.ver, gen |-> call.old.gen]
    /\ call.op = "delete" => stored # Gone /\ call.item.gen = stored.gen

Accepts(call) ==
    LET stored == cals[call.cal][call.id] IN
    IF call.cal \in MemoryCals THEN MemoryAccepts(call, stored)
    ELSE StorageAccepts(call, stored)

\* doModifyItem counts up when the new item has the old one's generation.
Result(call) ==
    [call.item EXCEPT !.cal = call.cal,
                      !.gen = IF call.op = "modify" /\ @ = call.old.gen THEN @ + 1 ELSE @]

Contents(call) ==
    IF call.op = "delete" THEN Gone ELSE [ver |-> Result(call).ver, gen |-> Result(call).gen]

\* Variant: the transaction keeps the items it was made with.
LearnNothing(x, call) == x

\* onOperationComplete: the item as the calendar has it replaces the one the
\* transaction had - which of the two depends on what is being done by now.
Learn(x, call) ==
    IF call.op = "delete" THEN x
    ELSE IF x.isDo THEN [x EXCEPT !.item = Result(call)]
    ELSE [x EXCEPT !.old = Result(call)]

\* The addListener of a move.
Follow(x, call) ==
    IF call.then = "deleteOld"
    THEN <<Ask("delete", x.old.cal, call.txn, x.id, x.old, NoItem)>> ELSE <<>>

Succeed ==
    \E k \in DOMAIN calls :
        LET call == calls[k]
            x == Learn(txns[call.txn], call) IN
        /\ Accepts(call)
        /\ cals' = [cals EXCEPT ![call.cal][call.id] = Contents(call)]
        /\ txns' = [txns EXCEPT ![call.txn] = x]
        /\ calls' = RemoveAt(calls, k) \o Follow(x, call)
        /\ UNCHANGED <<undos, redos, wanted, refused>>

\* A failure is reported to the listener of the transaction; nothing else.
Fail ==
    \E k \in DOMAIN calls :
        /\ ~Accepts(calls[k]) \/ "refusals" \in Disturbances
        /\ calls' = RemoveAt(calls, k)
        /\ refused' = TRUE
        /\ UNCHANGED <<cals, txns, undos, redos, wanted>>

Next ==
    \/ \E i \in Items, c \in Cals : Add(i, c) \/ Delete(i, c)
    \/ \E i \in Items, c, to \in Cals : Modify(i, c, to)
    \/ Undo \/ Redo
    \/ Succeed \/ Fail

Spec == Init /\ [][Next]_vars

-----------------------------------------------------------------------------
(* Properties *)

\* Undo restores what the transaction found and redo what it made, over any
\* sequence of transactions on the same items, moves included: when everything
\* is answered the calendars hold what the user wants, each item once - as long as
\* no calendar refused anything.
Restored ==
    calls = <<>> /\ ~refused =>
        \A i \in Items, c \in Cals :
            cals[c][i].ver = IF wanted[i].cal = c THEN wanted[i].ver ELSE 0

\* A transaction's items are current whenever it uses them: its operations are not
\* refused for a generation or a content that is not the stored one, for an id that
\* exists or for one that does not.
NothingStale ==
    ~refused => \A k \in DOMAIN calls : Accepts(calls[k])

Somewhere(i) == \E c \in Cals : Present(i, c)

\* Moving an item - not taking the move back - never loses it, whichever of its two
\* operations is refused (calTransactionManager.js:237-240 waits for the first).
MoveKeepsItem ==
    [][\A i \in Items : Somewhere(i) /\ ~Somewhere(i)' =>
         \E k \in DOMAIN calls :
            LET x == txns[calls[k].txn] IN
            x.id = i /\ calls[k].op = "delete" /\ (x.isDo => x.action = "delete")]_vars

\* calITransactionManager.idl:57-58 says of a move "Move an item from one calendar to
\* the next": when everything is answered, an item that was never added or deleted,
\* only changed and moved, is in some calendar.
ItemKept ==
    calls = <<>> =>
        \A i \in Items :
            wanted[i] # Nowhere /\ (\A t \in DOMAIN txns : txns[t].id = i => txns[t].action = "modify")
            => Somewhere(i)
=============================================================================
