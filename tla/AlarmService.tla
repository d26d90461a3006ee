---------------------------- MODULE AlarmService ----------------------------
(***************************************************************************)
(* calendar/base/src/calAlarmService.js and the list of ringing alarms     *)
(* calAlarmMonitor.js keeps for the alarm window, for one calendar whose   *)
(* items have one alarm each.                                              *)
(*                                                                         *)
(* The service sets timers for the alarms of the next Interval only and    *)
(* searches the calendar again when the interval is over, for the items    *)
(* from the end of the last interval on.  What makes an alarm ring at all  *)
(* is that between an item's notifications, the periodic search, the       *)
(* reloads of the calendar and the user's answers somebody always feels    *)
(* responsible for it.                                                     *)
(*                                                                         *)
(* Time is counted in ticks; timers fire at their time or, when the        *)
(* program is busy or the machine asleep, later.  The calendar answers a   *)
(* getItems in a later turn with what it holds then, as the storage        *)
(* provider does.                                                          *)
(***************************************************************************)
EXTENDS Integers, Sequences

CONSTANTS
    Items,      \* item ids
    Interval,   \* kHoursBetweenUpdates
    Month,      \* how far a search looks around
    Lengths,    \* how long an item may last
    Offsets,    \* when its alarm may be, counted from its start: before it, if negative
    Snoozes,    \* the durations the user may choose, {} if he never snoozes
    MaxTime,    \* bound: the last tick
    MaxGets     \* bound: searches outstanding at once

\* "they'll miss some, but that's a slim chance" (calAlarmService.js:288-290)
\* speaks of alarms set longer ahead of their items.
ASSUME AlarmConstants ==
    /\ Interval \in Nat \ {0} /\ Month \in Nat /\ Interval < Month
    /\ Lengths \subseteq Nat
    /\ Offsets \subseteq Int /\ \A offset \in Offsets : Interval - Month < offset
    /\ Snoozes \subseteq Nat \ {0}
    /\ MaxTime \in Nat \ {0} /\ MaxGets \in Nat \ {0}

VARIABLES
    now,        \* the clock
    store,      \* the calendar: content per item
    suppressed, \* the calendar's "suppressAlarms" or "disabled"
    rangeEnd,   \* mRangeEnd
    nextUpdate, \* when mUpdateTimer is due
    gets,       \* getItems calls that have not been answered
    loaded,     \* mLoadedCalendars has the calendar
    bells       \* per item: its timer in mTimerMap, and whether mAlarms has it

vars == <<now, store, suppressed, rangeEnd, nextUpdate, gets, loaded, bells>>

Times == 0 .. MaxTime
Far == MaxTime + Month + Interval  \* later than every time a search has

\* snooze: X-MOZ-SNOOZE-TIME, ack: alarmLastAck, 0 for none.  An alarm related
\* to the item's end, or at a time of its own, has its offset from the start too.
Content == {c \in [start : 1 .. MaxTime, length : Lengths, offset : Offsets,
                   snooze : Nat, ack : Times] : c.start + c.offset > 0}
New == {c \in [start : 1 .. MaxTime, length : Lengths, offset : Offsets,
               snooze : {0}, ack : {0}] : c.start + c.offset > 0}
Absent == [start |-> 0, length |-> 0, offset |-> 0, snooze |-> 0, ack |-> 0]

Bell == [timer : Nat, shown : BOOLEAN]
Silent == [timer |-> 0, shown |-> FALSE]    \* no timer, not in the window

Get == [from : -Month .. Far, until : 0 .. Far]    \* the range of a getItems

TypeOK ==
    /\ now \in 1 .. MaxTime
    /\ store \in [Items -> Content \cup {Absent}]
    /\ suppressed \in BOOLEAN /\ loaded \in BOOLEAN
    /\ rangeEnd \in 1 .. Far /\ nextUpdate \in 1 .. Far
    /\ gets \in Seq(Get) /\ Len(gets) <= MaxGets
    /\ bells \in [Items -> Bell]

-----------------------------------------------------------------------------
(* Alarms of one item *)

Present(i) == store[i] # Absent

\* calculateAlarmDate.
OwnTime(c) == c.start + c.offset

\* "an alarm can only be snoozed to a later time"
Snoozed(c) == c.snooze > OwnTime(c)
AlarmDate(c) == IF Snoozed(c) THEN c.snooze ELSE OwnTime(c)

Unanswered(c) == c # Absent /\ c.ack < AlarmDate(c)

\* alarmFired: the observers are told, unless the calendar is to keep quiet.
AlarmFired(bell) == IF suppressed THEN bell ELSE [bell EXCEPT !.shown = TRUE]

\* Variant: an alarm that was missed is taken for one that was answered.
AddAlarmsFuture(bell, c) ==
    IF AlarmDate(c) >= now /\ AlarmDate(c) <= rangeEnd
    THEN [bell EXCEPT !.timer = AlarmDate(c)] ELSE bell

\* addAlarmsForItem: a timer for the near future, nothing for the far one, and
\* at once what is past and was not answered.
AddAlarms(bell, c) ==
    IF AlarmDate(c) >= now
    THEN IF AlarmDate(c) > rangeEnd THEN bell ELSE [bell EXCEPT !.timer = AlarmDate(c)]
    ELSE IF Unanswered(c) THEN AlarmFired(bell) ELSE bell

\* Variant: the alarm leaves the window and its timer goes on.
RemoveAlarmsFromWindow(bell) == [bell EXCEPT !.shown = FALSE]

\* removeAlarmsForItem: out of the window, and the timer is cancelled.
RemoveAlarms(bell) == [timer |-> 0, shown |-> FALSE]

\* onModifyItem, and what a search does with an item it finds.
Again(bell, c) == AddAlarms(RemoveAlarms(bell), c)

-----------------------------------------------------------------------------
(* Searches *)

\* checkIfInRange: the item is not over when the range begins, and it starts
\* before the range ends.
Reaches(c, from) == IF c.length = 0 THEN c.start >= from ELSE c.start + c.length > from
Inside(c, g) == c # Absent /\ Reaches(c, g.from) /\ c.start < g.until

\* findAlarms: getItems, unless the calendar is to keep quiet.
FindAlarms(from, quiet) ==
    /\ Len(gets) < MaxGets
    /\ gets' = IF quiet THEN gets
               ELSE Append(gets, [from |-> from, until |-> now + Month])

\* initAlarms: everything off, and a search around the current time.
InitAlarms(quiet) ==
    /\ bells' = [i \in Items |-> Silent]
    /\ FindAlarms(now - Month, quiet)

\* The listener of findAlarms.
GetItems ==
    /\ gets # <<>>
    /\ gets' = Tail(gets)
    /\ bells' = [i \in Items |-> IF Inside(store[i], Head(gets))
                                   THEN Again(bells[i], store[i]) ELSE bells[i]]
    /\ loaded' = TRUE
    /\ UNCHANGED <<now, store, suppressed, rangeEnd, nextUpdate>>

\* Variant: mRangeEnd is moved before it is taken as the start of the search.
UpdateTooFar ==
    /\ now >= nextUpdate
    /\ nextUpdate' = nextUpdate + Interval
    /\ rangeEnd' = now + Interval
    /\ FindAlarms(rangeEnd', suppressed)
    /\ UNCHANGED <<now, store, suppressed, loaded, bells>>

\* timerCallback.notify: a subsequent search starts where the last one ended.
Update ==
    /\ now >= nextUpdate
    /\ nextUpdate' = nextUpdate + Interval
    /\ rangeEnd' = now + Interval
    /\ FindAlarms(rangeEnd, suppressed)
    /\ UNCHANGED <<now, store, suppressed, loaded, bells>>

-----------------------------------------------------------------------------
(* The calendar: its items, its property, its reloads *)

\* onAddItem; onModifyItem; onDeleteItem.
AddItem(i, c) ==
    /\ ~Present(i)
    /\ store' = [store EXCEPT ![i] = c]
    /\ bells' = [bells EXCEPT ![i] = AddAlarms(@, c)]
    /\ UNCHANGED <<now, suppressed, rangeEnd, nextUpdate, gets, loaded>>

ModifyItem(i, c) ==
    /\ Present(i)
    /\ store' = [store EXCEPT ![i] = c]
    /\ bells' = [bells EXCEPT ![i] = Again(@, c)]
    /\ UNCHANGED <<now, suppressed, rangeEnd, nextUpdate, gets, loaded>>

DeleteItem(i) ==
    /\ Present(i)
    /\ store' = [store EXCEPT ![i] = Absent]
    /\ bells' = [bells EXCEPT ![i] = RemoveAlarms(@)]
    /\ UNCHANGED <<now, suppressed, rangeEnd, nextUpdate, gets, loaded>>

\* Another time, or another alarm; what was answered or snoozed stays on record.
Reschedule(i) ==
    \E c \in New : ModifyItem(i, [c EXCEPT !.snooze = store[i].snooze, !.ack = store[i].ack])

\* onPropertyChanged: the property has its new value when the observers hear of it.
Suppress ==
    /\ suppressed' = ~suppressed
    /\ InitAlarms(~suppressed)
    /\ UNCHANGED <<now, store, rangeEnd, nextUpdate, loaded>>

\* onLoad, ignored before the first search has been answered.
OnLoad ==
    /\ loaded
    /\ InitAlarms(suppressed)
    /\ UNCHANGED <<now, store, suppressed, rangeEnd, nextUpdate, loaded>>

-----------------------------------------------------------------------------
(* Timers, the user, the machine *)

TimerFires(i) ==
    /\ bells[i].timer # 0 /\ now >= bells[i].timer
    /\ bells' = [bells EXCEPT ![i] = AlarmFired([@ EXCEPT !.timer = 0])]
    /\ UNCHANGED <<now, store, suppressed, rangeEnd, nextUpdate, gets, loaded>>

\* The user takes longer than the second the alarm is due in: within it the
\* alarm would still count as a future one.
Answerable(i) == bells[i].shown /\ AlarmDate(store[i]) < now

DismissAlarm(i) ==
    /\ Answerable(i)
    /\ ModifyItem(i, [store[i] EXCEPT !.ack = now, !.snooze = 0])

SnoozeAlarm(i) ==
    /\ Answerable(i)
    /\ \E duration \in Snoozes :
        ModifyItem(i, [store[i] EXCEPT !.ack = now, !.snooze = now + duration])

\* Variant: shutdown without the startup that belongs to it.
WakeStopped ==
    /\ bells' = [i \in Items |-> [bells[i] EXCEPT !.timer = 0]]
    /\ rangeEnd' = 0
    /\ UNCHANGED <<now, store, suppressed, nextUpdate, gets, loaded>>

\* wake_notification: shutdown and startup.  The monitor has stopped listening
\* when the calendar's alarms are removed, so its list stays.
Wake ==
    /\ bells' = [i \in Items |-> [bells[i] EXCEPT !.timer = 0]]
    /\ rangeEnd' = now + Interval
    /\ nextUpdate' = now + Interval
    /\ FindAlarms(now - Month, suppressed)
    /\ UNCHANGED <<now, store, suppressed, loaded>>

Tick ==
    /\ now < MaxTime
    /\ now' = now + 1
    /\ UNCHANGED <<store, suppressed, rangeEnd, nextUpdate, gets, loaded, bells>>

\* The end of startup.
Init ==
    /\ now = 1
    /\ store \in [Items -> New \cup {Absent}]
    /\ suppressed \in BOOLEAN
    /\ rangeEnd = now + Interval
    /\ nextUpdate = now + Interval
    /\ gets = IF suppressed THEN <<>>
              ELSE <<[from |-> now - Month, until |-> now + Month]>>
    /\ loaded = FALSE
    /\ bells = [i \in Items |-> Silent]

Next ==
    \/ GetItems \/ Update
    \/ \E i \in Items, c \in New : AddItem(i, c)
    \/ \E i \in Items : DeleteItem(i) \/ Reschedule(i)
    \/ Suppress \/ OnLoad
    \/ \E i \in Items : TimerFires(i) \/ DismissAlarm(i) \/ SnoozeAlarm(i)
    \/ Wake \/ Tick

\* Time goes on, due timers are served, and the calendar answers.
Fairness ==
    /\ WF_vars(Tick)
    /\ WF_vars(Update)
    /\ WF_vars(GetItems)
    /\ \A i \in Items : WF_vars(TimerFires(i))

Spec == Init /\ [][Next]_vars /\ Fairness

-----------------------------------------------------------------------------
(* Properties *)

\* What may ring or rings is what the calendar holds: a timer is set for the
\* item's current alarm and not for one that was moved, answered or deleted, and
\* the window shows alarms that are due and were not answered since - across
\* edits, searches and reloads that overtake one another.
BellsCurrent ==
    \A i \in Items :
        /\ bells[i].timer # 0 => Present(i) /\ bells[i].timer = AlarmDate(store[i])
        /\ bells[i].shown => /\ Present(i)
                             /\ store[i].ack <= AlarmDate(store[i]) /\ AlarmDate(store[i]) <= now

\* Items older than the searches look back are given up: "they'll miss some, but
\* that's a slim chance" (calAlarmService.js:290).
Recent(i) == Reaches(store[i], now - Month)

\* The alarm's time has passed and the user has not been heard.
Overdue(i) == Unanswered(store[i]) /\ AlarmDate(store[i]) < now /\ ~suppressed /\ Recent(i)

\* The alarm is not later than its item: an alarm after the item's end can be
\* forgotten, see LateCovered.
Within(c) == OwnTime(c) <= c.start + c.length

\* An unanswered alarm at its original time.
Claim(i) == Unanswered(store[i]) /\ ~Snoozed(store[i]) /\ Recent(i) /\ ~suppressed

\* Somebody is responsible for it: the window, a timer, a search that is on its
\* way, or the next periodic search, which finds its item.
Covered(i) ==
    \/ bells[i].shown
    \/ bells[i].timer # 0
    \/ \E k \in 1 .. Len(gets) : Inside(store[i], gets[k])
    \/ AlarmDate(store[i]) > rangeEnd /\ Reaches(store[i], rangeEnd)

\* Between the item's notifications, the searches, the reloads and the user's
\* answers somebody is always responsible for an unanswered alarm at its original
\* time, before the item, during it or at its end.
AlarmCovered == \A i \in Items : Claim(i) /\ Within(store[i]) => Covered(i)

\* "This is a subsequent search, so we got all the past alarms before"
\* (calAlarmService.js:295), those after the end of their items as well: the same
\* for every alarm.
LateCovered == \A i \in Items : Claim(i) => Covered(i)

\* "We don't set timers for every future alarm, only those within 6 hours"
\* (calAlarmService.js:301), and yet every alarm whose time has passed is shown -
\* but for the snoozed ones, see SnoozeRings, and those after their items.
AlarmShown ==
    \A i \in Items :
        Overdue(i) /\ ~Snoozed(store[i]) /\ Within(store[i]) ~>
            bells[i].shown \/ Snoozed(store[i]) \/ ~Overdue(i)

\* calIAlarmService.idl:107-108 says of snoozeAlarm "The alarm will instead fire
\* at "now + duration"": when that time has passed and neither a timer nor a
\* search is due, the window shows it.
SnoozeRings ==
    \A i \in Items :
        Overdue(i) /\ Snoozed(store[i]) =>
            bells[i].shown \/ bells[i].timer # 0 \/ gets # <<>> \/ nextUpdate <= now
=============================================================================
