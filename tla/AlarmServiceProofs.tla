-------------------------- MODULE AlarmServiceProofs --------------------------
(***************************************************************************)
(* Theorems about AlarmService, for every set of items, every choice of    *)
(* item lengths, alarm offsets and snooze durations and every search       *)
(* interval: the timers and the window agree with the calendar, and no     *)
(* unanswered alarm at its own time, up to the end of its item, is without *)
(* somebody responsible for it.                                            *)
(***************************************************************************)
EXTENDS AlarmService, SequenceTheorems, TLAPS

\* The window shows i's alarm only when it is due; a timer is i's current alarm;
\* nobody answers an alarm in the future; and the range that has been searched
\* ends at most an interval from now.
Timely ==
    /\ rangeEnd <= now + Interval
    /\ \A i \in Items : /\ store[i].ack <= now
                        /\ bells[i].timer # 0 => store[i].ack <= bells[i].timer

IInv == TypeOK /\ BellsCurrent /\ Timely

-----------------------------------------------------------------------------
(* One alarm, one search *)

\* An item has a start, a length and an alarm time, after the beginning of time.
LEMMA AlarmTime ==
    ASSUME NEW c \in Content
    PROVE  /\ c # Absent
           /\ c.start \in Nat /\ c.start > 0 /\ c.length \in Nat
           /\ c.offset \in Int /\ Interval - Month < c.offset
           /\ c.snooze \in Nat /\ c.ack \in Nat
           /\ AlarmDate(c) \in Nat /\ AlarmDate(c) > 0
           /\ OwnTime(c) = c.start + c.offset
           /\ ~Snoozed(c) => AlarmDate(c) = OwnTime(c)
<1>1. /\ c.start \in 1 .. MaxTime /\ c.length \in Lengths /\ c.offset \in Offsets
      /\ c.snooze \in Nat /\ c.ack \in 0 .. MaxTime /\ c.start + c.offset > 0
  BY DEF Content, Times
<1>2. MaxTime \in Nat /\ c.length \in Nat
  BY <1>1, AlarmConstants
<1>3. c.offset \in Int /\ Interval - Month < c.offset
  BY <1>1, AlarmConstants, Zenon
<1>4. c # Absent
  BY <1>1, <1>2 DEF Absent
<1>5. QED
  BY <1>1, <1>2, <1>3, <1>4 DEF AlarmDate, Snoozed, OwnTime

\* An item the search from one time on does not reach is not reached from later on;
\* and an item with an alarm to come after that time, up to the item's end, is reached.
LEMMA ReachesEarlier ==
    ASSUME NEW c \in Content \cup {Absent}, NEW m \in Int, NEW n \in Int, m <= n, Reaches(c, n)
    PROVE  Reaches(c, m)
<1>1. c.start \in Int /\ c.length \in Int
  BY AlarmTime DEF Absent
<1>2. QED
  BY <1>1 DEF Reaches

LEMMA WithinReached ==
    ASSUME NEW c \in Content, ~Snoozed(c), Within(c), NEW n \in Int, AlarmDate(c) > n
    PROVE  Reaches(c, n)
BY AlarmTime DEF Within, Reaches

\* What addAlarmsForItem leaves of a silent bell: a timer for the item's alarm
\* if that is still to come, the window if it is past and was not answered, and
\* nothing only for an alarm that is answered, suppressed or beyond the range.
LEMMA AlarmSet ==
    ASSUME NEW c \in Content, now \in Nat, rangeEnd \in Nat, suppressed \in BOOLEAN,
           NEW bell, bell = AddAlarms(Silent, c)
    PROVE  /\ bell \in Bell
           /\ bell.timer # 0 => bell.timer = AlarmDate(c) /\ now <= bell.timer
           /\ bell.shown => c.ack < AlarmDate(c) /\ AlarmDate(c) < now
           /\ Unanswered(c) /\ ~suppressed =>
                bell.shown \/ bell.timer # 0 \/ AlarmDate(c) > rangeEnd
<1>1. AlarmDate(c) \in Nat /\ AlarmDate(c) > 0
  BY AlarmTime
<1>2. CASE AlarmDate(c) >= now /\ AlarmDate(c) > rangeEnd
  BY <1>1, <1>2 DEF AddAlarms, Silent, Bell
<1>3. CASE AlarmDate(c) >= now /\ ~(AlarmDate(c) > rangeEnd)
  <2>1. bell = [timer |-> AlarmDate(c), shown |-> FALSE]
    BY <1>3 DEF AddAlarms, Silent
  <2>2. QED
    BY <1>1, <1>3, <2>1 DEF Bell
<1>4. CASE ~(AlarmDate(c) >= now) /\ Unanswered(c)
  <2>1. bell = AlarmFired(Silent)
    BY <1>4 DEF AddAlarms
  <2>2. c.ack < AlarmDate(c)
    BY <1>4 DEF Unanswered
  <2>3. CASE suppressed
    <3>1. bell = [timer |-> 0, shown |-> FALSE]
      BY <2>1, <2>3 DEF AlarmFired, Silent
    <3>2. QED
      BY <2>3, <3>1 DEF Bell
  <2>4. CASE ~suppressed
    <3>1. bell = [timer |-> 0, shown |-> TRUE]
      BY <2>1, <2>4 DEF AlarmFired, Silent
    <3>2. QED
      BY <1>1, <1>4, <2>2, <3>1 DEF Bell
  <2>5. QED
    BY <2>3, <2>4
<1>5. CASE ~(AlarmDate(c) >= now) /\ ~Unanswered(c)
  BY <1>1, <1>5 DEF AddAlarms, Silent, Bell
<1>6. QED
  BY <1>2, <1>3, <1>4, <1>5

\* removeAlarmsForItem makes a bell silent.
LEMMA AgainSilent ==
    ASSUME NEW bell, NEW c
    PROVE  Again(bell, c) = AddAlarms(Silent, c)
BY DEF Again, RemoveAlarms, Silent

\* Posting a search keeps those that are on their way.
LEMMA SearchPosted ==
    ASSUME gets \in Seq(Get), now \in 1 .. MaxTime, NEW quiet \in BOOLEAN,
           NEW from \in -Month .. Far, FindAlarms(from, quiet)
    PROVE  /\ gets' \in Seq(Get) /\ Len(gets') <= MaxGets
           /\ \A k \in 1 .. Len(gets) : k \in 1 .. Len(gets') /\ gets'[k] = gets[k]
           /\ ~quiet => \E k \in 1 .. Len(gets') :
                            gets'[k] = [from |-> from, until |-> now + Month]
<1> DEFINE g == [from |-> from, until |-> now + Month]
<1>1. MaxTime \in Nat /\ Month \in Nat /\ Interval \in Nat /\ MaxGets \in Nat
  BY AlarmConstants
<1>2. Len(gets) \in Nat
  BY LenProperties
<1>3. CASE quiet
  BY <1>1, <1>2, <1>3 DEF FindAlarms
<1>4. CASE ~quiet
  <2>1. g \in Get
    BY <1>1 DEF Get, Far
  <2>2. gets' = Append(gets, g) /\ Len(gets) < MaxGets
    BY <1>4 DEF FindAlarms
  <2> HIDE DEF g
  <2>3. /\ gets' \in Seq(Get)
        /\ Len(gets') = Len(gets) + 1
        /\ \A k \in 1 .. Len(gets) : gets'[k] = gets[k]
        /\ gets'[Len(gets) + 1] = g
    BY <2>1, <2>2, AppendProperties
  <2>4. gets'[Len(gets) + 1] = [from |-> from, until |-> now + Month]
    BY <2>3 DEF g
  <2>5. QED
    BY <1>1, <1>2, <2>2, <2>3, <2>4
<1>5. QED
  BY <1>3, <1>4

\* A search that starts now looks at the time around now.
LEMMA SearchRange ==
    ASSUME TypeOK
    PROVE  /\ now \in Nat /\ rangeEnd \in Nat /\ nextUpdate \in Nat
           /\ now - Month \in -Month .. Far /\ rangeEnd \in -Month .. Far
           /\ now + Interval \in 1 .. Far
           /\ nextUpdate <= now => nextUpdate + Interval \in 1 .. Far
<1>1. MaxTime \in Nat /\ Month \in Nat /\ Interval \in Nat
  BY AlarmConstants
<1>2. now \in 1 .. MaxTime /\ rangeEnd \in 1 .. Far /\ nextUpdate \in 1 .. Far
  BY DEF TypeOK
<1>3. QED
  BY <1>1, <1>2 DEF Far

-----------------------------------------------------------------------------
(* Steps that concern one item *)

\* The state of one item: what the invariants say of it.
ItemTyped(i) == store[i] \in Content \cup {Absent} /\ bells[i] \in Bell

ItemCurrent(i) ==
    /\ store[i].ack <= now
    /\ bells[i].timer # 0 => /\ Present(i) /\ bells[i].timer = AlarmDate(store[i])
                             /\ store[i].ack <= bells[i].timer
    /\ bells[i].shown => /\ Present(i)
                         /\ store[i].ack <= AlarmDate(store[i]) /\ AlarmDate(store[i]) <= now

ItemCovered(i) == Claim(i) /\ Within(store[i]) => Covered(i)

LEMMA ByItem ==
    /\ BellsCurrent /\ Timely <=> rangeEnd <= now + Interval /\ \A i \in Items : ItemCurrent(i)
    /\ AlarmCovered <=> \A i \in Items : ItemCovered(i)
    /\ TypeOK => \A i \in Items : ItemTyped(i)
<1>1. BellsCurrent /\ Timely <=> rangeEnd <= now + Interval /\ \A i \in Items : ItemCurrent(i)
  BY DEF BellsCurrent, Timely, ItemCurrent
<1>2. AlarmCovered <=> \A i \in Items : ItemCovered(i)
  BY DEF AlarmCovered, ItemCovered
<1>3. TypeOK => \A i \in Items : ItemTyped(i)
  BY DEF TypeOK, ItemTyped
<1>4. QED
  BY <1>1, <1>2, <1>3

\* The invariants, with the alarm cover as a part of it.
AInv == IInv /\ AlarmCovered

\* The invariants from what holds of every item.
LEMMA Together ==
    ASSUME TypeOK', (rangeEnd <= now + Interval)',
           \A i \in Items : ItemCurrent(i)' /\ ItemCovered(i)'
    PROVE  AInv'
<1>1. BellsCurrent' /\ Timely'
  BY DEF BellsCurrent, Timely, ItemCurrent
<1>2. AlarmCovered'
  BY DEF AlarmCovered, ItemCovered
<1>3. QED
  BY <1>1, <1>2 DEF AInv, IInv

\* A step that leaves the searches and all items but i alone preserves them if it
\* preserves what they say of i.
LEMMA OneItem ==
    ASSUME AInv, NEW i \in Items, NEW c, NEW bell,
           c \in Content \cup {Absent}, bell \in Bell,
           store' = [store EXCEPT ![i] = c], bells' = [bells EXCEPT ![i] = bell],
           UNCHANGED <<now, suppressed, rangeEnd, nextUpdate, gets, loaded>>,
           ItemCurrent(i)', ItemCovered(i)'
    PROVE  AInv'
<1>1. TypeOK /\ BellsCurrent /\ Timely /\ AlarmCovered
  BY DEF AInv, IInv
<1>2. TypeOK'
  BY <1>1 DEF TypeOK
<1>3. ASSUME NEW j \in Items, j # i
      PROVE  ItemCurrent(j)' /\ ItemCovered(j)'
  <2>1. store'[j] = store[j] /\ bells'[j] = bells[j]
    BY <1>1, <1>3 DEF TypeOK
  <2>2. ItemCurrent(j) /\ ItemCovered(j)
    BY <1>1, ByItem
  <2>3. ItemCurrent(j)'
    BY <2>1, <2>2 DEF ItemCurrent, Present
  <2>4. ItemCovered(j)'
    BY <2>1, <2>2 DEF ItemCovered, Claim, Covered, Recent
  <2>5. QED
    BY <2>3, <2>4
<1>4. (rangeEnd <= now + Interval)'
  BY <1>1 DEF Timely
<1>5. QED
  BY <1>2, <1>3, <1>4, Together

\* What addAlarmsForItem makes of an item that was not answered in the future is
\* current and covers its alarm.
LEMMA BellSet ==
    ASSUME TypeOK, NEW i \in Items, NEW c \in Content, c.ack <= now,
           store'[i] = c, bells'[i] = AddAlarms(Silent, c),
           UNCHANGED <<now, suppressed, rangeEnd>>
    PROVE  AddAlarms(Silent, c) \in Bell /\ ItemCurrent(i)' /\ ItemCovered(i)'
<1> DEFINE bell == AddAlarms(Silent, c)
<1>1. now \in Nat /\ rangeEnd \in Nat /\ suppressed \in BOOLEAN
  BY SearchRange DEF TypeOK
<1>2. /\ bell \in Bell
      /\ bell.timer # 0 => bell.timer = AlarmDate(c) /\ now <= bell.timer
      /\ bell.shown => c.ack < AlarmDate(c) /\ AlarmDate(c) < now
      /\ Unanswered(c) /\ ~suppressed =>
           bell.shown \/ bell.timer # 0 \/ AlarmDate(c) > rangeEnd
  BY <1>1, AlarmSet
<1>3. bells'[i] = bell
  BY DEF bell
<1> HIDE DEF bell
<1>4. c # Absent /\ AlarmDate(c) \in Nat /\ c.ack \in Nat /\ bell.timer \in Nat
  BY <1>2, AlarmTime DEF Bell
<1>5. ItemCurrent(i)'
  <2>1. Present(i)'
    BY <1>4 DEF Present
  <2>2. bell.timer # 0 => c.ack <= bell.timer
    BY <1>1, <1>2, <1>4
  <2>3. bell.shown => c.ack <= AlarmDate(c) /\ AlarmDate(c) <= now
    BY <1>1, <1>2, <1>4
  <2>4. QED
    BY <1>2, <1>3, <2>1, <2>2, <2>3 DEF ItemCurrent
<1>6. ItemCovered(i)'
  <2>1. AlarmDate(c) > rangeEnd /\ ~Snoozed(c) /\ Within(c) => Reaches(c, rangeEnd)
    BY <1>1, WithinReached
  <2>2. QED
    BY <1>2, <1>3, <2>1 DEF ItemCovered, Claim, Covered
<1>7. QED
  BY <1>2, <1>5, <1>6 DEF bell

\* An item that is added or changed.
LEMMA ItemSet ==
    ASSUME AInv, NEW i \in Items, NEW c \in Content, c.ack <= now,
           store' = [store EXCEPT ![i] = c],
           bells' = [bells EXCEPT ![i] = AddAlarms(Silent, c)],
           UNCHANGED <<now, suppressed, rangeEnd, nextUpdate, gets, loaded>>
    PROVE  AInv'
<1>1. TypeOK
  BY DEF AInv, IInv
<1>2. store'[i] = c /\ bells'[i] = AddAlarms(Silent, c)
  BY <1>1 DEF TypeOK
<1>3. AddAlarms(Silent, c) \in Bell /\ ItemCurrent(i)' /\ ItemCovered(i)'
  BY <1>1, <1>2, BellSet
<1>4. QED
  BY <1>3, OneItem

\* The service's bell of an item the calendar does not have is silent.
LEMMA AbsentSilent ==
    ASSUME AInv, NEW i \in Items, ~Present(i)
    PROVE  bells[i] = Silent
<1>1. bells[i] \in Bell /\ bells[i].timer = 0 /\ ~bells[i].shown
  BY ByItem DEF AInv, IInv, ItemTyped, ItemCurrent
<1>2. bells[i].shown \in BOOLEAN
  BY <1>1 DEF Bell
<1>3. bells[i].shown = FALSE
  BY <1>1, <1>2
<1>4. QED
  BY <1>1, <1>3 DEF Bell, Silent

LEMMA AddItemStep ==
    ASSUME AInv, NEW i \in Items, NEW c \in New, AddItem(i, c)
    PROVE  AInv'
<1>1. c \in Content /\ c.ack = 0
  BY AlarmConstants DEF New, Content, Times
<1>2. c.ack <= now
  BY <1>1, SearchRange DEF AInv, IInv
<1>3. bells[i] = Silent
  BY AbsentSilent DEF AddItem
<1>4. bells' = [bells EXCEPT ![i] = AddAlarms(Silent, c)]
  BY <1>3 DEF AddItem
<1>5. QED
  BY <1>1, <1>2, <1>4, ItemSet DEF AddItem

LEMMA ModifyItemStep ==
    ASSUME AInv, NEW i \in Items, NEW c \in Content, c.ack <= now, ModifyItem(i, c)
    PROVE  AInv'
<1>1. bells' = [bells EXCEPT ![i] = AddAlarms(Silent, c)]
  BY AgainSilent DEF ModifyItem
<1>2. QED
  BY <1>1, ItemSet DEF ModifyItem

LEMMA RescheduleStep ==
    ASSUME AInv, NEW i \in Items, Reschedule(i)
    PROVE  AInv'
<1>1. PICK c \in New :
        ModifyItem(i, [c EXCEPT !.snooze = store[i].snooze, !.ack = store[i].ack])
  BY DEF Reschedule
<1> DEFINE d == [c EXCEPT !.snooze = store[i].snooze, !.ack = store[i].ack]
<1>2. store[i] \in Content /\ store[i].ack <= now
  BY <1>1, ByItem DEF AInv, IInv, ItemTyped, ItemCurrent, ModifyItem, Present
<1>3. d \in Content /\ d.ack = store[i].ack
  BY <1>2 DEF New, Content
<1>4. QED
  BY <1>1, <1>2, <1>3, ModifyItemStep

\* The clock counts ticks.
LEMMA NowTimes == TypeOK => now \in Times /\ now \in Nat
BY AlarmConstants DEF TypeOK, Times

\* An item the user has answered is an item.
LEMMA Reanswered ==
    ASSUME NEW c \in Content, NEW ack \in Times, NEW snooze \in Nat
    PROVE  /\ [c EXCEPT !.ack = ack, !.snooze = snooze] \in Content
           /\ [c EXCEPT !.ack = ack, !.snooze = snooze].ack = ack
<1> DEFINE d == [c EXCEPT !.ack = ack, !.snooze = snooze]
<1>1. /\ c \in [start : 1 .. MaxTime, length : Lengths, offset : Offsets,
                snooze : Nat, ack : Times]
      /\ c.start + c.offset > 0
  BY DEF Content
<1>2. d \in [start : 1 .. MaxTime, length : Lengths, offset : Offsets, snooze : Nat, ack : Times]
  BY <1>1
<1>3. d.offset = c.offset /\ d.start = c.start /\ d.ack = ack
  BY <1>1
<1>4. QED
  BY <1>1, <1>2, <1>3 DEF Content

LEMMA DismissAlarmStep ==
    ASSUME AInv, NEW i \in Items, DismissAlarm(i)
    PROVE  AInv'
<1> DEFINE d == [store[i] EXCEPT !.ack = now, !.snooze = 0]
<1>1. ModifyItem(i, d)
  BY DEF DismissAlarm
<1>2. store[i] \in Content /\ now \in Times /\ 0 \in Nat
  BY <1>1, ByItem, NowTimes DEF AInv, IInv, ItemTyped, ModifyItem, Present
<1>3. d \in Content /\ d.ack = now
  BY <1>2, Reanswered, Zenon
<1> HIDE DEF d
<1>4. d.ack <= now
  BY <1>3, NowTimes DEF AInv, IInv
<1>5. QED
  BY <1>1, <1>3, <1>4, ModifyItemStep

LEMMA SnoozeAlarmStep ==
    ASSUME AInv, NEW i \in Items, SnoozeAlarm(i)
    PROVE  AInv'
<1>1. PICK duration \in Snoozes :
        ModifyItem(i, [store[i] EXCEPT !.ack = now, !.snooze = now + duration])
  BY DEF SnoozeAlarm
<1> DEFINE d == [store[i] EXCEPT !.ack = now, !.snooze = now + duration]
<1>2. store[i] \in Content /\ now \in Times /\ now + duration \in Nat
  BY <1>1, ByItem, NowTimes, AlarmConstants DEF AInv, IInv, ItemTyped, ModifyItem, Present
<1>3. d \in Content /\ d.ack = now
  BY <1>2, Reanswered, Zenon
<1>4. ModifyItem(i, d)
  BY <1>1
<1> HIDE DEF d
<1>5. d.ack <= now
  BY <1>3, NowTimes DEF AInv, IInv
<1>6. QED
  BY <1>3, <1>4, <1>5, ModifyItemStep

LEMMA DeleteItemStep ==
    ASSUME AInv, NEW i \in Items, DeleteItem(i)
    PROVE  AInv'
<1>1. /\ store' = [store EXCEPT ![i] = Absent] /\ bells' = [bells EXCEPT ![i] = Silent]
      /\ UNCHANGED <<now, suppressed, rangeEnd, nextUpdate, gets, loaded>>
  BY DEF DeleteItem, RemoveAlarms, Silent
<1>2. store'[i] = Absent /\ bells'[i] = Silent
  BY <1>1 DEF AInv, IInv, TypeOK
<1>3. Silent \in Bell /\ Silent.timer = 0 /\ ~Silent.shown
  BY DEF Silent, Bell
<1>4. ItemCurrent(i)'
  BY <1>1, <1>2, <1>3, SearchRange DEF ItemCurrent, Absent, AInv, IInv
<1>5. ItemCovered(i)'
  BY <1>2 DEF ItemCovered, Claim, Unanswered
<1>6. QED
  BY <1>1, <1>3, <1>4, <1>5, OneItem

\* The timer is i's current alarm and it is due: it may be shown.
LEMMA TimerFiresStep ==
    ASSUME AInv, NEW i \in Items, TimerFires(i)
    PROVE  AInv'
<1> DEFINE bell == AlarmFired([bells[i] EXCEPT !.timer = 0])
<1>1. TypeOK /\ ItemTyped(i) /\ ItemCurrent(i) /\ ItemCovered(i)
  BY ByItem DEF AInv, IInv
<1>2. /\ bells[i].timer # 0 /\ now >= bells[i].timer
      /\ bells' = [bells EXCEPT ![i] = bell]
      /\ UNCHANGED <<now, store, suppressed, rangeEnd, nextUpdate, gets, loaded>>
  BY DEF TimerFires
<1>3. bell \in Bell /\ bell.timer = 0 /\ (suppressed \/ bell.shown)
  <2>1. CASE suppressed
    <3>1. bell = [bells[i] EXCEPT !.timer = 0]
      BY <2>1 DEF AlarmFired
    <3>2. QED
      BY <1>1, <2>1, <3>1 DEF ItemTyped, Bell
  <2>2. CASE ~suppressed
    <3>1. bell = [[bells[i] EXCEPT !.timer = 0] EXCEPT !.shown = TRUE]
      BY <2>2 DEF AlarmFired
    <3>2. [bells[i] EXCEPT !.timer = 0] = [timer |-> 0, shown |-> bells[i].shown]
      BY <1>1 DEF ItemTyped, Bell
    <3>3. bell = [timer |-> 0, shown |-> TRUE]
      BY <3>1, <3>2
    <3> HIDE DEF bell
    <3>4. QED
      BY <3>3 DEF Bell
  <2>3. QED
    BY <2>1, <2>2
<1> HIDE DEF bell
<1>4. store' = [store EXCEPT ![i] = store[i]] /\ store'[i] = store[i] /\ bells'[i] = bell
  BY <1>1, <1>2 DEF TypeOK
<1>5. ItemCurrent(i)'
  <2>1. /\ Present(i) /\ store[i].ack <= now
        /\ store[i].ack <= AlarmDate(store[i]) /\ AlarmDate(store[i]) <= now
    BY <1>1, <1>2 DEF ItemCurrent
  <2>2. QED
    BY <1>2, <1>3, <1>4, <2>1 DEF ItemCurrent, Present
<1>6. ItemCovered(i)'
  BY <1>2, <1>3, <1>4 DEF ItemCovered, Claim, Covered
<1>7. store[i] \in Content \cup {Absent}
  BY <1>1 DEF ItemTyped
<1>8. QED
  BY <1>2, <1>3, <1>4, <1>5, <1>6, <1>7, OneItem

-----------------------------------------------------------------------------
(* Steps that concern the searches *)

\* An item that starts beyond what a search looks at has its alarm beyond the
\* interval: its turn comes with a later search.
LEMMA FarAway ==
    ASSUME NEW c \in Content, ~Snoozed(c), NEW n \in Nat, c.start >= n + Month
    PROVE  AlarmDate(c) > n + Interval /\ Reaches(c, n + Interval)
<1>1. Month \in Nat /\ Interval \in Nat /\ Interval < Month
  BY AlarmConstants
<1>2. QED
  BY <1>1, AlarmTime DEF Reaches

\* After a search around the current time has been posted nothing else is needed.
LEMMA AroundNow ==
    ASSUME AInv, NEW i \in Items, UNCHANGED <<now, store>>,
           rangeEnd' \in Nat, rangeEnd' <= now + Interval,
           ~suppressed' => \E k \in 1 .. Len(gets') :
                              gets'[k] = [from |-> now - Month, until |-> now + Month]
    PROVE  ItemCovered(i)'
<1> DEFINE c == store[i]
<1>1. SUFFICES ASSUME Unanswered(c), ~Snoozed(c), Reaches(c, now - Month), ~suppressed'
               PROVE  \/ \E k \in 1 .. Len(gets') : Inside(c, gets'[k])
                      \/ AlarmDate(c) > rangeEnd' /\ Reaches(c, rangeEnd')
  BY DEF ItemCovered, Claim, Covered, Recent
<1>2. c \in Content /\ c # Absent
  BY <1>1, ByItem DEF AInv, IInv, ItemTyped, Unanswered
<1>3. /\ now \in Nat /\ Interval \in Nat /\ Month \in Nat
      /\ c.start \in Nat /\ AlarmDate(c) \in Nat
  BY <1>2, SearchRange, AlarmTime, AlarmConstants DEF AInv, IInv
<1>4. PICK k \in 1 .. Len(gets') :
        gets'[k] = [from |-> now - Month, until |-> now + Month]
  BY <1>1
<1>5. CASE c.start < now + Month
  <2>1. Inside(c, gets'[k])
    BY <1>1, <1>2, <1>4, <1>5 DEF Inside
  <2>2. QED
    BY <2>1
<1>6. CASE ~(c.start < now + Month)
  <2>1. c.start >= now + Month
    BY <1>3, <1>6
  <2>2. AlarmDate(c) > now + Interval /\ Reaches(c, now + Interval)
    BY <1>1, <1>2, <1>3, <2>1, FarAway
  <2>3. Reaches(c, rangeEnd')
    BY <1>2, <1>3, <2>2, ReachesEarlier
  <2>4. QED
    BY <1>3, <2>2, <2>3
<1>7. QED
  BY <1>5, <1>6

\* The timers are cancelled, the window shows no more than before, and a search
\* around the current time is posted unless the calendar is to keep quiet.
LEMMA StartOver ==
    ASSUME AInv, UNCHANGED <<now, store>>, suppressed' \in BOOLEAN, loaded' \in BOOLEAN,
           bells' \in [Items -> Bell],
           \A i \in Items : bells'[i].timer = 0 /\ (bells'[i].shown => bells[i].shown),
           rangeEnd' \in 1 .. Far, rangeEnd' <= now + Interval, nextUpdate' \in 1 .. Far,
           FindAlarms(now - Month, suppressed')
    PROVE  AInv'
<1>1. TypeOK /\ rangeEnd' \in Nat
  BY DEF AInv, IInv
<1>2. now \in 1 .. MaxTime /\ now - Month \in -Month .. Far /\ gets \in Seq(Get)
  BY <1>1, SearchRange DEF TypeOK
<1>3. /\ gets' \in Seq(Get) /\ Len(gets') <= MaxGets
      /\ ~suppressed' => \E k \in 1 .. Len(gets') :
                            gets'[k] = [from |-> now - Month, until |-> now + Month]
  BY <1>2, SearchPosted
<1>4. TypeOK'
  BY <1>1, <1>3 DEF TypeOK
<1>5. ASSUME NEW i \in Items
      PROVE  ItemCurrent(i)' /\ ItemCovered(i)'
  <2>1. ItemCurrent(i)
    BY ByItem DEF AInv, IInv
  <2>2. ItemCurrent(i)'
    BY <2>1 DEF ItemCurrent, Present
  <2>3. ItemCovered(i)'
    BY <1>1, <1>3, AroundNow
  <2>4. QED
    BY <2>2, <2>3
<1>6. QED
  BY <1>4, <1>5, Together

LEMMA SilentBells ==
    ASSUME NEW b, b = [i \in Items |-> Silent]
    PROVE  b \in [Items -> Bell] /\ \A i \in Items : b[i].timer = 0 /\ ~b[i].shown
BY DEF Silent, Bell

LEMMA SuppressStep ==
    ASSUME AInv, Suppress
    PROVE  AInv'
<1>1. /\ bells' = [i \in Items |-> Silent] /\ FindAlarms(now - Month, suppressed')
      /\ UNCHANGED <<now, store, rangeEnd, nextUpdate, loaded>>
  BY DEF Suppress, InitAlarms
<1>2. suppressed' \in BOOLEAN
  BY DEF Suppress
<1>3. /\ rangeEnd \in 1 .. Far /\ nextUpdate \in 1 .. Far /\ loaded \in BOOLEAN
      /\ rangeEnd <= now + Interval
  BY DEF AInv, IInv, TypeOK, Timely
<1>4. QED
  BY <1>1, <1>2, <1>3, SilentBells, StartOver

LEMMA OnLoadStep ==
    ASSUME AInv, OnLoad
    PROVE  AInv'
<1>1. /\ bells' = [i \in Items |-> Silent] /\ FindAlarms(now - Month, suppressed')
      /\ UNCHANGED <<now, store, suppressed, rangeEnd, nextUpdate, loaded>>
  BY DEF OnLoad, InitAlarms
<1>2. /\ rangeEnd \in 1 .. Far /\ nextUpdate \in 1 .. Far /\ loaded \in BOOLEAN
      /\ suppressed \in BOOLEAN /\ rangeEnd <= now + Interval
  BY DEF AInv, IInv, TypeOK, Timely
<1>3. QED
  BY <1>1, <1>2, SilentBells, StartOver

LEMMA WakeStep ==
    ASSUME AInv, Wake
    PROVE  AInv'
<1>1. /\ bells' = [i \in Items |-> [bells[i] EXCEPT !.timer = 0]]
      /\ rangeEnd' = now + Interval /\ nextUpdate' = now + Interval
      /\ FindAlarms(now - Month, suppressed')
      /\ UNCHANGED <<now, store, suppressed, loaded>>
  BY DEF Wake
<1>2. loaded \in BOOLEAN /\ suppressed \in BOOLEAN /\ now + Interval \in 1 .. Far
  BY SearchRange DEF AInv, IInv, TypeOK
<1>3. now + Interval <= now + Interval
  BY <1>2, AlarmConstants DEF Far
<1>4. \A i \in Items : bells'[i] \in Bell /\ bells'[i].timer = 0
                         /\ bells'[i].shown = bells[i].shown
  BY <1>1, ByItem DEF AInv, IInv, ItemTyped, Bell
<1>5. bells' \in [Items -> Bell]
  BY <1>1, <1>4
<1>6. QED
  BY <1>1, <1>2, <1>3, <1>4, <1>5, StartOver

\* A search that is answered sets the alarms of the items it found; the others
\* are the concern of the searches behind it.
LEMMA GetItemsStep ==
    ASSUME AInv, GetItems
    PROVE  AInv'
<1>1. TypeOK /\ rangeEnd <= now + Interval
  BY DEF AInv, IInv, Timely
<1>2. /\ gets # <<>> /\ gets' = Tail(gets) /\ loaded' = TRUE
      /\ bells' = [i \in Items |-> IF Inside(store[i], Head(gets))
                                     THEN Again(bells[i], store[i]) ELSE bells[i]]
      /\ UNCHANGED <<now, store, suppressed, rangeEnd, nextUpdate>>
  BY DEF GetItems
<1>3. /\ gets' \in Seq(Get) /\ Len(gets') = Len(gets) - 1 /\ Len(gets) \in Nat
      /\ Head(gets) = gets[1]
      /\ \A k \in 1 .. Len(gets') : gets'[k] = gets[k + 1]
  BY <1>1, <1>2, HeadTailProperties, LenProperties DEF TypeOK
<1>4. ASSUME NEW i \in Items
      PROVE  bells'[i] \in Bell /\ ItemCurrent(i)' /\ ItemCovered(i)'
  <2>1. ItemTyped(i) /\ ItemCurrent(i) /\ ItemCovered(i)
    BY ByItem DEF AInv, IInv
  <2>2. CASE Inside(store[i], Head(gets))
    <3>1. bells'[i] = AddAlarms(Silent, store[i]) /\ store'[i] = store[i]
      BY <1>2, <2>2, AgainSilent
    <3>2. store[i] \in Content /\ store[i].ack <= now
      BY <2>1, <2>2 DEF Inside, ItemTyped, ItemCurrent
    <3>3. QED
      BY <1>1, <1>2, <3>1, <3>2, BellSet
  <2>3. CASE ~Inside(store[i], Head(gets))
    <3>1. bells'[i] = bells[i] /\ store'[i] = store[i]
      BY <1>2, <2>3
    <3>2. ItemCurrent(i)'
      BY <1>2, <2>1, <3>1 DEF ItemCurrent, Present
    <3>3. ASSUME NEW k \in 1 .. Len(gets), Inside(store[i], gets[k])
          PROVE  \E n \in 1 .. Len(gets') : Inside(store[i], gets'[n])
      <4>1. k # 1
        BY <1>3, <2>3, <3>3
      <4>2. k - 1 \in 1 .. Len(gets') /\ gets'[k - 1] = gets[k]
        BY <1>3, <4>1
      <4>3. QED
        BY <3>3, <4>2
    <3>4. ItemCovered(i)'
      BY <1>2, <2>1, <3>1, <3>3 DEF ItemCovered, Claim, Covered, Recent
    <3>5. QED
      BY <2>1, <3>1, <3>2, <3>4 DEF ItemTyped
  <2>4. QED
    BY <2>2, <2>3
<1>5. TypeOK'
  <2>1. bells' \in [Items -> Bell]
    BY <1>2, <1>4
  <2>2. Len(gets') <= MaxGets
    BY <1>1, <1>3, AlarmConstants DEF TypeOK
  <2>3. QED
    BY <1>1, <1>2, <1>3, <2>1, <2>2 DEF TypeOK
<1>6. QED
  BY <1>1, <1>2, <1>4, <1>5, Together

\* The periodic search starts where the last range ended, and what it does not
\* reach is beyond the new range.
LEMMA UpdateStep ==
    ASSUME AInv, Update
    PROVE  AInv'
<1>1. TypeOK
  BY DEF AInv, IInv
<1>2. /\ now >= nextUpdate /\ nextUpdate' = nextUpdate + Interval
      /\ rangeEnd' = now + Interval /\ FindAlarms(rangeEnd, suppressed)
      /\ UNCHANGED <<now, store, suppressed, loaded, bells>>
  BY DEF Update
<1>3. /\ now \in Nat /\ rangeEnd \in Nat /\ nextUpdate \in Nat
      /\ now \in 1 .. MaxTime /\ gets \in Seq(Get)
      /\ rangeEnd \in -Month .. Far /\ now + Interval \in 1 .. Far
      /\ nextUpdate <= now => nextUpdate + Interval \in 1 .. Far
      /\ suppressed \in BOOLEAN /\ Interval \in Nat /\ Month \in Nat
  BY <1>1, SearchRange, AlarmConstants DEF TypeOK
<1>4. /\ gets' \in Seq(Get) /\ Len(gets') <= MaxGets
      /\ \A k \in 1 .. Len(gets) : k \in 1 .. Len(gets') /\ gets'[k] = gets[k]
      /\ ~suppressed => \E k \in 1 .. Len(gets') :
                           gets'[k] = [from |-> rangeEnd, until |-> now + Month]
  BY <1>2, <1>3, SearchPosted
<1>5. rangeEnd' \in 1 .. Far /\ nextUpdate' \in 1 .. Far
  BY <1>2, <1>3
<1>6. TypeOK'
  BY <1>1, <1>2, <1>4, <1>5 DEF TypeOK
<1>7. (rangeEnd <= now + Interval)'
  BY <1>2, <1>3
<1>8. ASSUME NEW i \in Items
      PROVE  ItemCurrent(i)' /\ ItemCovered(i)'
  <2>1. ItemTyped(i) /\ ItemCurrent(i) /\ ItemCovered(i)
    BY ByItem DEF AInv, IInv
  <2>2. ItemCurrent(i)'
    BY <1>2, <2>1 DEF ItemCurrent, Present
  <2>3. ASSUME Unanswered(store[i]), ~Snoozed(store[i]), ~suppressed,
               AlarmDate(store[i]) > rangeEnd, Reaches(store[i], rangeEnd)
        PROVE  \/ \E k \in 1 .. Len(gets') : Inside(store[i], gets'[k])
               \/ AlarmDate(store[i]) > rangeEnd' /\ Reaches(store[i], rangeEnd')
    <3>1. store[i] \in Content /\ store[i] # Absent
      BY <2>1, <2>3 DEF ItemTyped, Unanswered
    <3>2. store[i].start \in Nat
      BY <3>1, AlarmTime
    <3>3. PICK k \in 1 .. Len(gets') :
            gets'[k] = [from |-> rangeEnd, until |-> now + Month]
      BY <1>4, <2>3
    <3>4. CASE store[i].start < now + Month
      <4>1. Inside(store[i], gets'[k])
        BY <2>3, <3>1, <3>3, <3>4 DEF Inside
      <4>2. QED
        BY <4>1
    <3>5. CASE ~(store[i].start < now + Month)
      <4>1. store[i].start >= now + Month
        BY <1>3, <3>2, <3>5
      <4>2. QED
        BY <1>2, <1>3, <2>3, <3>1, <4>1, FarAway
    <3>6. QED
      BY <3>4, <3>5
  <2>4. ItemCovered(i)'
    BY <1>2, <1>4, <2>1, <2>3 DEF ItemCovered, Claim, Covered, Recent
  <2>5. QED
    BY <2>2, <2>4
<1>9. QED
  BY <1>6, <1>7, <1>8, Together

\* Time only makes alarms due and items old.
LEMMA TickStep ==
    ASSUME AInv, Tick
    PROVE  AInv'
<1>1. TypeOK /\ rangeEnd <= now + Interval
  BY DEF AInv, IInv, Timely
<1>2. /\ now < MaxTime /\ now' = now + 1
      /\ UNCHANGED <<store, suppressed, rangeEnd, nextUpdate, gets, loaded, bells>>
  BY DEF Tick
<1>3. /\ now \in 1 .. MaxTime /\ MaxTime \in Nat /\ rangeEnd \in Nat
      /\ Interval \in Nat /\ Month \in Nat
  BY <1>1, SearchRange, AlarmConstants DEF TypeOK
<1>4. now' \in 1 .. MaxTime /\ (rangeEnd <= now + Interval)'
  BY <1>1, <1>2, <1>3
<1>5. TypeOK'
  BY <1>1, <1>2, <1>4 DEF TypeOK
<1>6. ASSUME NEW i \in Items
      PROVE  ItemCurrent(i)' /\ ItemCovered(i)'
  <2>1. ItemTyped(i) /\ ItemCurrent(i) /\ ItemCovered(i)
    BY <1>1, ByItem DEF AInv, IInv
  <2>2. store[i].ack \in Nat /\ store[i].start \in Nat
    BY <1>3, <2>1, AlarmTime DEF ItemTyped, Absent
  <2>3. store[i] # Absent => AlarmDate(store[i]) \in Nat
    BY <2>1, AlarmTime DEF ItemTyped
  <2>4. ItemCurrent(i)'
    BY <1>2, <1>3, <2>1, <2>2, <2>3 DEF ItemCurrent, Present
  <2>5. Recent(i)' => Recent(i)
    BY <1>2, <1>3, <2>1, ReachesEarlier DEF Recent, ItemTyped
  <2>6. ItemCovered(i)'
    BY <1>2, <2>1, <2>5 DEF ItemCovered, Claim, Covered
  <2>7. QED
    BY <2>4, <2>6
<1>7. QED
  BY <1>4, <1>5, <1>6, Together

-----------------------------------------------------------------------------
(* The theorems *)

\* At startup the first search looks at everything recent.
LEMMA AInvInit == Init => AInv
<1> SUFFICES ASSUME Init
             PROVE  AInv
  OBVIOUS
<1> DEFINE g == [from |-> now - Month, until |-> now + Month]
<1>1. /\ MaxTime \in Nat /\ MaxTime >= 1 /\ Month \in Nat /\ Interval \in Nat /\ Interval >= 1
      /\ MaxGets \in Nat /\ MaxGets >= 1
  BY AlarmConstants
<1>2. now = 1 /\ rangeEnd = now + Interval /\ nextUpdate = now + Interval
  BY DEF Init
<1>3. gets \in Seq(Get) /\ Len(gets) <= MaxGets
  <2>1. g \in Get
    BY <1>1, <1>2 DEF Get, Far
  <2>2. gets = IF suppressed THEN <<>> ELSE <<g>>
    BY DEF Init
  <2> HIDE DEF g
  <2>3. QED
    BY <1>1, <2>1, <2>2
<1>4. ASSUME NEW i \in Items
      PROVE  /\ store[i] \in Content \cup {Absent} /\ store[i].ack = 0 /\ bells[i] = Silent
             /\ store[i] # Absent => store[i].start \in Nat
  <2>1. store[i] \in New \cup {Absent} /\ bells[i] = Silent
    BY DEF Init
  <2>2. CASE store[i] \in New
    BY <1>1, <2>1, <2>2 DEF New, Content, Times
  <2>3. CASE store[i] = Absent
    BY <2>1, <2>3 DEF Absent
  <2>4. QED
    BY <2>1, <2>2, <2>3
<1>5. TypeOK
  <2>1. store \in [Items -> Content \cup {Absent}]
    BY <1>4 DEF Init
  <2>2. bells \in [Items -> Bell]
    BY SilentBells DEF Init
  <2>3. now \in 1 .. MaxTime /\ rangeEnd \in 1 .. Far /\ nextUpdate \in 1 .. Far
    BY <1>1, <1>2 DEF Far
  <2>4. QED
    BY <1>3, <2>1, <2>2, <2>3 DEF Init, TypeOK
<1>6. BellsCurrent /\ Timely
  BY <1>1, <1>2, <1>4 DEF BellsCurrent, Timely, Silent
<1>7. ASSUME NEW i \in Items, Unanswered(store[i]), ~Snoozed(store[i]), Recent(i), ~suppressed
      PROVE  \/ \E k \in 1 .. Len(gets) : Inside(store[i], gets[k])
             \/ AlarmDate(store[i]) > rangeEnd /\ Reaches(store[i], rangeEnd)
  <2>1. store[i] \in Content /\ store[i] # Absent /\ store[i].start \in Nat
    BY <1>4, <1>7 DEF Unanswered
  <2>2. CASE store[i].start < now + Month
    <3>1. Len(gets) = 1 /\ gets[1] = g
      BY <1>7 DEF Init
    <3>2. Inside(store[i], gets[1])
      BY <1>7, <2>1, <2>2, <3>1 DEF Inside, Recent
    <3>3. QED
      BY <3>1, <3>2
  <2>3. CASE ~(store[i].start < now + Month)
    <3>1. store[i].start >= now + Month /\ now \in Nat
      BY <1>1, <1>2, <2>1, <2>3
    <3>2. QED
      BY <1>2, <1>7, <2>1, <3>1, FarAway
  <2>4. QED
    BY <2>2, <2>3
<1>8. AlarmCovered
  BY <1>7 DEF AlarmCovered, Claim, Covered
<1>9. QED
  BY <1>5, <1>6, <1>8 DEF AInv, IInv

LEMMA AInvStep == AInv /\ [Next]_vars => AInv'
<1> SUFFICES ASSUME AInv, [Next]_vars
             PROVE  AInv'
  OBVIOUS
<1>1. CASE GetItems
  BY <1>1, GetItemsStep
<1>2. CASE Update
  BY <1>2, UpdateStep
<1>3. CASE \E i \in Items, c \in New : AddItem(i, c)
  BY <1>3, AddItemStep
<1>4. CASE \E i \in Items : DeleteItem(i) \/ Reschedule(i)
  BY <1>4, DeleteItemStep, RescheduleStep
<1>5. CASE Suppress \/ OnLoad
  BY <1>5, SuppressStep, OnLoadStep
<1>6. CASE \E i \in Items : TimerFires(i) \/ DismissAlarm(i) \/ SnoozeAlarm(i)
  BY <1>6, TimerFiresStep, DismissAlarmStep, SnoozeAlarmStep
<1>7. CASE Wake
  BY <1>7, WakeStep
<1>8. CASE Tick
  BY <1>8, TickStep
<1>9. CASE UNCHANGED vars
  <2>1. TypeOK' /\ BellsCurrent' /\ Timely'
    BY <1>9 DEF AInv, IInv, vars, TypeOK, BellsCurrent, Timely, Present
  <2>2. AlarmCovered'
    BY <1>9 DEF AInv, vars, AlarmCovered, Claim, Covered, Recent
  <2>3. QED
    BY <2>1, <2>2 DEF AInv, IInv
<1>10. QED
  BY <1>1, <1>2, <1>3, <1>4, <1>5, <1>6, <1>7, <1>8, <1>9 DEF Next

\* The clock, the calendar, the searches and the bells stay well typed.
THEOREM ServiceTypeCorrect == Spec => []TypeOK
<1>1. AInv => TypeOK
  BY DEF AInv, IInv
<1>2. QED
  BY <1>1, AInvInit, AInvStep, PTL DEF Spec

\* A timer is set for the item's current alarm, and the window shows alarms that
\* are due and were not answered since: no deleted, moved or answered alarm rings.
THEOREM BellsStayCurrent == Spec => []BellsCurrent
<1>1. AInv => BellsCurrent
  BY DEF AInv, IInv
<1>2. QED
  BY <1>1, AInvInit, AInvStep, PTL DEF Spec

\* Between notifications, searches, reloads, wake-ups and the user's answers no
\* unanswered alarm at its own time falls through: the window, a timer, a search
\* on its way or the next periodic search has it.
THEOREM AlarmsStayCovered == Spec => []AlarmCovered
<1>1. AInv => AlarmCovered
  BY DEF AInv
<1>2. QED
  BY <1>1, AInvInit, AInvStep, PTL DEF Spec

=============================================================================
