------------------------- MODULE OfflineStorageProofs -------------------------
(***************************************************************************)
(* Theorems about OfflineStorage: its type invariant for every caller, and *)
(* for callers that wait for their own operations (Serial) that what they  *)
(* were told is stored stays stored, and that the flags implement the      *)
(* journal of OfflineJournal.tla.                                          *)
(***************************************************************************)
EXTENDS OfflineStorage, SequenceTheorems, TLAPS

\* Abbreviations of the two ways a table is written.
USE DEF Store, Wipe

(* The three things that happen to the queue of lookups. *)

\* Posting a SELECT adds it at the end and leaves the others alone.
LEMMA LookupPosted ==
    ASSUME lookups \in Seq(Lookup),
           NEW op \in {"modify", "mark", "remove"}, NEW i \in Items,
           NEW v \in 0 .. MaxVersion, NEW chain \in BOOLEAN,
           op = "modify" => v # 0,
           PostLookup(op, i, v, chain)
    PROVE  /\ lookups' \in Seq(Lookup)
           /\ Len(lookups') = Len(lookups) + 1
           /\ \A k \in 1 .. Len(lookups) : lookups'[k] = lookups[k]
           /\ lookups'[Len(lookups) + 1] = [op |-> op, item |-> i, ver |-> v,
                                            chain |-> chain, seen |-> Unread]
<1> DEFINE l == [op |-> op, item |-> i, ver |-> v, chain |-> chain, seen |-> Unread]
<1>1. l \in Lookup
  BY DEF Lookup
<1>2. lookups' = Append(lookups, l)
  BY DEF PostLookup
<1> HIDE DEF l
<1>3. /\ lookups' \in Seq(Lookup)
      /\ Len(lookups') = Len(lookups) + 1
      /\ \A k \in 1 .. Len(lookups) : lookups'[k] = lookups[k]
      /\ lookups'[Len(lookups) + 1] = l
  BY <1>1, <1>2, AppendProperties
<1>4. QED
  BY <1>3 DEF l

\* The database thread fills in one lookup and leaves the others alone.
LEMMA LookupRead ==
    ASSUME TypeOK, ReadFlag
    PROVE  \E k \in 1 .. Len(lookups) :
               /\ lookups' \in Seq(Lookup)
               /\ Len(lookups') = Len(lookups)
               /\ \A j \in 1 .. Len(lookups) :
                      lookups'[j] = IF j = k
                                      THEN [lookups[k] EXCEPT !.seen = rows[lookups[k].item].flag]
                                      ELSE lookups[j]
<1>1. PICK k \in 1 .. Len(lookups) :
          lookups' = [lookups EXCEPT ![k].seen = rows[lookups[k].item].flag]
  BY DEF ReadFlag
<1> DEFINE l == [lookups[k] EXCEPT !.seen = rows[lookups[k].item].flag]
<1>2. lookups[k] \in Lookup
  BY <1>1, ElementOfSeq DEF TypeOK
<1>3. l \in Lookup
  BY <1>2 DEF TypeOK, Lookup, Row
<1>4. lookups' = [lookups EXCEPT ![k] = l]
  BY <1>1
<1> HIDE DEF l
<1>5. /\ lookups' \in Seq(Lookup)
      /\ Len(lookups') = Len(lookups)
      /\ \A j \in 1 .. Len(lookups) : lookups'[j] = IF j = k THEN l ELSE lookups[j]
  BY <1>3, <1>4, ExceptSeq DEF TypeOK
<1>6. QED
  BY <1>1, <1>5 DEF l

\* The oldest lookup is the first, and the others move up by one.
LEMMA LookupPopped ==
    ASSUME lookups \in Seq(Lookup), lookups # <<>>
    PROVE  /\ Head(lookups) \in Lookup
           /\ Len(lookups) >= 1 /\ Head(lookups) = lookups[1]
           /\ Tail(lookups) \in Seq(Lookup)
           /\ Len(Tail(lookups)) = Len(lookups) - 1
           /\ \A k \in 1 .. Len(Tail(lookups)) : Tail(lookups)[k] = lookups[k + 1]
<1>1. Len(lookups) >= 1
  BY EmptySeq, LenProperties
<1>2. QED
  BY <1>1, HeadTailProperties

-----------------------------------------------------------------------------
(* Types *)

\* The helpers on rows return rows.
LEMMA RowHelpers ==
    /\ NoRow \in Row
    /\ \A v \in 0 .. MaxVersion : Flushed(v) \in Row
    /\ \A row \in Row, f \in Flags : WithFlag(row, f) \in Row
    /\ \A row \in Row, f \in Flags \cup {Unread} :
           AfterModifyOffline(row, f) \in Row /\ AfterDeleteOffline(row, f) \in Row
BY StorageConstants
   DEF NoRow, Row, Flags, Flushed, WithFlag, AfterModifyOffline, AfterDeleteOffline

\* Writing one row keeps the table a table.
LEMMA RowWritten ==
    ASSUME TypeOK, NEW i \in Items, NEW row \in Row, rows' = [rows EXCEPT ![i] = row]
    PROVE  /\ rows' \in [Items -> Row]
           /\ rows'[i] = row
           /\ \A j \in Items : j # i => rows'[j] = rows[j]
BY DEF TypeOK

LEMMA OwedWritten ==
    ASSUME TypeOK, NEW i \in Items, NEW f \in Flags, owed' = [owed EXCEPT ![i] = f]
    PROVE  /\ owed' \in [Items -> Flags]
           /\ owed'[i] = f
           /\ \A j \in Items : j # i => owed'[j] = owed[j]
BY DEF TypeOK

LEMMA ClockTicks ==
    ASSUME TypeOK, clock < MaxVersion, clock' = clock + 1
    PROVE  clock' \in 0 .. MaxVersion /\ clock' # 0
BY StorageConstants DEF TypeOK

\* A callback runs for the oldest lookup, which has been read.
LEMMA AnsweredHead ==
    ASSUME TypeOK, NEW op, Answered(op)
    PROVE  /\ Head(lookups) \in Lookup
           /\ Head(lookups).item \in Items
           /\ Head(lookups).ver \in 0 .. MaxVersion
           /\ Head(lookups).seen \in Flags
           /\ Head(lookups).op = op
           /\ op = "modify" => Head(lookups).ver # 0
           /\ Len(lookups) >= 1 /\ Head(lookups) = lookups[1]
           /\ Tail(lookups) \in Seq(Lookup)
           /\ Len(Tail(lookups)) = Len(lookups) - 1
           /\ \A k \in 1 .. Len(Tail(lookups)) : Tail(lookups)[k] = lookups[k + 1]
<1>1. lookups \in Seq(Lookup) /\ lookups # <<>> /\ Head(lookups).op = op
      /\ Head(lookups).seen # Unread
  BY DEF TypeOK, Answered
<1>2. QED
  BY <1>1, LookupPopped DEF Lookup

\* Every step keeps the types, whoever calls.
LEMMA TypeOKStep == TypeOK /\ [Next]_vars => TypeOK'
<1> SUFFICES ASSUME TypeOK, [Next]_vars
             PROVE  TypeOK'
  OBVIOUS
<1>1. ASSUME NEW i \in Items, AdoptItem(i)
      PROVE  TypeOK'
  <2>1. clock' \in 0 .. MaxVersion
    BY <1>1, ClockTicks DEF AdoptItem
  <2>2. rows' \in [Items -> Row]
    BY <1>1, <2>1, RowHelpers, RowWritten DEF AdoptItem
  <2>3. owed' \in [Items -> Flags]
    BY <1>1, OwedWritten DEF AdoptItem, Flags
  <2>4. QED
    BY <1>1, <2>1, <2>2, <2>3 DEF AdoptItem, TypeOK
<1>2. ASSUME NEW i \in Items, AdoptOfflineItem(i)
      PROVE  TypeOK'
  <2>1. clock' \in 0 .. MaxVersion
    BY <1>2, ClockTicks DEF AdoptOfflineItem
  <2>2. WithFlag(Flushed(clock'), "created") \in Row
    BY <2>1, RowHelpers DEF Flags
  <2>3. rows' \in [Items -> Row]
    BY <1>2, <2>2, RowWritten DEF AdoptOfflineItem
  <2>4. owed' \in [Items -> Flags]
    BY <1>2, OwedWritten DEF AdoptOfflineItem, Flags
  <2>5. QED
    BY <1>2, <2>1, <2>3, <2>4 DEF AdoptOfflineItem, TypeOK
<1>3. ASSUME NEW i \in Items, OverwriteItem(i)
      PROVE  TypeOK'
  <2>1. clock' \in 0 .. MaxVersion
    BY <1>3, ClockTicks DEF OverwriteItem
  <2>2. WithFlag(Flushed(clock'), "none") \in Row
    BY <2>1, RowHelpers DEF Flags
  <2>3. rows' \in [Items -> Row]
    BY <1>3, <2>2, RowWritten DEF OverwriteItem
  <2>4. owed' \in [Items -> Flags]
    BY <1>3, OwedWritten DEF OverwriteItem, Flags
  <2>5. QED
    BY <1>3, <2>1, <2>3, <2>4 DEF OverwriteItem, TypeOK
<1>4. ASSUME NEW i \in Items, DeleteItem(i)
      PROVE  TypeOK'
  <2>1. rows' \in [Items -> Row]
    BY <1>4, RowHelpers, RowWritten DEF DeleteItem
  <2>2. owed' \in [Items -> Flags]
    BY <1>4, OwedWritten DEF DeleteItem, Flags
  <2>3. QED
    BY <1>4, <2>1, <2>2 DEF DeleteItem, TypeOK
<1>5. ASSUME NEW i \in Items, ResetItemOfflineFlag(i)
      PROVE  TypeOK'
  <2>1. WithFlag(rows[i], "none") \in Row
    BY RowHelpers DEF TypeOK, Flags
  <2>2. rows' \in [Items -> Row]
    BY <1>5, <2>1, RowWritten DEF ResetItemOfflineFlag
  <2>3. owed' \in [Items -> Flags]
    BY <1>5, OwedWritten DEF ResetItemOfflineFlag, Flags
  <2>4. QED
    BY <1>5, <2>2, <2>3 DEF ResetItemOfflineFlag, TypeOK
<1>6. CASE DeleteCalendar
  BY <1>6, RowHelpers DEF DeleteCalendar, TypeOK, Flags
<1>7. ASSUME NEW i \in Items, NEW chain \in BOOLEAN, ModifyItem(i, chain)
      PROVE  TypeOK'
  <2>1. clock' \in 0 .. MaxVersion /\ clock' # 0
    BY <1>7, ClockTicks DEF ModifyItem
  <2>2. lookups' \in Seq(Lookup)
    BY <1>7, <2>1, LookupPosted DEF ModifyItem, TypeOK
  <2>3. QED
    BY <1>7, <2>1, <2>2 DEF ModifyItem, TypeOK
<1>8. ASSUME NEW i \in Items, DeleteOfflineItem(i)
      PROVE  TypeOK'
  <2>1. 0 \in 0 .. MaxVersion
    BY StorageConstants
  <2>2. lookups' \in Seq(Lookup)
    BY <1>8, <2>1, LookupPosted DEF DeleteOfflineItem, TypeOK
  <2>3. QED
    BY <1>8, <2>2 DEF DeleteOfflineItem, TypeOK
<1>9. CASE ReadFlag
  <2>1. lookups' \in Seq(Lookup)
    BY <1>9, LookupRead
  <2>2. QED
    BY <1>9, <2>1 DEF ReadFlag, TypeOK
<1>10. CASE DoModifyItem
  <2> DEFINE l == Head(lookups)
  <2>1. /\ l \in Lookup /\ l.item \in Items /\ l.ver \in 0 .. MaxVersion
        /\ l.seen \in Flags /\ Tail(lookups) \in Seq(Lookup)
    BY <1>10, AnsweredHead DEF DoModifyItem
  <2>2. WithFlag(Flushed(l.ver), l.seen) \in Row
    BY <2>1, RowHelpers
  <2>3. rows' = [rows EXCEPT ![l.item] = WithFlag(Flushed(l.ver), l.seen)]
    BY <1>10 DEF DoModifyItem
  <2>4. rows' \in [Items -> Row]
    BY <2>1, <2>2, <2>3, RowWritten
  <2>5. [l EXCEPT !.op = "mark", !.seen = Unread] \in Lookup
    BY <2>1 DEF Lookup
  <2>6. lookups' \in Seq(Lookup)
    BY <1>10, <2>1, <2>5, AppendProperties DEF DoModifyItem
  <2>7. QED
    BY <1>10, <2>4, <2>6 DEF DoModifyItem, TypeOK
<1>11. CASE FinishModifyOfflineItem
  <2> DEFINE l == Head(lookups)
             row == AfterModifyOffline(rows[l.item], l.seen)
  <2>1. /\ l.item \in Items /\ l.seen \in Flags /\ Tail(lookups) \in Seq(Lookup)
    BY <1>11, AnsweredHead DEF FinishModifyOfflineItem
  <2>2. row \in Row
    BY <2>1, RowHelpers DEF TypeOK
  <2>3. rows' = [rows EXCEPT ![l.item] = row] /\ owed' = [owed EXCEPT ![l.item] = rows'[l.item].flag]
    BY <1>11 DEF FinishModifyOfflineItem
  <2>4. rows' \in [Items -> Row] /\ rows'[l.item] \in Row
    BY <2>1, <2>2, <2>3, RowWritten
  <2>5. owed' \in [Items -> Flags]
    BY <2>1, <2>3, <2>4, OwedWritten DEF Row
  <2>6. QED
    BY <1>11, <2>1, <2>4, <2>5 DEF FinishModifyOfflineItem, TypeOK
<1>12. CASE FinishDeleteOfflineItem
  <2> DEFINE l == Head(lookups)
             row == AfterDeleteOffline(rows[l.item], l.seen)
  <2>1. /\ l.item \in Items /\ l.seen \in Flags /\ Tail(lookups) \in Seq(Lookup)
    BY <1>12, AnsweredHead DEF FinishDeleteOfflineItem
  <2>2. row \in Row
    BY <2>1, RowHelpers DEF TypeOK
  <2>3. rows' = [rows EXCEPT ![l.item] = row] /\ owed' = [owed EXCEPT ![l.item] = rows'[l.item].flag]
    BY <1>12 DEF FinishDeleteOfflineItem
  <2>4. rows' \in [Items -> Row] /\ rows'[l.item] \in Row
    BY <2>1, <2>2, <2>3, RowWritten
  <2>5. owed' \in [Items -> Flags]
    BY <2>1, <2>3, <2>4, OwedWritten DEF Row
  <2>6. QED
    BY <1>12, <2>1, <2>4, <2>5 DEF FinishDeleteOfflineItem, TypeOK
<1>13. CASE Restart
  BY <1>13, EmptySeq DEF Restart, TypeOK
<1>14. ASSUME NEW i \in Items, CrashInAdoptOffline(i)
       PROVE  TypeOK'
  <2>1. clock' \in 0 .. MaxVersion
    BY <1>14, ClockTicks DEF CrashInAdoptOffline
  <2>2. rows' \in [Items -> Row]
    BY <1>14, <2>1, RowHelpers, RowWritten DEF CrashInAdoptOffline, Torn
  <2>3. QED
    BY <1>14, <2>1, <2>2, EmptySeq DEF CrashInAdoptOffline, Torn, TypeOK
<1>15. CASE CrashInDoModify
  <2> DEFINE l == Head(lookups)
  <2>1. l.item \in Items /\ l.ver \in 0 .. MaxVersion
    BY <1>15, AnsweredHead DEF CrashInDoModify
  <2>2. PICK row \in {NoRow, Flushed(l.ver)} : Torn(l.item, row)
    BY <1>15 DEF CrashInDoModify
  <2>3. rows' \in [Items -> Row]
    BY <2>1, <2>2, RowHelpers, RowWritten DEF Torn
  <2>4. QED
    BY <1>15, <2>2, <2>3, EmptySeq DEF CrashInDoModify, Torn, TypeOK
<1>16. CASE UNCHANGED vars
  BY <1>16 DEF vars, TypeOK
<1>17. QED
  BY <1>1, <1>2, <1>3, <1>4, <1>5, <1>6, <1>7, <1>8, <1>9, <1>10, <1>11, <1>12, <1>13,
     <1>14, <1>15, <1>16 DEF Next

\* Every reachable state is well typed: in particular a row's flag is one of
\* the four the journal knows, and no lookup answers with anything else.
THEOREM TypeCorrect == Spec => []TypeOK
<1>1. Init => TypeOK
  BY StorageConstants, EmptySeq DEF Init, TypeOK, NoRow, Row, Flags
<1>2. QED
  BY <1>1, TypeOKStep, PTL DEF Spec

-----------------------------------------------------------------------------
(* What callers that wait for their own operations are promised *)

\* A torn rewrite of a row with a flag loses it: then nothing is promised.
OwedKept == ~TornFlags => OwedStored

\* The inductive invariant: OwedStored alone is not inductive, because a
\* callback puts back the flag that was read earlier; LookupsCurrent says that
\* flag is still the row's.
IInv == TypeOK /\ LookupsCurrent /\ OwedKept

\* A synchronous operation on an item without a lookup leaves every answer
\* that is still to be acted on current.
LEMMA LookupsUndisturbed ==
    ASSUME TypeOK, LookupsCurrent, lookups' = lookups,
           \A k \in 1 .. Len(lookups) : rows'[lookups[k].item] = rows[lookups[k].item]
    PROVE  LookupsCurrent'
BY DEF LookupsCurrent

\* The others' rows are what lookups are about when i has none.
LEMMA OthersLookedUp ==
    ASSUME TypeOK, NEW i \in Items, ~Busy(i), NEW k \in 1 .. Len(lookups)
    PROVE  lookups[k].item \in Items /\ lookups[k].item # i
<1>1. lookups[k] \in Lookup
  BY ElementOfSeq DEF TypeOK
<1>2. QED
  BY <1>1 DEF Busy, Lookup

\* One item's row and promise change together; the others are left alone.
LEMMA OwedElsewhere ==
    ASSUME OwedKept, NEW i \in Items,
           \A j \in Items : j # i => rows'[j] = rows[j] /\ owed'[j] = owed[j],
           ~TornFlags /\ owed'[i] # "none" => rows'[i].ver # 0 /\ rows'[i].flag = owed'[i]
    PROVE  OwedKept'
BY DEF OwedKept, OwedStored, Present

\* The queue after a callback: what is left of it is still current, provided
\* the callback only wrote its own item's row.
LEMMA TailCurrent ==
    ASSUME TypeOK, LookupsCurrent, lookups # <<>>,
           \A j \in Items : j # Head(lookups).item => rows'[j] = rows[j]
    PROVE  /\ \A k \in 1 .. Len(Tail(lookups)) :
                 /\ Tail(lookups)[k].item # Head(lookups).item
                 /\ Tail(lookups)[k].seen # Unread
                      => Tail(lookups)[k].seen = rows'[Tail(lookups)[k].item].flag
                 /\ \A j \in 1 .. Len(Tail(lookups)) :
                      Tail(lookups)[j].item = Tail(lookups)[k].item => j = k
<1>1. /\ Head(lookups) = lookups[1] /\ Len(lookups) >= 1
      /\ Len(Tail(lookups)) = Len(lookups) - 1
      /\ \A k \in 1 .. Len(Tail(lookups)) : Tail(lookups)[k] = lookups[k + 1]
      /\ Len(lookups) \in Nat
  BY LookupPopped, LenProperties DEF TypeOK
<1>2. SUFFICES ASSUME NEW k \in 1 .. Len(Tail(lookups))
               PROVE  /\ Tail(lookups)[k].item # Head(lookups).item
                      /\ Tail(lookups)[k].seen # Unread
                           => Tail(lookups)[k].seen = rows'[Tail(lookups)[k].item].flag
                      /\ \A j \in 1 .. Len(Tail(lookups)) :
                           Tail(lookups)[j].item = Tail(lookups)[k].item => j = k
  OBVIOUS
<1>3. k + 1 \in 1 .. Len(lookups) /\ 1 \in 1 .. Len(lookups) /\ k + 1 # 1
  BY <1>1, <1>2
<1>4. lookups[k + 1].item # lookups[1].item
  BY <1>3 DEF LookupsCurrent
<1>5. lookups[k + 1].item \in Items
  <2>1. lookups[k + 1] \in Lookup
    BY <1>3, ElementOfSeq DEF TypeOK
  <2>2. QED
    BY <2>1 DEF Lookup
<1>6. rows'[lookups[k + 1].item] = rows[lookups[k + 1].item]
  BY <1>1, <1>4, <1>5
<1>7. lookups[k + 1].seen # Unread => lookups[k + 1].seen = rows[lookups[k + 1].item].flag
  BY <1>3 DEF LookupsCurrent
<1>8. ASSUME NEW j \in 1 .. Len(Tail(lookups)), lookups[j + 1].item = lookups[k + 1].item
      PROVE  j = k
  <2>1. j + 1 \in 1 .. Len(lookups)
    BY <1>1
  <2>2. j + 1 = k + 1
    BY <2>1, <1>3, <1>8 DEF LookupsCurrent
  <2>3. QED
    BY <2>2
<1>9. QED
  BY <1>1, <1>4, <1>6, <1>7, <1>8

\* What the two journal callbacks leave in a row whose flag they act on: either
\* no flag, or a row that has it; and a flag moves only as the journal allows.
LEMMA CallbackFlags ==
    ASSUME NEW row \in Row
    PROVE  /\ \/ AfterModifyOffline(row, row.flag).flag = row.flag
              \/ row.flag = "none" /\ AfterModifyOffline(row, row.flag).flag = "modified"
           /\ \/ AfterDeleteOffline(row, row.flag).flag \in {"none", row.flag}
              \/ /\ row.flag \in {"none", "modified"}
                 /\ AfterDeleteOffline(row, row.flag).flag = "deleted"
BY DEF AfterModifyOffline, AfterDeleteOffline, WithFlag, Row, NoRow, Flags

LEMMA IInvStep ==
    ASSUME Serial, IInv, [Next]_vars
    PROVE  IInv'
<1> USE DEF IInv
<1>1. TypeOK'
  BY TypeOKStep
<1>2. ASSUME NEW i \in Items, MayTouch(i), lookups' = lookups,
             \A j \in Items : j # i => rows'[j] = rows[j] /\ owed'[j] = owed[j],
             owed'[i] # "none" => rows'[i].ver # 0 /\ rows'[i].flag = owed'[i]
      PROVE  IInv'
  <2>1. ~Busy(i)
    BY <1>2 DEF MayTouch
  <2>2. \A k \in 1 .. Len(lookups) : rows'[lookups[k].item] = rows[lookups[k].item]
    BY <1>2, <2>1, OthersLookedUp
  <2>3. LookupsCurrent'
    BY <1>2, <2>2, LookupsUndisturbed
  <2>4. OwedKept'
    BY <1>2, OwedElsewhere
  <2>5. QED
    BY <1>1, <2>3, <2>4
<1>3. ASSUME NEW i \in Items, AdoptItem(i)
      PROVE  IInv'
  <2>1. /\ MayTouch(i) /\ lookups' = lookups /\ owed'[i] = "none"
        /\ \A j \in Items : j # i => rows'[j] = rows[j] /\ owed'[j] = owed[j]
    BY <1>3 DEF AdoptItem, TypeOK
  <2>2. QED
    BY <1>2, <2>1
<1>4. ASSUME NEW i \in Items, AdoptOfflineItem(i)
      PROVE  IInv'
  <2>1. /\ MayTouch(i) /\ lookups' = lookups /\ owed'[i] = "created"
        /\ \A j \in Items : j # i => rows'[j] = rows[j] /\ owed'[j] = owed[j]
        /\ rows'[i] = WithFlag(Flushed(clock'), "created")
    BY <1>4 DEF AdoptOfflineItem, TypeOK
  <2>2. clock' # 0
    BY <1>4, ClockTicks DEF AdoptOfflineItem
  <2>3. rows'[i].ver # 0 /\ rows'[i].flag = "created"
    BY <2>1, <2>2 DEF WithFlag, Flushed
  <2>4. QED
    BY <1>2, <2>1, <2>3
<1>5. ASSUME NEW i \in Items, OverwriteItem(i)
      PROVE  IInv'
  <2>1. /\ MayTouch(i) /\ lookups' = lookups /\ owed'[i] = "none"
        /\ \A j \in Items : j # i => rows'[j] = rows[j] /\ owed'[j] = owed[j]
    BY <1>5 DEF OverwriteItem, TypeOK
  <2>2. QED
    BY <1>2, <2>1
<1>6. ASSUME NEW i \in Items, DeleteItem(i)
      PROVE  IInv'
  <2>1. /\ MayTouch(i) /\ lookups' = lookups /\ owed'[i] = "none"
        /\ \A j \in Items : j # i => rows'[j] = rows[j] /\ owed'[j] = owed[j]
    BY <1>6 DEF DeleteItem, TypeOK
  <2>2. QED
    BY <1>2, <2>1
<1>7. ASSUME NEW i \in Items, ResetItemOfflineFlag(i)
      PROVE  IInv'
  <2>1. /\ MayTouch(i) /\ lookups' = lookups /\ owed'[i] = "none"
        /\ \A j \in Items : j # i => rows'[j] = rows[j] /\ owed'[j] = owed[j]
    BY <1>7 DEF ResetItemOfflineFlag, TypeOK
  <2>2. QED
    BY <1>2, <2>1
<1>8. CASE DeleteCalendar
  <2>1. \A k \in 1 .. Len(lookups) : FALSE
    <3>1. \A i \in Items : ~Busy(i)
      BY <1>8 DEF DeleteCalendar, MayTouch
    <3>2. SUFFICES ASSUME NEW k \in 1 .. Len(lookups)
                   PROVE  FALSE
      OBVIOUS
    <3>3. lookups[k] \in Lookup
      BY ElementOfSeq DEF TypeOK
    <3>4. lookups[k].item \in Items
      BY <3>3 DEF Lookup
    <3>5. QED
      BY <3>1, <3>4 DEF Busy
  <2>2. LookupsCurrent'
    BY <1>8, <2>1 DEF DeleteCalendar, LookupsCurrent
  <2>3. OwedKept'
    BY <1>8 DEF DeleteCalendar, OwedKept, OwedStored
  <2>4. QED
    BY <1>1, <2>2, <2>3
<1>9. ASSUME NEW op \in {"modify", "mark", "remove"}, NEW i \in Items,
             NEW v \in 0 .. MaxVersion, NEW chain \in BOOLEAN,
             op = "modify" => v # 0,
             MayTouch(i), PostLookup(op, i, v, chain), UNCHANGED <<rows, owed>>
      PROVE  IInv'
  <2>1. /\ Len(lookups') = Len(lookups) + 1
        /\ \A k \in 1 .. Len(lookups) : lookups'[k] = lookups[k]
        /\ lookups'[Len(lookups) + 1].item = i
        /\ lookups'[Len(lookups) + 1].seen = Unread
    <3>1. lookups \in Seq(Lookup)
      BY DEF TypeOK
    <3>2. /\ Len(lookups') = Len(lookups) + 1
          /\ \A k \in 1 .. Len(lookups) : lookups'[k] = lookups[k]
          /\ lookups'[Len(lookups) + 1] = [op |-> op, item |-> i, ver |-> v,
                                           chain |-> chain, seen |-> Unread]
      BY <1>9, <3>1, LookupPosted
    <3>3. QED
      BY <3>2
  <2>2. \A k \in 1 .. Len(lookups) : lookups[k].item # i
    BY <1>9, OthersLookedUp DEF MayTouch
  <2>3. Len(lookups) \in Nat
    BY LenProperties DEF TypeOK
  <2>4. SUFFICES ASSUME NEW k \in 1 .. Len(lookups')
                 PROVE  /\ lookups'[k].seen # Unread
                             => lookups'[k].seen = rows[lookups'[k].item].flag
                        /\ \A j \in 1 .. Len(lookups') :
                             lookups'[j].item = lookups'[k].item => j = k
    BY <1>1, <1>9 DEF LookupsCurrent, OwedKept, OwedStored, Present
  <2>5. \A j \in 1 .. Len(lookups') : j \in 1 .. Len(lookups) \/ j = Len(lookups) + 1
    BY <2>1, <2>3
  <2>6. CASE k \in 1 .. Len(lookups)
    BY <2>1, <2>2, <2>5, <2>6 DEF LookupsCurrent
  <2>7. CASE k = Len(lookups) + 1
    BY <2>1, <2>2, <2>5, <2>7 DEF LookupsCurrent
  <2>8. QED
    BY <2>5, <2>6, <2>7
<1>10. ASSUME NEW i \in Items, NEW chain \in BOOLEAN, ModifyItem(i, chain)
       PROVE  IInv'
  <2>1. clock' \in 0 .. MaxVersion /\ clock' # 0
    BY <1>10, ClockTicks DEF ModifyItem
  <2>2. QED
    BY <1>9, <1>10, <2>1 DEF ModifyItem
<1>11. ASSUME NEW i \in Items, DeleteOfflineItem(i)
       PROVE  IInv'
  <2>1. 0 \in 0 .. MaxVersion
    BY StorageConstants
  <2>2. QED
    BY <1>9, <1>11, <2>1 DEF DeleteOfflineItem
<1>12. CASE ReadFlag
  <2>1. PICK k \in 1 .. Len(lookups) :
            /\ Len(lookups') = Len(lookups)
            /\ \A j \in 1 .. Len(lookups) :
                   lookups'[j] = IF j = k
                                   THEN [lookups[k] EXCEPT !.seen = rows[lookups[k].item].flag]
                                   ELSE lookups[j]
    BY <1>12, LookupRead
  <2>2. lookups[k] \in Lookup
    BY ElementOfSeq DEF TypeOK
  <2>3. lookups'[k].item = lookups[k].item /\ lookups'[k].seen = rows[lookups[k].item].flag
    BY <2>1, <2>2 DEF Lookup
  <2>4. rows' = rows /\ owed' = owed
    BY <1>12 DEF ReadFlag
  <2>5. LookupsCurrent'
    BY <2>1, <2>3, <2>4 DEF LookupsCurrent
  <2>6. OwedKept'
    BY <2>4 DEF OwedKept, OwedStored, Present
  <2>7. QED
    BY <1>1, <2>5, <2>6
<1> DEFINE l == Head(lookups)
<1>13. ASSUME lookups # <<>>, l \in Lookup, l.seen \in Flags
       PROVE  l.item \in Items /\ l.seen = rows[l.item].flag /\ rows[l.item] \in Row
  <2>1. Len(lookups) >= 1 /\ l = lookups[1]
    BY <1>13, LookupPopped DEF TypeOK
  <2>2. 1 \in 1 .. Len(lookups)
    BY <2>1, LenProperties DEF TypeOK
  <2>3. l.item \in Items
    BY <1>13 DEF Lookup
  <2>4. l.seen # Unread
    BY <1>13 DEF Flags, Unread
  <2>5. QED
    BY <2>1, <2>2, <2>3, <2>4 DEF LookupsCurrent, TypeOK
<1>14. CASE DoModifyItem
  <2>1. lookups # <<>> /\ l \in Lookup /\ l.seen \in Flags /\ l.ver # 0
    BY <1>14, AnsweredHead DEF DoModifyItem, Answered
  <2>2. l.item \in Items /\ l.seen = rows[l.item].flag /\ rows[l.item] \in Row
    BY <1>13, <2>1
  <2>3. /\ rows' = [rows EXCEPT ![l.item] = WithFlag(Flushed(l.ver), l.seen)]
        /\ owed' = owed
    BY <1>14 DEF DoModifyItem
  <2>4. /\ rows'[l.item] = WithFlag(Flushed(l.ver), l.seen)
        /\ \A j \in Items : j # l.item => rows'[j] = rows[j]
    BY <2>2, <2>3 DEF TypeOK
  <2>5. OwedKept'
    <3>1. ~TornFlags /\ owed[l.item] # "none" => l.seen = owed[l.item]
      BY <2>2 DEF OwedKept, OwedStored
    <3>2. rows'[l.item].ver = l.ver /\ rows'[l.item].flag = l.seen
      BY <2>1, <2>4 DEF WithFlag, Flushed
    <3>3. QED
      BY <2>1, <2>2, <2>3, <2>4, <3>1, <3>2, OwedElsewhere
  <2>6. LookupsCurrent'
    <3>1. \A k \in 1 .. Len(Tail(lookups)) :
              /\ Tail(lookups)[k].item # l.item
              /\ Tail(lookups)[k].seen # Unread
                   => Tail(lookups)[k].seen = rows'[Tail(lookups)[k].item].flag
              /\ \A j \in 1 .. Len(Tail(lookups)) :
                   Tail(lookups)[j].item = Tail(lookups)[k].item => j = k
      BY <2>1, <2>4, TailCurrent
    <3>2. CASE ~l.chain
      BY <1>14, <3>1, <3>2 DEF DoModifyItem, LookupsCurrent
    <3>3. CASE l.chain
      <4> DEFINE m == [l EXCEPT !.op = "mark", !.seen = Unread]
                 q == Tail(lookups)
      <4>1. m \in Lookup /\ m.item = l.item /\ m.seen = Unread
        BY <2>1 DEF Lookup
      <4>2. lookups' = Append(q, m)
        BY <1>14, <3>3 DEF DoModifyItem
      <4>3. q \in Seq(Lookup)
        BY <1>14, AnsweredHead DEF DoModifyItem
      <4> HIDE DEF m, q
      <4>4. /\ Len(lookups') = Len(q) + 1 /\ lookups'[Len(q) + 1] = m
            /\ \A k \in 1 .. Len(q) : lookups'[k] = q[k]
        BY <4>1, <4>2, <4>3, AppendProperties
      <4>5. \A k \in 1 .. Len(lookups') : k \in 1 .. Len(q) \/ k = Len(q) + 1
        BY <4>3, <4>4, LenProperties
      <4>6. SUFFICES ASSUME NEW k \in 1 .. Len(lookups')
                     PROVE  /\ lookups'[k].seen # Unread
                                 => lookups'[k].seen = rows'[lookups'[k].item].flag
                            /\ \A j \in 1 .. Len(lookups') :
                                 lookups'[j].item = lookups'[k].item => j = k
        BY DEF LookupsCurrent
      <4>7. \A j \in 1 .. Len(q) :
               /\ q[j].item # l.item
               /\ q[j].seen # Unread => q[j].seen = rows'[q[j].item].flag
               /\ \A n \in 1 .. Len(q) : q[n].item = q[j].item => n = j
        BY <3>1 DEF q
      <4>8. QED
        BY <4>1, <4>4, <4>5, <4>7
    <3>4. QED
      BY <3>2, <3>3
  <2>7. QED
    BY <1>1, <2>5, <2>6
<1>15. ASSUME NEW row \in Row, lookups # <<>>, l \in Lookup, l.seen \in Flags,
              row.flag # "none" => row.ver # 0,
              rows' = [rows EXCEPT ![l.item] = row],
              owed' = [owed EXCEPT ![l.item] = rows'[l.item].flag],
              lookups' = Tail(lookups)
       PROVE  IInv'
  <2>1. l.item \in Items
    BY <1>15 DEF Lookup
  <2>2. /\ rows'[l.item] = row /\ owed'[l.item] = row.flag
        /\ \A j \in Items : j # l.item => rows'[j] = rows[j] /\ owed'[j] = owed[j]
    BY <1>15, <2>1 DEF TypeOK
  <2>3. LookupsCurrent'
    BY <1>15, <2>2, TailCurrent DEF LookupsCurrent
  <2>4. OwedKept'
    BY <1>15, <2>1, <2>2, OwedElsewhere
  <2>5. QED
    BY <1>1, <2>3, <2>4
<1>151. \A row \in Row : row.flag # "none" => row.ver # 0
  BY DEF Row
<1>152. CASE FinishModifyOfflineItem
  <2>1. lookups # <<>> /\ l \in Lookup /\ l.seen \in Flags /\ l.item \in Items
    BY <1>152, AnsweredHead DEF FinishModifyOfflineItem, Answered
  <2>2. AfterModifyOffline(rows[l.item], l.seen) \in Row
    BY <2>1, RowHelpers DEF TypeOK
  <2>3. QED
    BY <1>15, <1>151, <1>152, <2>1, <2>2 DEF FinishModifyOfflineItem
<1>153. CASE FinishDeleteOfflineItem
  <2>1. lookups # <<>> /\ l \in Lookup /\ l.seen \in Flags /\ l.item \in Items
    BY <1>153, AnsweredHead DEF FinishDeleteOfflineItem, Answered
  <2>2. AfterDeleteOffline(rows[l.item], l.seen) \in Row
    BY <2>1, RowHelpers DEF TypeOK
  <2>3. QED
    BY <1>15, <1>151, <1>153, <2>1, <2>2 DEF FinishDeleteOfflineItem
<1>16. CASE Restart
  BY <1>1, <1>16 DEF Restart, LookupsCurrent, OwedKept, OwedStored, Present
<1>161. ASSUME NEW i \in Items, NEW row, Torn(i, row)
        PROVE  IInv'
  <2>1. LookupsCurrent'
    BY <1>161 DEF Torn, LookupsCurrent
  <2>2. ~TornFlags => owed[i] = "none"
    BY <1>161 DEF Torn, OwedKept, OwedStored
  <2>3. \A j \in Items : owed'[j] = owed[j] /\ (j # i => rows'[j] = rows[j])
    BY <1>161 DEF Torn, TypeOK
  <2>4. OwedKept'
    BY <2>2, <2>3, OwedElsewhere
  <2>5. QED
    BY <1>1, <2>1, <2>4
<1>17. ASSUME NEW i \in Items, CrashInAdoptOffline(i)
       PROVE  IInv'
  <2>1. Torn(i, Flushed(clock'))
    BY <1>17 DEF CrashInAdoptOffline
  <2>2. QED
    BY <1>161, <2>1
<1>18. CASE CrashInDoModify
  <2>1. Head(lookups).item \in Items
    BY <1>18, AnsweredHead DEF CrashInDoModify
  <2>2. PICK row \in {NoRow, Flushed(Head(lookups).ver)} : Torn(Head(lookups).item, row)
    BY <1>18 DEF CrashInDoModify
  <2>3. QED
    BY <1>161, <2>1, <2>2
<1>19. CASE UNCHANGED vars
  BY <1>1, <1>19 DEF vars, LookupsCurrent, OwedKept, OwedStored, Present
<1>20. QED
  BY <1>3, <1>4, <1>5, <1>6, <1>7, <1>8, <1>10, <1>11, <1>12, <1>13, <1>14, <1>152, <1>153, <1>16,
     <1>17, <1>18, <1>19 DEF Next

LEMMA IInvInit == Init => IInv
<1> SUFFICES ASSUME Init
             PROVE  IInv
  OBVIOUS
<1>1. TypeOK
  BY StorageConstants, EmptySeq DEF Init, TypeOK, NoRow, Row, Flags
<1>2. LookupsCurrent /\ OwedKept
  BY DEF Init, LookupsCurrent, OwedKept, OwedStored
<1>3. QED
  BY <1>1, <1>2 DEF IInv

\* A flag that was read is still the row's when its callback runs, and no item
\* has two lookups: what modifyItem's and the journal's callbacks rely on.
THEOREM LookupsStayCurrent ==
    ASSUME Serial
    PROVE  Spec => []LookupsCurrent
<1>1. IInv => LookupsCurrent
  BY DEF IInv
<1>2. QED
  BY <1>1, IInvInit, IInvStep, PTL DEF Spec

\* Whatever number of items, contents and outstanding lookups, restarts included:
\* an offline change reported as stored is in the journal as reported, until it is
\* reset, overwritten, replaced or deleted - provided the process never dies while
\* a row that has a flag is rewritten, where the code does lose it.
THEOREM OwedStaysStored ==
    ASSUME Serial, ~TornFlags
    PROVE  Spec => []OwedStored
<1>1. IInv => OwedStored
  BY DEF IInv, OwedKept
<1>2. QED
  BY <1>1, IInvInit, IInvStep, PTL DEF Spec

-----------------------------------------------------------------------------
(* The flags implement OfflineJournal *)

\* One row's flag changes to f and no other row's does: as the journal sees it.
LEMMA FlagChanged ==
    ASSUME TypeOK, NEW i \in Items, NEW row \in Row, rows' = [rows EXCEPT ![i] = row]
    PROVE  [j \in Items |-> rows'[j].flag]
             = [[j \in Items |-> rows[j].flag] EXCEPT ![i] = row.flag]
BY DEF TypeOK

\* Writing a row whose flag is none discharges its item.
LEMMA FlagCleared ==
    ASSUME TypeOK, NEW i \in Items, NEW row \in Row, row.flag = "none",
           rows' = [rows EXCEPT ![i] = row]
    PROVE  Journal!Next
BY FlagChanged DEF Journal!Next, Journal!Discharge

\* Writing a row that marks its item modifies or deletes it, as far as its
\* flag allows.
LEMMA FlagMarked ==
    ASSUME TypeOK, NEW i \in Items, NEW row \in Row,
           rows' = [rows EXCEPT ![i] = row],
           \/ rows[i].flag = "none" /\ row.flag = "modified"
           \/ rows[i].flag \in {"none", "modified"} /\ row.flag = "deleted"
    PROVE  Journal!Next
<1>1. CASE rows[i].flag = "none" /\ row.flag = "modified"
  BY <1>1, FlagChanged DEF Journal!Next, Journal!Modify
<1>2. CASE rows[i].flag \in {"none", "modified"} /\ row.flag = "deleted"
  BY <1>2, FlagChanged DEF Journal!Next, Journal!Delete
<1>3. QED
  BY <1>1, <1>2

\* Every step of the database is a step of the journal or leaves it unchanged.
LEMMA JournalStep ==
    ASSUME Serial, IInv, [Next]_vars
    PROVE  [Journal!Next]_([i \in Items |-> rows[i].flag])
<1> USE DEF IInv
<1> DEFINE l == Head(lookups)
<1>1. ASSUME NEW i \in Items, AdoptItem(i)
      PROVE  Journal!Next
  <2>1. Flushed(clock') \in Row /\ Flushed(clock').flag = "none"
    BY <1>1, ClockTicks, RowHelpers DEF AdoptItem, Flushed
  <2>2. QED
    BY <1>1, <2>1, FlagCleared DEF AdoptItem
<1>2. ASSUME NEW i \in Items, AdoptOfflineItem(i)
      PROVE  Journal!Next
  <2>1. clock' \in 0 .. MaxVersion /\ clock' # 0
    BY <1>2, ClockTicks DEF AdoptOfflineItem
  <2>2. /\ WithFlag(Flushed(clock'), "created") \in Row
        /\ WithFlag(Flushed(clock'), "created").flag = "created"
    BY <2>1 DEF WithFlag, Flushed, Row, Flags
  <2>3. Journal!Create(i)
    BY <1>2, <2>2, FlagChanged DEF AdoptOfflineItem, Journal!Create
  <2>4. QED
    BY <2>3 DEF Journal!Next
<1>3. ASSUME NEW i \in Items, OverwriteItem(i)
      PROVE  Journal!Next
  <2>1. clock' \in 0 .. MaxVersion
    BY <1>3, ClockTicks DEF OverwriteItem
  <2>2. /\ WithFlag(Flushed(clock'), "none") \in Row
        /\ WithFlag(Flushed(clock'), "none").flag = "none"
    BY <2>1 DEF WithFlag, Flushed, Row, Flags
  <2>3. QED
    BY <1>3, <2>2, FlagCleared DEF OverwriteItem
<1>4. ASSUME NEW i \in Items, DeleteItem(i)
      PROVE  Journal!Next
  BY <1>4, RowHelpers, FlagCleared DEF DeleteItem, NoRow
<1>5. ASSUME NEW i \in Items, ResetItemOfflineFlag(i)
      PROVE  Journal!Next
  <2>1. WithFlag(rows[i], "none") \in Row /\ WithFlag(rows[i], "none").flag = "none"
    BY DEF WithFlag, Row, Flags, TypeOK
  <2>2. QED
    BY <1>5, <2>1, FlagCleared DEF ResetItemOfflineFlag
<1>6. CASE DeleteCalendar
  <2>1. [i \in Items |-> rows'[i].flag] = [i \in Items |-> "none"]
    BY <1>6 DEF DeleteCalendar, NoRow
  <2>2. QED
    BY <2>1 DEF Journal!Next, Journal!DischargeAll
<1>7. ASSUME rows' = rows
      PROVE  UNCHANGED [i \in Items |-> rows[i].flag]
  BY <1>7
<1>8. ASSUME lookups # <<>>, l \in Lookup, l.seen \in Flags
      PROVE  l.item \in Items /\ l.seen = rows[l.item].flag /\ rows[l.item] \in Row
  <2>1. Len(lookups) >= 1 /\ l = lookups[1]
    BY <1>8, LookupPopped DEF TypeOK
  <2>2. 1 \in 1 .. Len(lookups)
    BY <2>1, LenProperties DEF TypeOK
  <2>3. l.item \in Items
    BY <1>8 DEF Lookup
  <2>4. l.seen # Unread
    BY <1>8 DEF Flags, Unread
  <2>5. QED
    BY <2>1, <2>2, <2>3, <2>4 DEF LookupsCurrent, TypeOK
<1>9. CASE DoModifyItem
  <2>1. /\ lookups # <<>> /\ l \in Lookup /\ l.seen \in Flags /\ l.ver # 0
        /\ l.ver \in 0 .. MaxVersion
    BY <1>9, AnsweredHead DEF DoModifyItem, Answered
  <2>2. l.item \in Items /\ l.seen = rows[l.item].flag
    BY <1>8, <2>1
  <2> DEFINE row == WithFlag(Flushed(l.ver), l.seen)
  <2>3. row \in Row /\ row.flag = l.seen
    BY <2>1 DEF WithFlag, Flushed, Row
  <2>4. rows' = [rows EXCEPT ![l.item] = row]
    BY <1>9 DEF DoModifyItem
  <2> HIDE DEF row
  <2>5. [j \in Items |-> rows'[j].flag]
          = [[j \in Items |-> rows[j].flag] EXCEPT ![l.item] = row.flag]
    BY <2>2, <2>3, <2>4, FlagChanged
  <2>6. UNCHANGED [i \in Items |-> rows[i].flag]
    BY <2>2, <2>3, <2>5
  <2>7. QED
    BY <2>6
<1>10. CASE FinishModifyOfflineItem
  <2>1. lookups # <<>> /\ l \in Lookup /\ l.seen \in Flags
    BY <1>10, AnsweredHead DEF FinishModifyOfflineItem, Answered
  <2>2. l.item \in Items /\ l.seen = rows[l.item].flag /\ rows[l.item] \in Row
    BY <1>8, <2>1
  <2> DEFINE row == AfterModifyOffline(rows[l.item], l.seen)
  <2>31. row \in Row
    BY <2>1, <2>2, RowHelpers
  <2>3. row.flag = l.seen \/ (l.seen = "none" /\ row.flag = "modified")
    BY <2>1, <2>2 DEF AfterModifyOffline, WithFlag, Row, Flags
  <2>4. rows' = [rows EXCEPT ![l.item] = row]
    BY <1>10 DEF FinishModifyOfflineItem
  <2> HIDE DEF row
  <2>5. [j \in Items |-> rows'[j].flag]
          = [[j \in Items |-> rows[j].flag] EXCEPT ![l.item] = row.flag]
    BY <2>2, <2>31, <2>4, FlagChanged
  <2>6. CASE row.flag = l.seen
    BY <2>2, <2>5, <2>6
  <2>7. CASE l.seen = "none" /\ row.flag = "modified"
    BY <2>2, <2>31, <2>4, <2>7, FlagMarked
  <2>8. QED
    BY <2>3, <2>6, <2>7
<1>11. CASE FinishDeleteOfflineItem
  <2>1. lookups # <<>> /\ l \in Lookup /\ l.seen \in Flags
    BY <1>11, AnsweredHead DEF FinishDeleteOfflineItem, Answered
  <2>2. l.item \in Items /\ l.seen = rows[l.item].flag /\ rows[l.item] \in Row
    BY <1>8, <2>1
  <2> DEFINE row == AfterDeleteOffline(rows[l.item], l.seen)
  <2>3. /\ row \in Row
        /\ \/ row.flag \in {"none", l.seen}
           \/ l.seen \in {"none", "modified"} /\ row.flag = "deleted"
    BY <2>1, <2>2, RowHelpers, CallbackFlags
  <2>4. rows' = [rows EXCEPT ![l.item] = row]
    BY <1>11 DEF FinishDeleteOfflineItem
  <2> HIDE DEF row
  <2>5. [j \in Items |-> rows'[j].flag]
          = [[j \in Items |-> rows[j].flag] EXCEPT ![l.item] = row.flag]
    BY <2>2, <2>3, <2>4, FlagChanged
  <2>6. CASE row.flag = "none"
    BY <2>2, <2>3, <2>4, <2>6, FlagCleared
  <2>7. CASE row.flag = l.seen
    BY <2>2, <2>5, <2>7
  <2>8. CASE l.seen \in {"none", "modified"} /\ row.flag = "deleted"
    BY <2>2, <2>3, <2>4, <2>8, FlagMarked
  <2>9. QED
    BY <2>3, <2>6, <2>7, <2>8
<1>12. ASSUME NEW i \in Items, CrashInAdoptOffline(i)
       PROVE  Journal!Next
  <2>1. Flushed(clock') \in Row /\ Flushed(clock').flag = "none"
    BY <1>12, ClockTicks, RowHelpers DEF CrashInAdoptOffline, Flushed
  <2>2. QED
    BY <1>12, <2>1, FlagCleared DEF CrashInAdoptOffline, Torn
<1>13. CASE CrashInDoModify
  <2>1. l.item \in Items /\ l.ver \in 0 .. MaxVersion
    BY <1>13, AnsweredHead DEF CrashInDoModify
  <2>2. PICK row \in {NoRow, Flushed(l.ver)} : Torn(l.item, row)
    BY <1>13 DEF CrashInDoModify
  <2>3. row \in Row /\ row.flag = "none"
    BY <2>1, RowHelpers DEF NoRow, Flushed
  <2>4. QED
    BY <2>1, <2>2, <2>3, FlagCleared DEF Torn
<1>14. CASE ReadFlag \/ Restart \/ UNCHANGED vars
  BY <1>7, <1>14 DEF ReadFlag, Restart, vars
<1>15. ASSUME NEW i \in Items, NEW chain \in BOOLEAN, ModifyItem(i, chain)
       PROVE  UNCHANGED [j \in Items |-> rows[j].flag]
  BY <1>7, <1>15 DEF ModifyItem
<1>16. ASSUME NEW i \in Items, DeleteOfflineItem(i)
       PROVE  UNCHANGED [j \in Items |-> rows[j].flag]
  BY <1>7, <1>16 DEF DeleteOfflineItem
<1>17. QED
  BY <1>1, <1>2, <1>3, <1>4, <1>5, <1>6, <1>9, <1>10, <1>11, <1>12, <1>13, <1>14, <1>15,
     <1>16 DEF Next

\* The database implements the journal for callers that wait for their own
\* operations: no deletion becomes a modification, and nothing the server has
\* never seen becomes something to update or delete there.
THEOREM JournalImplemented ==
    ASSUME Serial
    PROVE  Spec => JournalRefined
<1>1. Init => Journal!Init
  BY DEF Init, NoRow, Journal!Init
<1>2. QED
  BY <1>1, IInvInit, IInvStep, JournalStep, PTL DEF Spec, JournalRefined, Journal!Spec
=============================================================================
