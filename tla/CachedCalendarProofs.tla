------------------------- MODULE CachedCalendarProofs -------------------------
(***************************************************************************)
(* Theorems about CachedCalendar, for any number of items, waiting callers *)
(* and playbacks.  Whatever may go wrong (Disturbances): its type          *)
(* invariant, that at most one sync or the playback that ends it is on its *)
(* way exactly while somebody waits for it, and that a playback waits for  *)
(* as many answers as there are operations of its own to answer.  Without  *)
(* some of the disturbances: that what the user did offline is held until  *)
(* the server has seen it, and that an acknowledgement is of the content   *)
(* it clears the flag of.                                                  *)
(***************************************************************************)
EXTENDS CachedCalendar, OfflineStorageProofs, FiniteSetTheorems

-----------------------------------------------------------------------------
(* The inductive invariant *)

Types == TypeOK /\ CacheTypeOK

\* The refill loops belong to a sync that is waiting for the provider's getItems.
LoopsRefill == sync.phase \notin {"asked", "answered"} => sync.loops = <<>>

\* OneSync, with "at most one" said by elements.
OneOnItsWay ==
    /\ queue # 0 <=> sync.phase # "idle" \/ Drains # {}
    /\ sync.phase # "idle" => Drains = {}
    /\ \A s, t \in Drains : s = t

CallsOf(s) == {c \in calls : c.by = s}

\* A failed deletion is answered without being counted: then the playback waits for
\* more answers than there are operations, never for fewer.
Counted ==
    \A s \in Slots :
        /\ Cardinality(CallsOf(s)) <= tasks[s].left
        /\ "deletes" \notin Disturbances => tasks[s].left = Cardinality(CallsOf(s))
        /\ tasks[s].wait <=> tasks[s].left > 0
        /\ tasks[s].kind = "none" => tasks[s] = NoTask

CacheInv == Types /\ LoopsRefill /\ OneOnItsWay /\ Counted

-----------------------------------------------------------------------------
(* Counting *)

LEMMA CallsFinite ==
    ASSUME Types
    PROVE  /\ IsFiniteSet(calls)
           /\ \A s : IsFiniteSet(CallsOf(s)) /\ Cardinality(CallsOf(s)) \in Nat
<1> DEFINE R == [op : {"add", "modify", "delete"}, item : Items,
                 ver : 0 .. MaxVersion, by : 0 .. MaxPlaybacks]
<1>1. IsFiniteSet({"add", "modify", "delete"})
  <2>1. IsFiniteSet({} \cup {"add"} \cup {"modify"} \cup {"delete"})
    BY FS_EmptySet, FS_AddElement
  <2>2. {} \cup {"add"} \cup {"modify"} \cup {"delete"} = {"add", "modify", "delete"}
    OBVIOUS
  <2>3. QED
    BY <2>1, <2>2
<1>2. IsFiniteSet(R)
  <2>1. IsFiniteSet({"add", "modify", "delete"} \X Items)
    BY <1>1, CacheConstants, FS_Product
  <2>2. IsFiniteSet((0 .. MaxVersion) \X (0 .. MaxPlaybacks))
    <3>1. IsFiniteSet(0 .. MaxVersion) /\ IsFiniteSet(0 .. MaxPlaybacks)
      BY CacheConstants, StorageConstants, FS_Interval
    <3>2. QED
      BY <3>1, FS_Product
  <2> DEFINE A == {"add", "modify", "delete"} \X Items
             B == (0 .. MaxVersion) \X (0 .. MaxPlaybacks)
             g == [p \in A \X B |-> [op |-> p[1][1], item |-> p[1][2],
                                     ver |-> p[2][1], by |-> p[2][2]]]
  <2>3. IsFiniteSet(A \X B)
    BY <2>1, <2>2, FS_Product
  <2>4. g \in Surjection(A \X B, R)
    <3>1. \A p \in A \X B : g[p] \in R
      OBVIOUS
    <3>2. ASSUME NEW r \in R
          PROVE  \E p \in A \X B : g[p] = r
      <4>1. <<<<r.op, r.item>>, <<r.ver, r.by>>>> \in A \X B
        OBVIOUS
      <4>2. g[<<<<r.op, r.item>>, <<r.ver, r.by>>>>] = r
        BY <4>1
      <4>3. QED
        BY <4>1, <4>2
    <3>3. g \in [A \X B -> R]
      BY <3>1
    <3>4. QED
      BY <3>2, <3>3 DEF Surjection
  <2>5. QED
    BY <2>3, <2>4, FS_Surjection
<1>3. calls \subseteq R
  BY DEF Types, CacheTypeOK, ProviderCall
<1>4. IsFiniteSet(calls)
  BY <1>2, <1>3, FS_Subset
<1>5. ASSUME NEW s
      PROVE  IsFiniteSet(CallsOf(s)) /\ Cardinality(CallsOf(s)) \in Nat
  <2>1. CallsOf(s) \subseteq calls
    BY DEF CallsOf
  <2>2. QED
    BY <1>4, <2>1, FS_Subset, FS_CardinalityType
<1>6. QED
  BY <1>4, <1>5

\* Operations are as many as the items they are about, one for each.
LEMMA AsManyAsItems ==
    ASSUME NEW found \in SUBSET Items, NEW cs,
           \A c \in cs : c.item \in found,
           \A c, d \in cs : c.item = d.item => c = d,
           \A i \in found : \E c \in cs : c.item = i
    PROVE  IsFiniteSet(cs) /\ Cardinality(cs) = Cardinality(found)
<1> DEFINE f == [c \in cs |-> c.item]
<1>1. IsFiniteSet(found)
  BY CacheConstants, FS_Subset
<1>2. /\ f \in [cs -> found] /\ DOMAIN f = cs
      /\ \A c, d \in cs : f[c] = f[d] => c = d
      /\ \A i \in found : \E c \in cs : f[c] = i
  OBVIOUS
<1> HIDE DEF f
<1>3. f \in Injection(cs, found) /\ f \in Surjection(cs, found)
  BY <1>2 DEF Injection, Surjection, IsInjective
<1>4. QED
  BY <1>1, <1>3, FS_Injection

\* At most one drain, said by its number and by its elements.
LEMMA OneDrain ==
    Cardinality(Drains) <= 1 <=> \A s, t \in Drains : s = t
<1>1. Drains \subseteq Slots
  BY DEF Drains
<1>2. IsFiniteSet(Slots)
  BY CacheConstants, FS_Interval DEF Slots
<1>3. IsFiniteSet(Drains) /\ Cardinality(Drains) \in Nat
  BY <1>1, <1>2, FS_Subset, FS_CardinalityType
<1>4. CASE Drains = {}
  BY <1>3, <1>4, FS_EmptySet
<1>5. CASE Drains # {}
  <2>1. Cardinality(Drains) # 0
    BY <1>3, <1>5, FS_EmptySet
  <2>2. Cardinality(Drains) <= 1 <=> \E x : Drains = {x}
    <3>1. Cardinality(Drains) <= 1 <=> Cardinality(Drains) = 1
      BY <1>3, <2>1
    <3>2. Cardinality(Drains) = 1 <=> \E x : Drains = {x}
      BY <1>3, FS_Singleton
    <3>3. QED
      BY <3>1, <3>2
  <2>3. (\E x : Drains = {x}) <=> \A s, t \in Drains : s = t
    BY <1>5
  <2>4. QED
    BY <2>2, <2>3
<1>6. QED
  BY <1>4, <1>5
-----------------------------------------------------------------------------
(* What the helpers do *)

LEMMA PostedTyped ==
    /\ NoTask \in Task
    /\ \A k \in Kinds, then \in {"drain", "load"} : Posted(k, then) \in Task
<1>1. Cardinality(Items) \in Nat
  BY CacheConstants, FS_CardinalityType
<1>2. QED
  BY <1>1 DEF NoTask, Task, Posted, Kinds

\* A playback that goes on: to its end or to the next kind.
LEMMA Advanced ==
    ASSUME Types, NEW s \in Slots, tasks[s].kind # "none", Advance(s)
    PROVE  \/ /\ tasks' = [tasks EXCEPT ![s] = NoTask]
              /\ queue' = IF tasks[s].then = "drain" THEN 0 ELSE queue
           \/ \E k \in Kinds :
                  /\ tasks' = [tasks EXCEPT ![s] = Posted(k, tasks[s].then)]
                  /\ queue' = queue
<1>1. tasks \in [Slots -> Task] /\ tasks[s] \in Task
  BY DEF Types, CacheTypeOK
<1>2. CASE tasks[s].kind = "deleted"
  BY <1>2 DEF Advance, Finish, EmptyQueue
<1>3. CASE tasks[s].kind # "deleted"
  <2>1. tasks[s].kind \in {"created", "modified"}
    BY <1>1, <1>3 DEF Task, Kinds
  <2>2. AfterKind[tasks[s].kind] \in Kinds
    BY <2>1 DEF AfterKind, Kinds
  <2>3. /\ tasks' = [tasks EXCEPT ![s] = Posted(AfterKind[tasks[s].kind], tasks[s].then)]
        /\ queue' = queue
    BY <1>1, <1>3 DEF Advance
  <2>4. QED
    BY <2>2, <2>3
<1>4. QED
  BY <1>2, <1>3

\* An answer is counted: the playback advances at the last one.
LEMMA CountedDown ==
    ASSUME Types, NEW s \in Slots, tasks[s].kind # "none", tasks[s].left > 0, CountDown(s)
    PROVE  \/ /\ tasks[s].left = 1
              /\ tasks' = [tasks EXCEPT ![s] = NoTask]
              /\ queue' = IF tasks[s].then = "drain" THEN 0 ELSE queue
           \/ /\ tasks[s].left = 1
              /\ \E k \in Kinds :
                  /\ tasks' = [tasks EXCEPT ![s] = Posted(k, tasks[s].then)]
                  /\ queue' = queue
           \/ /\ tasks[s].left # 1
              /\ tasks' = [tasks EXCEPT ![s].left = tasks[s].left - 1]
              /\ queue' = queue
<1>1. CASE tasks[s].left = 1
  BY <1>1, Advanced DEF CountDown
<1>2. CASE tasks[s].left # 1
  BY <1>2 DEF CountDown, Types, CacheTypeOK
<1>3. QED
  BY <1>1, <1>2

\* A playback starts in a slot that was free.
LEMMA PlaybackStarted ==
    ASSUME NEW then, StartPlayback(then)
    PROVE  \E s \in Slots :
               tasks[s] = NoTask /\ tasks' = [tasks EXCEPT ![s] = Posted("created", then)]
BY DEF StartPlayback

LEMMA TaskTyped ==
    ASSUME Types, NEW s \in Slots, NEW t \in Task, tasks' = [tasks EXCEPT ![s] = t]
    PROVE  /\ tasks' \in [Slots -> Task]
           /\ tasks'[s] = t
           /\ \A r \in Slots : r # s => tasks'[r] = tasks[r]
BY DEF Types, CacheTypeOK

LEMMA CountedTyped ==
    ASSUME NEW t \in Task, NEW n \in 0 .. t.left
    PROVE  /\ [t EXCEPT !.left = n] \in Task
           /\ [t EXCEPT !.left = n].left = n
           /\ [t EXCEPT !.left = n].wait = t.wait
           /\ [t EXCEPT !.left = n].kind = t.kind
           /\ [t EXCEPT !.left = n].then = t.then
<1>1. n \in 0 .. Cardinality(Items)
  BY CacheConstants, FS_CardinalityType DEF Task
<1>2. QED
  BY <1>1 DEF Task

\* The playback an answer belongs to stays a playback.
LEMMA CountDownTyped ==
    ASSUME Types, NEW s \in Slots, tasks[s].kind # "none", tasks[s].left > 0, CountDown(s)
    PROVE  tasks' \in [Slots -> Task] /\ queue' \in 0 .. MaxQueue
<1>1. tasks[s] \in Task /\ tasks[s].then \in {"drain", "load"} /\ queue \in 0 .. MaxQueue
  BY DEF Types, CacheTypeOK, Task
<1>2. CASE tasks[s].left = 1 /\ tasks' = [tasks EXCEPT ![s] = NoTask]
           /\ queue' = IF tasks[s].then = "drain" THEN 0 ELSE queue
  <2>1. tasks' \in [Slots -> Task]
    BY <1>2, PostedTyped, TaskTyped
  <2>2. queue' \in 0 .. MaxQueue
    BY <1>1, <1>2, CacheConstants
  <2>3. QED
    BY <2>1, <2>2
<1>3. ASSUME NEW k \in Kinds, tasks' = [tasks EXCEPT ![s] = Posted(k, tasks[s].then)],
             queue' = queue
      PROVE  tasks' \in [Slots -> Task] /\ queue' \in 0 .. MaxQueue
  BY <1>1, <1>3, PostedTyped, TaskTyped
<1>4. CASE /\ tasks[s].left # 1 /\ queue' = queue
           /\ tasks' = [tasks EXCEPT ![s].left = tasks[s].left - 1]
  <2>1. tasks[s].left - 1 \in 0 .. tasks[s].left
    BY <1>1 DEF Task
  <2> DEFINE t == [tasks[s] EXCEPT !.left = tasks[s].left - 1]
  <2>2. t \in Task
    BY <1>1, <2>1, CountedTyped
  <2>3. tasks' = [tasks EXCEPT ![s] = t]
    BY <1>4
  <2> HIDE DEF t
  <2>4. QED
    BY <1>1, <1>4, <2>2, <2>3, TaskTyped
<1>5. QED
  BY <1>2, <1>3, <1>4, CountedDown

-----------------------------------------------------------------------------
(* Types of the sync *)

LEMMA IdleTyped ==
    /\ Idle \in Sync /\ Idle.phase = "idle" /\ Idle.loops = <<>>
    /\ \A p \in {"idle", "asked", "answered", "merge"} \cup Kinds :
           /\ [Idle EXCEPT !.phase = p] \in Sync
           /\ [Idle EXCEPT !.phase = p].phase = p
           /\ [Idle EXCEPT !.phase = p].loops = <<>>
<1>1. <<>> \in Seq(SUBSET Items) /\ 0 \in 0 .. MaxBatches
  BY CacheConstants
<1>2. QED
  BY <1>1 DEF Idle, Sync, Kinds

SyncTypes ==
    /\ queue \in 0 .. MaxQueue
    /\ sync \in Sync
    /\ collected \in [Items -> Row]
    /\ fetched \in [Items -> 0 .. MaxVersion]

\* What every sync begins with.
LEMMA NothingCollected ==
    /\ [i \in Items |-> NoRow] \in [Items -> Row]
    /\ [i \in Items |-> 0] \in [Items -> 0 .. MaxVersion]
BY RowHelpers, StorageConstants

\* A refill loop is removed when it has completed.
LEMMA LoopRemoved ==
    ASSUME NEW loops \in Seq(SUBSET Items), NEW k \in DOMAIN loops
    PROVE  RemoveAt(loops, k) \in Seq(SUBSET Items)
<1>1. k \in 1 .. Len(loops) /\ Len(loops) \in Nat
  BY LenProperties
<1>2. \A i \in 1 .. (k - 1) : i \in 1 .. Len(loops)
  BY <1>1
<1>3. SubSeq(loops, 1, k - 1) \in Seq(SUBSET Items)
  BY <1>1, <1>2, SubSeqProperties
<1>4. SubSeq(loops, k + 1, Len(loops)) \in Seq(SUBSET Items)
  BY <1>1, SubSeqProperties
<1>5. QED
  BY <1>3, <1>4, ConcatProperties DEF RemoveAt

LEMMA SynchronizeTyped ==
    ASSUME Types, Synchronize
    PROVE  SyncTypes'
<1>1. SyncTypes
  BY DEF Types, CacheTypeOK, SyncTypes
<1>2. CASE queue > 0
  BY <1>1, <1>2, CacheConstants DEF Synchronize, SyncTypes
<1>3. CASE ~(queue > 0) /\ offline
  BY <1>1, <1>3, CacheConstants DEF Synchronize, SyncTypes, EmptyQueue
<1>4. CASE ~(queue > 0) /\ ~offline
  BY <1>4, CacheConstants, IdleTyped, NothingCollected DEF Synchronize, SyncTypes, Kinds
<1>5. QED
  BY <1>2, <1>3, <1>4

LEMMA OperationTyped ==
    ASSUME Types, NEW status, OperationComplete(status)
    PROVE  SyncTypes' /\ tasks' \in [Slots -> Task]
<1>1. SyncTypes /\ tasks \in [Slots -> Task]
  BY DEF Types, CacheTypeOK, SyncTypes
<1>2. CASE status = "ok"
  BY <1>1, <1>2, IdleTyped DEF OperationComplete, SyncTypes
<1>3. CASE status # "ok"
  <2>1. StartPlayback("load") /\ queue' = 0 /\ sync' = Idle /\ UNCHANGED <<collected, fetched>>
    BY <1>3 DEF OperationComplete, EmptyQueue
  <2>2. tasks' \in [Slots -> Task]
    BY <2>1, PlaybackStarted, PostedTyped, TaskTyped DEF Kinds
  <2>3. QED
    BY <1>1, <2>1, <2>2, IdleTyped, CacheConstants DEF SyncTypes
<1>4. QED
  BY <1>2, <1>3

-----------------------------------------------------------------------------
(* Types of the rest *)

PlaybackTypes == tasks \in [Slots -> Task] /\ calls \subseteq ProviderCall

NetTypes ==
    /\ offline \in BOOLEAN /\ loading \in BOOLEAN
    /\ server \in [Items -> 0 .. MaxVersion]
    /\ unsent \in [Items -> [kind : {"none", "put", "delete"}, ver : 0 .. MaxVersion]]

LEMMA TypesSplit == Types <=> TypeOK /\ SyncTypes /\ PlaybackTypes /\ NetTypes
BY DEF Types, CacheTypeOK, SyncTypes, PlaybackTypes, NetTypes

\* The storage calendar's writes, of a row and of a request.
LEMMA RowStored ==
    ASSUME TypeOK, NEW i \in Items, NEW row \in Row, NEW told \in Flags,
           Store(i, row, told), lookups' = lookups, clock' \in 0 .. MaxVersion
    PROVE  TypeOK'
<1>1. rows' \in [Items -> Row]
  BY RowWritten DEF Store
<1>2. owed' \in [Items -> Flags]
  BY OwedWritten DEF Store
<1>3. QED
  BY <1>1, <1>2 DEF TypeOK

LEMMA RequestStored ==
    ASSUME TypeOK, NEW op \in {"modify", "mark", "remove"}, NEW i \in Items,
           NEW v \in 0 .. MaxVersion, NEW chain \in BOOLEAN, op = "modify" => v # 0,
           PostLookup(op, i, v, chain), rows' \in [Items -> Row],
           owed' \in [Items -> Flags], clock' \in 0 .. MaxVersion
    PROVE  TypeOK'
BY LookupPosted DEF TypeOK

LEMMA Ticked ==
    ASSUME TypeOK, NewVersion
    PROVE  clock' \in 0 .. MaxVersion /\ clock' # 0
BY ClockTicks DEF NewVersion

LEMMA UnsentWritten ==
    ASSUME NetTypes, NEW i \in Items, NEW x \in [kind : {"none", "put", "delete"}, ver : 0 .. MaxVersion],
           unsent' = [unsent EXCEPT ![i] = x]
    PROVE  unsent' \in [Items -> [kind : {"none", "put", "delete"}, ver : 0 .. MaxVersion]]
BY DEF NetTypes

LEMMA NothingTyped == Nothing \in [kind : {"none", "put", "delete"}, ver : 0 .. MaxVersion]
BY StorageConstants DEF Nothing

\* An operation the provider performs changes the server and settles what is unsent.
LEMMA PerformedTyped ==
    ASSUME Types, NEW c \in calls, Performed(c)
    PROVE  /\ c \in ProviderCall
           /\ server' \in [Items -> 0 .. MaxVersion]
           /\ unsent' \in [Items -> [kind : {"none", "put", "delete"}, ver : 0 .. MaxVersion]]
<1>1. NetTypes /\ c \in ProviderCall
  BY TypesSplit DEF PlaybackTypes
<1>2. c.item \in Items /\ c.ver \in 0 .. MaxVersion
  BY <1>1 DEF ProviderCall
<1>3. server' = [server EXCEPT ![c.item] = c.ver]
  BY DEF Performed
<1>4. server' \in [Items -> 0 .. MaxVersion]
  BY <1>1, <1>2, <1>3 DEF NetTypes
<1> DEFINE x == unsent[c.item]
           y == IF c.by = User \/ x.ver <= c.ver \/ (x.kind = "delete" /\ c.op = "delete")
                THEN Nothing ELSE x
<1>5. unsent' = [unsent EXCEPT ![c.item] = y]
  BY DEF Performed
<1>6. x \in [kind : {"none", "put", "delete"}, ver : 0 .. MaxVersion]
  BY <1>1, <1>2 DEF NetTypes
<1>7. y \in [kind : {"none", "put", "delete"}, ver : 0 .. MaxVersion]
  BY <1>6, NothingTyped
<1> HIDE DEF x, y
<1>8. QED
  BY <1>1, <1>2, <1>4, <1>5, <1>7, UnsentWritten

\* The sync: asking, refilling, merging.
LEMMA SyncStepTyped ==
    ASSUME Types,
           \/ Refresh \/ UncachedLoaded \/ GoOffline \/ GoOnline \/ CollectOffline
           \/ GetAnswer \/ AddFetched \/ LoopCompleted \/ MergeCompleted
    PROVE  Types'
<1>1. TypeOK /\ SyncTypes /\ PlaybackTypes /\ NetTypes
  BY TypesSplit
<1>2. CASE Refresh
  <2>1. UNCHANGED <<vars, offline, tasks, calls, server, unsent>>
    BY <1>2 DEF Refresh
  <2>2. TypeOK' /\ PlaybackTypes'
    BY <1>1, <2>1 DEF TypeOK, vars, PlaybackTypes
  <2>3. SyncTypes' /\ NetTypes'
    <3>1. CASE offline
      BY <1>1, <1>2, <2>1, <3>1, SynchronizeTyped DEF Refresh, NetTypes
    <3>2. CASE ~offline
      BY <1>1, <1>2, <2>1, <3>2 DEF Refresh, RefreshOnline, syncVars, SyncTypes, NetTypes
    <3>3. QED
      BY <3>1, <3>2
  <2>4. QED
    BY <2>2, <2>3, TypesSplit DEF Types, CacheTypeOK, SyncTypes, PlaybackTypes, NetTypes
<1>3. CASE UncachedLoaded
  <2>1. SyncTypes'
    BY <1>3, SynchronizeTyped DEF UncachedLoaded
  <2>2. QED
    BY <1>1, <1>3, <2>1
       DEF UncachedLoaded, vars, Types, TypeOK, CacheTypeOK, SyncTypes, PlaybackTypes, NetTypes
<1>4. CASE GoOffline \/ GoOnline
  BY <1>1, <1>4
     DEF GoOffline, GoOnline, RefreshOnline, syncVars, vars, Types, TypeOK, CacheTypeOK, SyncTypes,
         PlaybackTypes, NetTypes
<1>5. CASE CollectOffline
  <2>1. collected' \in [Items -> Row]
    BY <1>1, <1>5 DEF CollectOffline, SyncTypes, TypeOK
  <2>2. sync' \in Sync
    <3>1. sync.phase \in Kinds /\ sync' = [sync EXCEPT !.phase = AfterCollecting[sync.phase]]
      BY <1>1, <1>5 DEF CollectOffline, SyncTypes
    <3>2. AfterCollecting[sync.phase] \in {"asked"} \cup Kinds
      BY <3>1 DEF AfterCollecting, Kinds
    <3>3. QED
      BY <1>1, <3>1, <3>2 DEF SyncTypes, Sync
  <2>3. QED
    BY <1>1, <1>5, <2>1, <2>2
       DEF CollectOffline, vars, Types, TypeOK, CacheTypeOK, SyncTypes, PlaybackTypes, NetTypes
<1>6. ASSUME NEW batch \in SUBSET Items, GetResult(batch)
      PROVE  Types'
  <2> DEFINE snapshot == IF sync.renewed THEN fetched ELSE server
             rest == IF sync.renewed THEN sync.rest ELSE {i \in Items : server[i] # 0}
             loops == Append(sync.loops, batch)
  <2>1. fetched' \in [Items -> 0 .. MaxVersion]
    BY <1>1, <1>6 DEF GetResult, SyncTypes, NetTypes
  <2>2. sync' \in Sync
    <3>1. rest \subseteq Items /\ sync.loops \in Seq(SUBSET Items)
          /\ sync.batches + 1 \in 0 .. MaxBatches
      BY <1>1, <1>6, CacheConstants DEF GetResult, SyncTypes, Sync
    <3>2. loops \in Seq(SUBSET Items)
      BY <3>1, AppendProperties
    <3>3. sync' = [sync EXCEPT !.renewed = TRUE, !.batches = sync.batches + 1,
                               !.rest = rest \ batch, !.loops = loops]
      BY <1>1, <1>6 DEF GetResult, SyncTypes, Sync
    <3> HIDE DEF rest, loops
    <3>4. QED
      BY <1>1, <3>1, <3>2, <3>3 DEF SyncTypes, Sync
  <2>3. TypeOK'
    BY <1>1, <1>6, RowHelpers DEF GetResult, Wipe, TypeOK, Flags
  <2>4. QED
    BY <1>1, <1>6, <2>1, <2>2, <2>3
       DEF GetResult, Types, CacheTypeOK, SyncTypes, PlaybackTypes, NetTypes
<1>7. ASSUME NEW status \in {"ok", "failed"}, GetCompleted(status)
      PROVE  Types'
  <2>1. SyncTypes' /\ tasks' \in [Slots -> Task]
    <3>1. CASE sync.loops = <<>>
      BY <1>7, <3>1, OperationTyped DEF GetCompleted
    <3>2. CASE sync.loops # <<>>
      BY <1>1, <1>7, <3>2 DEF GetCompleted, SyncTypes, Sync, PlaybackTypes
    <3>3. QED
      BY <3>1, <3>2
  <2>2. QED
    BY <1>1, <1>7, <2>1
       DEF GetCompleted, vars, Types, TypeOK, CacheTypeOK, SyncTypes, PlaybackTypes, NetTypes
<1>8. CASE AddFetched
  <2>1. PICK k \in DOMAIN sync.loops : \E i \in sync.loops[k] :
            /\ Store(i, Flushed(fetched[i]), "none")
            /\ sync' = [sync EXCEPT !.loops[k] = sync.loops[k] \ {i}]
            /\ UNCHANGED <<lookups, clock, offline, loading, queue, collected, fetched, tasks,
                           calls, server, unsent>>
    BY <1>1, <1>8 DEF AddFetched, SyncTypes, Sync
  <2> PICK i \in sync.loops[k] :
            /\ Store(i, Flushed(fetched[i]), "none")
            /\ sync' = [sync EXCEPT !.loops[k] = sync.loops[k] \ {i}]
            /\ UNCHANGED <<lookups, clock, offline, loading, queue, collected, fetched, tasks,
                           calls, server, unsent>>
    BY <2>1
  <2>2. sync.loops \in Seq(SUBSET Items)
    BY <1>1 DEF SyncTypes, Sync
  <2>3. sync.loops[k] \in SUBSET Items
    BY <2>1, <2>2, ElementOfSeq, LenProperties
  <2>4. Flushed(fetched[i]) \in Row
    BY <1>1, <2>3, RowHelpers DEF SyncTypes
  <2>5. TypeOK'
    BY <1>1, <2>1, <2>3, <2>4, RowStored DEF TypeOK, Flags
  <2>6. sync' \in Sync
    <3> DEFINE loops == [sync.loops EXCEPT ![k] = sync.loops[k] \ {i}]
    <3>1. loops \in Seq(SUBSET Items)
      BY <2>1, <2>2, <2>3, ExceptSeq, LenProperties
    <3>2. sync' = [sync EXCEPT !.loops = loops]
      BY <2>1
    <3> HIDE DEF loops
    <3>3. QED
      BY <1>1, <3>1, <3>2 DEF SyncTypes, Sync
  <2>7. QED
    BY <1>1, <2>1, <2>5, <2>6 DEF Types, CacheTypeOK, SyncTypes, PlaybackTypes, NetTypes
<1>9. CASE LoopCompleted
  <2>1. PICK k \in DOMAIN sync.loops :
            /\ IF sync.op # "none" /\ RemoveAt(sync.loops, k) = <<>> THEN OperationComplete(sync.op)
               ELSE /\ sync' = [sync EXCEPT !.loops = RemoveAt(sync.loops, k), !.op = "none"]
                    /\ UNCHANGED <<queue, collected, fetched, tasks>>
            /\ UNCHANGED <<vars, offline, loading, calls, server, unsent>>
    BY <1>9 DEF LoopCompleted
  <2>2. RemoveAt(sync.loops, k) \in Seq(SUBSET Items)
    BY <1>1, <2>1, LoopRemoved DEF SyncTypes, Sync
  <2>3. SyncTypes' /\ tasks' \in [Slots -> Task]
    <3>1. CASE sync.op # "none" /\ RemoveAt(sync.loops, k) = <<>>
      BY <2>1, <3>1, OperationTyped
    <3>2. CASE ~(sync.op # "none" /\ RemoveAt(sync.loops, k) = <<>>)
      BY <1>1, <2>1, <2>2, <3>2 DEF SyncTypes, Sync, PlaybackTypes
    <3>3. QED
      BY <3>1, <3>2
  <2>4. QED
    BY <1>1, <2>1, <2>3
       DEF vars, Types, TypeOK, CacheTypeOK, SyncTypes, PlaybackTypes, NetTypes
<1>10. CASE MergeCompleted
  <2>1. tasks' \in [Slots -> Task]
    BY <1>10, PlaybackStarted, PostedTyped, TaskTyped DEF MergeCompleted, Kinds
  <2>2. QED
    BY <1>1, <1>10, <2>1, IdleTyped, NothingCollected
       DEF MergeCompleted, vars, Types, TypeOK, CacheTypeOK, SyncTypes, PlaybackTypes, NetTypes
<1>11. QED
  BY <1>2, <1>3, <1>4, <1>5, <1>6, <1>7, <1>8, <1>9, <1>10 DEF GetAnswer

\* Merging one collected item.
LEMMA MergeStepTyped ==
    ASSUME Types, MergeItem
    PROVE  Types'
<1>1. TypeOK /\ SyncTypes /\ PlaybackTypes /\ NetTypes
  BY TypesSplit
<1>2. PICK i \in Items : \/ MergeCreated(i) \/ MergeModified(i) \/ MergeRevived(i)
                         \/ MergeDeleted(i) \/ MergeDropped(i)
  BY DEF MergeItem
<1>3. Merged(i)
  BY <1>2 DEF MergeCreated, MergeModified, MergeRevived, MergeDeleted, MergeDropped
<1>4. collected[i] \in Row /\ Mine(i).ver \in 0 .. MaxVersion
  BY <1>1 DEF SyncTypes, Mine, Row
<1>5. SyncTypes' /\ PlaybackTypes'
  BY <1>1, <1>3, RowHelpers DEF Merged, SyncTypes, PlaybackTypes
<1>6. rows' \in [Items -> Row] /\ owed' \in [Items -> Flags] => clock' \in 0 .. MaxVersion
  BY <1>1, <1>3 DEF Merged, TypeOK
<1>7. clock' \in 0 .. MaxVersion
  BY <1>1, <1>3 DEF Merged, TypeOK
<1>8. CASE MergeCreated(i) \/ MergeRevived(i)
  <2>1. WithFlag(Flushed(Mine(i).ver), "created") \in Row
    BY <1>4, RowHelpers DEF Flags
  <2>2. TypeOK'
    BY <1>1, <1>7, <1>8, <2>1, RowStored DEF MergeCreated, MergeRevived, Flags
  <2>3. NetTypes'
    BY <1>1, <1>3, <1>8 DEF MergeCreated, MergeRevived, Merged, NetTypes
  <2>4. QED
    BY <1>5, <2>2, <2>3 DEF Types, CacheTypeOK, SyncTypes, PlaybackTypes, NetTypes
<1>9. CASE MergeModified(i)
  <2>1. Flushed(Mine(i).ver) \in Row
    BY <1>4, RowHelpers
  <2>2. rows' \in [Items -> Row]
    BY <1>1, <1>9, <2>1, RowWritten DEF MergeModified, Store
  <2>3. owed' \in [Items -> Flags]
    BY <1>1, <1>9, OwedWritten DEF MergeModified, Store, Flags
  <2>4. PostLookup("mark", i, Mine(i).ver, TRUE)
    BY <1>9 DEF MergeModified
  <2>5. TypeOK'
    BY <1>1, <1>4, <1>7, <2>2, <2>3, <2>4, RequestStored
  <2>6. NetTypes'
    BY <1>1, <1>3, <1>9 DEF MergeModified, Merged, NetTypes
  <2>7. QED
    BY <1>5, <2>5, <2>6 DEF Types, CacheTypeOK, SyncTypes, PlaybackTypes, NetTypes
<1>10. CASE MergeDeleted(i)
  <2>1. PostLookup("remove", i, 0, FALSE) /\ rows' = rows /\ owed' = owed
    BY <1>10 DEF MergeDeleted
  <2>2. rows' \in [Items -> Row] /\ owed' \in [Items -> Flags]
    BY <1>1, <2>1 DEF TypeOK
  <2>3. 0 \in 0 .. MaxVersion
    BY StorageConstants
  <2>4. TypeOK'
    BY <1>1, <1>7, <2>1, <2>2, <2>3, RequestStored
  <2>5. NetTypes'
    BY <1>1, <1>3, <1>10 DEF MergeDeleted, Merged, NetTypes
  <2>6. QED
    BY <1>5, <2>4, <2>5 DEF Types, CacheTypeOK, SyncTypes, PlaybackTypes, NetTypes
<1>11. CASE MergeDropped(i)
  <2>1. TypeOK'
    BY <1>1, <1>7, <1>11 DEF MergeDropped, storageVars, TypeOK
  <2>2. unsent' = [unsent EXCEPT ![i] = Nothing]
    BY <1>11 DEF MergeDropped
  <2>3. NetTypes'
    BY <1>1, <1>3, <2>2, NothingTyped, UnsentWritten DEF Merged, NetTypes
  <2>4. QED
    BY <1>5, <2>1, <2>3 DEF Types, CacheTypeOK, SyncTypes, PlaybackTypes, NetTypes
<1>12. QED
  BY <1>2, <1>8, <1>9, <1>10, <1>11

\* What a playback submits.
Submitted(s) ==
    {[op |-> OpFor[tasks[s].kind], item |-> i, by |-> s,
      ver |-> IF tasks[s].kind = "deleted" THEN 0 ELSE rows[i].ver] : i \in Selected(tasks[s].kind)}

LEMMA SubmittedTyped ==
    ASSUME Types, NEW s \in Slots, tasks[s].kind # "none"
    PROVE  /\ Submitted(s) \subseteq ProviderCall
           /\ Cardinality(Submitted(s)) = Cardinality(Selected(tasks[s].kind))
           /\ Cardinality(Selected(tasks[s].kind)) \in 0 .. Cardinality(Items)
           /\ Selected(tasks[s].kind) # {} => Cardinality(Selected(tasks[s].kind)) > 0
           /\ IsFiniteSet(Submitted(s))
<1> DEFINE found == Selected(tasks[s].kind)
           op == OpFor[tasks[s].kind]
           ver == [i \in Items |-> IF tasks[s].kind = "deleted" THEN 0 ELSE rows[i].ver]
           call(i) == [op |-> op, item |-> i, by |-> s, ver |-> ver[i]]
           cs == {call(i) : i \in found}
<1>1. tasks[s].kind \in Kinds /\ found \in SUBSET Items
  BY DEF Types, CacheTypeOK, Task, Selected
<1>2. Submitted(s) = cs
  BY <1>1 DEF Submitted
<1>3. Submitted(s) \subseteq ProviderCall
  <2> SUFFICES ASSUME NEW i \in found
               PROVE  [op |-> op, item |-> i, by |-> s, ver |-> ver[i]] \in ProviderCall
    BY <1>2
  <2>1. op \in {"add", "modify", "delete"}
        /\ (op = "delete" <=> tasks[s].kind = "deleted")
    BY <1>1 DEF OpFor, Kinds
  <2>2. i \in Items /\ rows[i].ver # 0 /\ rows[i].ver \in 0 .. MaxVersion
    BY DEF Selected, Present, Types, TypeOK, Row
  <2>3. ver[i] \in 0 .. MaxVersion /\ (ver[i] = 0 <=> tasks[s].kind = "deleted")
    BY <2>2, StorageConstants
  <2>4. s \in 0 .. MaxPlaybacks
    BY CacheConstants DEF Slots
  <2> HIDE DEF ver, found, op
  <2>5. QED
    BY <2>1, <2>2, <2>3, <2>4 DEF ProviderCall
<1>4. IsFiniteSet(Submitted(s)) /\ Cardinality(Submitted(s)) = Cardinality(found)
  <2> HIDE DEF ver, found, op
  <2>1. /\ \A c \in cs : c.item \in found
        /\ \A c, d \in cs : c.item = d.item => c = d
        /\ \A i \in found : \E c \in cs : c.item = i
    <3>1. \A i \in found : call(i) \in cs /\ call(i).item = i
      OBVIOUS
    <3>2. \A c \in cs : \E i \in found : c = call(i)
      OBVIOUS
    <3> HIDE DEF cs, call
    <3>3. QED
      BY <3>1, <3>2
  <2> HIDE DEF cs
  <2>2. IsFiniteSet(cs) /\ Cardinality(cs) = Cardinality(found)
    BY <1>1, <2>1, AsManyAsItems
  <2>3. QED
    BY <1>2, <2>2
<1>5. IsFiniteSet(found) /\ Cardinality(found) \in Nat /\ Cardinality(found) <= Cardinality(Items)
      /\ Cardinality(Items) \in Nat
  BY <1>1, CacheConstants, FS_Subset, FS_CardinalityType
<1>6. found # {} => Cardinality(found) > 0
  BY <1>5, FS_EmptySet
<1>7. QED
  BY <1>3, <1>4, <1>5, <1>6

\* A playback whose answer is outstanding is one, and counts it.
LEMMA Outstanding ==
    ASSUME Types, Counted, NEW c \in calls, c.by \in Slots
    PROVE  /\ tasks[c.by] \in Task
           /\ tasks[c.by].kind # "none" /\ tasks[c.by].left > 0
           /\ Cardinality(CallsOf(c.by)) > 0
<1>1. c \in CallsOf(c.by)
  BY DEF CallsOf
<1>2. Cardinality(CallsOf(c.by)) \in Nat /\ IsFiniteSet(CallsOf(c.by))
  BY CallsFinite
<1>3. Cardinality(CallsOf(c.by)) > 0
  BY <1>1, <1>2, FS_EmptySet
<1>4. tasks[c.by] \in Task /\ tasks[c.by].left >= Cardinality(CallsOf(c.by))
  BY DEF Counted, Types, CacheTypeOK
<1>5. tasks[c.by].left > 0
  BY <1>2, <1>3, <1>4 DEF Task
<1>6. tasks[c.by].kind # "none"
  BY <1>5 DEF Counted, NoTask
<1>7. QED
  BY <1>3, <1>4, <1>5, <1>6

\* Playback: asking the cache, submitting, answers.
LEMMA PlaybackStepTyped ==
    ASSUME Types, Counted, (\E s \in Slots : PlaybackGet(s)) \/ PlaybackAnswer
    PROVE  Types'
<1>1. TypeOK /\ SyncTypes /\ PlaybackTypes /\ NetTypes
  BY TypesSplit
<1>2. ASSUME NEW s \in Slots, PlaybackGet(s)
      PROVE  Types'
  <2>1. tasks[s] \in Task /\ tasks[s].kind # "none" /\ tasks[s].then \in {"drain", "load"}
    BY <1>1, <1>2 DEF PlaybackGet, Counted, PlaybackTypes, Task
  <2>2. PlaybackTypes' /\ queue' \in 0 .. MaxQueue
    <3>1. CASE offline /\ Finish(s) /\ UNCHANGED calls
      <4>1. tasks' \in [Slots -> Task]
        BY <3>1, PostedTyped, TaskTyped DEF Finish
      <4>2. QED
        BY <1>1, <3>1, <4>1, CacheConstants DEF Finish, EmptyQueue, SyncTypes, PlaybackTypes
    <3>2. CASE Advance(s) /\ UNCHANGED calls
      <4>1. CASE /\ tasks' = [tasks EXCEPT ![s] = NoTask]
                 /\ queue' = IF tasks[s].then = "drain" THEN 0 ELSE queue
        <5>1. tasks' \in [Slots -> Task]
          BY <4>1, PostedTyped, TaskTyped
        <5>2. QED
          BY <1>1, <3>2, <4>1, <5>1, CacheConstants DEF SyncTypes, PlaybackTypes
      <4>2. ASSUME NEW k \in Kinds, queue' = queue,
                   tasks' = [tasks EXCEPT ![s] = Posted(k, tasks[s].then)]
            PROVE  PlaybackTypes' /\ queue' \in 0 .. MaxQueue
        <5>1. tasks' \in [Slots -> Task]
          BY <2>1, <4>2, PostedTyped, TaskTyped
        <5>2. QED
          BY <1>1, <3>2, <4>2, <5>1 DEF SyncTypes, PlaybackTypes
      <4>3. QED
        BY <2>1, <3>2, <4>1, <4>2, Advanced
    <3>3. CASE /\ tasks' = [tasks EXCEPT ![s] = [kind |-> tasks[s].kind, wait |-> TRUE,
                                left |-> Cardinality(Selected(tasks[s].kind)), then |-> tasks[s].then]]
               /\ calls' = calls \cup Submitted(s)
               /\ UNCHANGED queue
      <4> DEFINE t == [kind |-> tasks[s].kind, wait |-> TRUE,
                       left |-> Cardinality(Selected(tasks[s].kind)), then |-> tasks[s].then]
      <4>1. t \in Task
        BY <2>1, SubmittedTyped DEF Task
      <4>2. tasks' = [tasks EXCEPT ![s] = t]
        BY <3>3
      <4> HIDE DEF t
      <4>3. tasks' \in [Slots -> Task]
        BY <4>1, <4>2, TaskTyped
      <4>4. QED
        BY <1>1, <2>1, <3>3, <4>3, SubmittedTyped DEF SyncTypes, PlaybackTypes
    <3>4. QED
      BY <1>1, <1>2, <3>1, <3>2, <3>3 DEF PlaybackGet, Submitted, PlaybackTypes
  <2>3. QED
    BY <1>1, <1>2, <2>2
       DEF PlaybackGet, vars, Types, TypeOK, CacheTypeOK, SyncTypes, PlaybackTypes, NetTypes
<1>3. ASSUME NEW c \in calls, PlaybackSucceeds(c)
      PROVE  Types'
  <2>1. c \in ProviderCall /\ server' \in [Items -> 0 .. MaxVersion]
        /\ unsent' \in [Items -> [kind : {"none", "put", "delete"}, ver : 0 .. MaxVersion]]
    BY <1>3, PerformedTyped DEF PlaybackSucceeds
  <2>2. tasks' \in [Slots -> Task] /\ queue' \in 0 .. MaxQueue
    BY <1>3, Outstanding, CountDownTyped DEF PlaybackSucceeds
  <2> DEFINE row == IF c.op = "delete" THEN NoRow ELSE WithFlag(rows[c.item], "none")
  <2>3. row \in Row /\ c.item \in Items
    BY <1>1, <2>1, RowHelpers DEF TypeOK, ProviderCall, Flags
  <2>4. Store(c.item, row, "none") /\ UNCHANGED <<lookups, clock>>
    BY <1>3 DEF PlaybackSucceeds
  <2> HIDE DEF row
  <2>5. TypeOK'
    BY <1>1, <2>3, <2>4, RowStored DEF TypeOK, Flags
  <2>6. QED
    BY <1>1, <1>3, <2>1, <2>2, <2>5
       DEF PlaybackSucceeds, Types, CacheTypeOK, SyncTypes, PlaybackTypes, NetTypes
<1>4. ASSUME NEW c \in calls, PlaybackFails(c)
      PROVE  Types'
  <2>1. tasks' \in [Slots -> Task] /\ queue' \in 0 .. MaxQueue
    <3>1. CASE c.op = "delete"
      BY <1>1, <1>4, <3>1 DEF PlaybackFails, SyncTypes, PlaybackTypes
    <3>2. CASE c.op # "delete"
      BY <1>4, <3>2, Outstanding, CountDownTyped DEF PlaybackFails
    <3>3. QED
      BY <3>1, <3>2
  <2>2. QED
    BY <1>1, <1>4, <2>1
       DEF PlaybackFails, vars, Types, TypeOK, CacheTypeOK, SyncTypes, PlaybackTypes, NetTypes
<1>5. QED
  BY <1>2, <1>3, <1>4 DEF PlaybackAnswer

\* Answers to the user's own operations.
LEMMA UserAnswerTyped ==
    ASSUME Types, UserCallAnswer
    PROVE  Types'
<1>1. TypeOK /\ SyncTypes /\ PlaybackTypes /\ NetTypes
  BY TypesSplit
<1>2. ASSUME NEW c \in calls, UserCallSucceeds(c)
      PROVE  Types'
  <2>1. c \in ProviderCall /\ server' \in [Items -> 0 .. MaxVersion]
        /\ unsent' \in [Items -> [kind : {"none", "put", "delete"}, ver : 0 .. MaxVersion]]
    BY <1>2, PerformedTyped DEF UserCallSucceeds
  <2>2. /\ c.item \in Items /\ c.ver \in 0 .. MaxVersion
        /\ c.op \in {"add", "modify", "delete"}
        /\ c.op = "modify" => c.ver # 0
    BY <2>1 DEF ProviderCall
  <2>3. clock' \in 0 .. MaxVersion
    BY <1>1, <1>2 DEF UserCallSucceeds, TypeOK
  <2>4. TypeOK'
    <3>1. CASE c.op = "add"
      <4>1. Store(c.item, Flushed(c.ver), "none") /\ lookups' = lookups
        BY <1>2, <3>1 DEF UserCallSucceeds
      <4>2. Flushed(c.ver) \in Row
        BY <2>2, RowHelpers
      <4>3. QED
        BY <1>1, <2>2, <2>3, <4>1, <4>2, RowStored DEF Flags
    <3>2. CASE c.op = "modify"
      <4>1. PostLookup("modify", c.item, c.ver, FALSE) /\ rows' = rows /\ owed' = owed
        BY <1>2, <3>2 DEF UserCallSucceeds
      <4>2. rows' \in [Items -> Row] /\ owed' \in [Items -> Flags]
        BY <1>1, <4>1 DEF TypeOK
      <4>3. QED
        BY <1>1, <2>2, <2>3, <3>2, <4>1, <4>2, RequestStored
    <3>3. CASE c.op = "delete"
      <4>1. Store(c.item, NoRow, "none") /\ lookups' = lookups
        BY <1>2, <3>3 DEF UserCallSucceeds
      <4>2. QED
        BY <1>1, <2>2, <2>3, <4>1, RowHelpers, RowStored DEF Flags
    <3>4. QED
      BY <2>2, <3>1, <3>2, <3>3
  <2>5. QED
    BY <1>1, <1>2, <2>1, <2>4
       DEF UserCallSucceeds, syncVars, Types, CacheTypeOK, SyncTypes, PlaybackTypes, NetTypes
<1>3. ASSUME NEW c \in calls, UserCallFails(c)
      PROVE  Types'
  BY <1>1, <1>3
     DEF UserCallFails, vars, syncVars, Types, TypeOK, CacheTypeOK, SyncTypes, PlaybackTypes,
         NetTypes
<1>4. QED
  BY <1>2, <1>3 DEF UserCallAnswer

\* The user's edits, offline and online.
LEMMA UserEditTyped ==
    ASSUME Types, UserEdit
    PROVE  Types'
<1>1. TypeOK /\ SyncTypes /\ PlaybackTypes /\ NetTypes
  BY TypesSplit
<1>2. ASSUME NEW i \in Items, AddOffline(i)
      PROVE  Types'
  <2>1. clock' \in 0 .. MaxVersion
    BY <1>1, <1>2, Ticked DEF AddOffline
  <2>2. WithFlag(Flushed(clock'), "created") \in Row
    BY <2>1, RowHelpers DEF Flags
  <2>3. TypeOK'
    BY <1>1, <1>2, <2>1, <2>2, RowStored DEF AddOffline, Flags
  <2>4. unsent' \in [Items -> [kind : {"none", "put", "delete"}, ver : 0 .. MaxVersion]]
    BY <1>1, <1>2, <2>1, UnsentWritten DEF AddOffline
  <2>5. QED
    BY <1>1, <1>2, <2>3, <2>4
       DEF AddOffline, syncVars, Types, CacheTypeOK, SyncTypes, PlaybackTypes, NetTypes
<1>3. ASSUME NEW i \in Items, ModifyOffline(i)
      PROVE  Types'
  <2>1. clock' \in 0 .. MaxVersion /\ clock' # 0
    BY <1>1, <1>3, Ticked DEF ModifyOffline
  <2>2. PostLookup("modify", i, clock', TRUE) /\ rows' = rows /\ owed' = owed
    BY <1>3 DEF ModifyOffline
  <2>3. TypeOK'
    <3>1. rows' \in [Items -> Row] /\ owed' \in [Items -> Flags]
      BY <1>1, <2>2 DEF TypeOK
    <3>2. lookups' \in Seq(Lookup)
      <4> DEFINE l == [op |-> "modify", item |-> i, ver |-> clock', chain |-> TRUE, seen |-> Unread]
      <4>1. l \in Lookup
        BY <2>1 DEF Lookup
      <4>2. lookups' = Append(lookups, l) /\ lookups \in Seq(Lookup)
        BY <1>1, <2>2 DEF PostLookup, TypeOK
      <4> HIDE DEF l
      <4>3. QED
        BY <4>1, <4>2, AppendProperties
    <3>3. QED
      BY <2>1, <3>1, <3>2 DEF TypeOK
  <2>4. unsent' \in [Items -> [kind : {"none", "put", "delete"}, ver : 0 .. MaxVersion]]
    BY <1>1, <1>3, <2>1, UnsentWritten DEF ModifyOffline
  <2>5. QED
    BY <1>1, <1>3, <2>3, <2>4
       DEF ModifyOffline, syncVars, Types, CacheTypeOK, SyncTypes, PlaybackTypes, NetTypes
<1>4. ASSUME NEW i \in Items, DeleteOffline(i)
      PROVE  Types'
  <2>1. PostLookup("remove", i, 0, FALSE) /\ UNCHANGED <<rows, owed, clock>>
    BY <1>4 DEF DeleteOffline
  <2>2. rows' \in [Items -> Row] /\ owed' \in [Items -> Flags] /\ clock' \in 0 .. MaxVersion
        /\ 0 \in 0 .. MaxVersion
    BY <1>1, <2>1, StorageConstants DEF TypeOK
  <2>3. TypeOK'
    BY <1>1, <2>1, <2>2, RequestStored
  <2> DEFINE x == IF server[i] = 0 THEN Nothing ELSE [kind |-> "delete", ver |-> 0]
  <2>4. x \in [kind : {"none", "put", "delete"}, ver : 0 .. MaxVersion]
    BY <2>2, NothingTyped
  <2>5. unsent' = [unsent EXCEPT ![i] = x]
    BY <1>4 DEF DeleteOffline
  <2> HIDE DEF x
  <2>6. unsent' \in [Items -> [kind : {"none", "put", "delete"}, ver : 0 .. MaxVersion]]
    BY <1>1, <2>4, <2>5, UnsentWritten
  <2>7. QED
    BY <1>1, <1>4, <2>3, <2>6
       DEF DeleteOffline, syncVars, Types, CacheTypeOK, SyncTypes, PlaybackTypes, NetTypes
<1>5. ASSUME NEW i \in Items, NEW op \in {"add", "modify", "delete"}, NEW v \in 0 .. MaxVersion,
             op = "delete" <=> v = 0, Submit(op, i, v), clock' \in 0 .. MaxVersion
      PROVE  Types'
  <2> DEFINE c == [op |-> op, item |-> i, ver |-> v, by |-> User]
  <2>1. c \in ProviderCall
    BY <1>5, CacheConstants DEF ProviderCall, User
  <2>2. calls' = calls \cup {c}
    BY <1>5 DEF Submit
  <2> HIDE DEF c
  <2>3. PlaybackTypes'
    BY <1>1, <1>5, <2>1, <2>2 DEF Submit, PlaybackTypes
  <2>4. TypeOK'
    BY <1>1, <1>5 DEF Submit, storageVars, TypeOK
  <2>5. QED
    BY <1>1, <1>5, <2>3, <2>4
       DEF Submit, syncVars, Types, CacheTypeOK, SyncTypes, PlaybackTypes, NetTypes
<1>6. ASSUME NEW i \in Items, AddOnline(i) \/ ModifyOnline(i)
      PROVE  Types'
  <2>1. clock' \in 0 .. MaxVersion /\ clock' # 0
    BY <1>1, <1>6, Ticked DEF AddOnline, ModifyOnline
  <2>2. QED
    BY <1>6, <2>1, <1>5 DEF AddOnline, ModifyOnline
<1>7. ASSUME NEW i \in Items, DeleteOnline(i)
      PROVE  Types'
  <2>1. clock' \in 0 .. MaxVersion /\ 0 \in 0 .. MaxVersion /\ Submit("delete", i, 0)
    BY <1>1, <1>7, StorageConstants DEF DeleteOnline, TypeOK
  <2>2. QED
    BY <2>1, <1>5
<1>8. QED
  BY <1>2, <1>3, <1>4, <1>6, <1>7 DEF UserEdit

\* Other clients, the cache's callbacks, the process.
LEMMA OutsideStepTyped ==
    ASSUME Types,
           \/ \E i \in Items : RemotePut(i) \/ RemoteDelete(i)
           \/ StorageCallback \/ RestartCache
    PROVE  Types'
<1>1. TypeOK /\ SyncTypes /\ PlaybackTypes /\ NetTypes
  BY TypesSplit
<1>2. ASSUME NEW i \in Items, RemotePut(i)
      PROVE  Types'
  <2>1. clock' \in 0 .. MaxVersion
    BY <1>1, <1>2, Ticked DEF RemotePut
  <2>2. TypeOK' /\ server' \in [Items -> 0 .. MaxVersion]
    BY <1>1, <1>2, <2>1 DEF RemotePut, storageVars, TypeOK, NetTypes
  <2>3. QED
    BY <1>1, <1>2, <2>2
       DEF RemotePut, syncVars, Types, CacheTypeOK, SyncTypes, PlaybackTypes, NetTypes
<1>3. ASSUME NEW i \in Items, RemoteDelete(i)
      PROVE  Types'
  <2> DEFINE x == IF unsent[i].kind = "delete" THEN Nothing ELSE unsent[i]
  <2>1. x \in [kind : {"none", "put", "delete"}, ver : 0 .. MaxVersion]
    BY <1>1, NothingTyped DEF NetTypes
  <2>2. unsent' = [unsent EXCEPT ![i] = x]
    BY <1>1, <1>3 DEF RemoteDelete, NetTypes
  <2> HIDE DEF x
  <2>3. unsent' \in [Items -> [kind : {"none", "put", "delete"}, ver : 0 .. MaxVersion]]
    BY <1>1, <2>1, <2>2, UnsentWritten
  <2>4. TypeOK' /\ server' \in [Items -> 0 .. MaxVersion]
    BY <1>1, <1>3, StorageConstants DEF RemoteDelete, vars, TypeOK, NetTypes
  <2>5. QED
    BY <1>1, <1>3, <2>3, <2>4
       DEF RemoteDelete, syncVars, Types, CacheTypeOK, SyncTypes, PlaybackTypes, NetTypes
<1>4. CASE StorageCallback
  <2>1. TypeOK'
    BY <1>1, <1>4, TypeOKStep DEF StorageCallback, Next
  <2>2. QED
    BY <1>1, <1>4, <2>1
       DEF StorageCallback, cacheVars, syncVars, Types, CacheTypeOK, SyncTypes, PlaybackTypes,
           NetTypes
<1>5. CASE RestartCache
  <2>1. TypeOK'
    BY <1>1, <1>5, EmptySeq DEF RestartCache, TypeOK
  <2>2. SyncTypes'
    BY <1>5, IdleTyped, NothingCollected, CacheConstants DEF RestartCache, SyncTypes
  <2>3. PlaybackTypes'
    BY <1>5, PostedTyped DEF RestartCache, PlaybackTypes
  <2>4. NetTypes'
    BY <1>1, <1>5 DEF RestartCache, NetTypes
  <2>5. QED
    BY <2>1, <2>2, <2>3, <2>4 DEF Types, CacheTypeOK, SyncTypes, PlaybackTypes, NetTypes
<1>6. QED
  BY <1>2, <1>3, <1>4, <1>5

LEMMA TypesStep ==
    ASSUME Types, Counted, [CacheNext]_allVars
    PROVE  Types'
<1>1. CASE CacheNext
  BY <1>1, SyncStepTyped, MergeStepTyped, PlaybackStepTyped, UserAnswerTyped, UserEditTyped,
     OutsideStepTyped DEF CacheNext
<1>2. CASE UNCHANGED allVars
  BY <1>2 DEF allVars, vars, cacheVars, syncVars, Types, TypeOK, CacheTypeOK
<1>3. QED
  BY <1>1, <1>2

-----------------------------------------------------------------------------
(* One sync at a time *)

\* The playbacks that end a sync are those whose callback empties the queue.
LEMMA DrainsByThen ==
    /\ Drains = {s \in Slots : tasks[s].then = "drain"}
    /\ Drains' = {s \in Slots : tasks'[s].then = "drain"}
BY DEF Drains, NoTask

LEMMA OneOnItsWayKept ==
    ASSUME OneOnItsWay, UNCHANGED <<queue, tasks>>,
           sync'.phase = "idle" <=> sync.phase = "idle"
    PROVE  OneOnItsWay'
BY DEF OneOnItsWay, Drains

\* A playback that stays what it leads to, or ends: then the queue is emptied if it
\* was for the sync.
LEMMA PlaybackKeepsOne ==
    ASSUME Types, OneOnItsWay, NEW s \in Slots, NEW t \in Task,
           tasks' = [tasks EXCEPT ![s] = t], sync' = sync,
           \/ t.then = tasks[s].then /\ queue' = queue
           \/ t = NoTask /\ queue' = IF tasks[s].then = "drain" THEN 0 ELSE queue
    PROVE  OneOnItsWay'
<1>1. tasks' \in [Slots -> Task] /\ tasks'[s] = t
      /\ \A r \in Slots : r # s => tasks'[r] = tasks[r]
  BY TaskTyped
<1>2. CASE t.then = tasks[s].then /\ queue' = queue
  <2>1. Drains' = Drains
    BY <1>1, <1>2, DrainsByThen
  <2>2. QED
    BY <1>2, <2>1 DEF OneOnItsWay
<1>3. CASE t = NoTask /\ queue' = IF tasks[s].then = "drain" THEN 0 ELSE queue
  <2>1. Drains' = Drains \ {s}
    BY <1>1, <1>3, DrainsByThen DEF NoTask
  <2>2. CASE tasks[s].then = "drain"
    <3>1. s \in Drains
      BY <2>2, DrainsByThen
    <3>2. Drains' = {} /\ sync.phase = "idle" /\ queue' = 0
      BY <1>3, <2>1, <2>2, <3>1 DEF OneOnItsWay
    <3>3. QED
      BY <3>2 DEF OneOnItsWay
  <2>3. CASE tasks[s].then # "drain"
    <3>1. s \notin Drains
      BY <2>3, DrainsByThen
    <3>2. Drains' = Drains /\ queue' = queue
      BY <1>3, <2>1, <2>3, <3>1
    <3>3. QED
      BY <3>2 DEF OneOnItsWay
  <2>4. QED
    BY <2>2, <2>3
<1>4. QED
  BY <1>2, <1>3

LEMMA AdvanceKeepsOne ==
    ASSUME Types, OneOnItsWay, NEW s \in Slots, tasks[s].kind # "none", Advance(s), sync' = sync
    PROVE  OneOnItsWay'
<1>1. tasks[s].then \in {"drain", "load"}
  BY DEF Types, CacheTypeOK, Task
<1>2. CASE /\ tasks' = [tasks EXCEPT ![s] = NoTask]
           /\ queue' = IF tasks[s].then = "drain" THEN 0 ELSE queue
  BY <1>2, PostedTyped, PlaybackKeepsOne
<1>3. ASSUME NEW k \in Kinds, queue' = queue,
             tasks' = [tasks EXCEPT ![s] = Posted(k, tasks[s].then)]
      PROVE  OneOnItsWay'
  <2>1. Posted(k, tasks[s].then) \in Task /\ Posted(k, tasks[s].then).then = tasks[s].then
    BY <1>1, PostedTyped DEF Posted
  <2>2. QED
    BY <1>3, <2>1, PlaybackKeepsOne
<1>4. QED
  BY <1>2, <1>3, Advanced

LEMMA CountDownKeepsOne ==
    ASSUME Types, OneOnItsWay, NEW s \in Slots, tasks[s].kind # "none", tasks[s].left > 0,
           CountDown(s), sync' = sync
    PROVE  OneOnItsWay'
<1>1. tasks[s] \in Task
  BY DEF Types, CacheTypeOK
<1>2. CASE tasks[s].left = 1
  BY <1>2, AdvanceKeepsOne DEF CountDown
<1>3. CASE tasks[s].left # 1
  <2> DEFINE t == [tasks[s] EXCEPT !.left = tasks[s].left - 1]
  <2>1. tasks' = [tasks EXCEPT ![s] = t] /\ queue' = queue
    BY <1>3 DEF CountDown, Types, CacheTypeOK
  <2>2. tasks[s].left - 1 \in 0 .. tasks[s].left
    BY <1>1 DEF Task
  <2>3. t \in Task /\ t.then = tasks[s].then
    BY <1>1, <2>2, CountedTyped
  <2> HIDE DEF t
  <2>4. QED
    BY <2>1, <2>3, PlaybackKeepsOne
<1>4. QED
  BY <1>2, <1>3

\* A new caller waits for what is on its way, or starts it.
LEMMA SynchronizeKeepsOne ==
    ASSUME Types, LoopsRefill, OneOnItsWay, Synchronize, tasks' = tasks
    PROVE  LoopsRefill' /\ OneOnItsWay'
<1>1. queue \in 0 .. MaxQueue /\ Drains' = Drains
  BY DEF Types, CacheTypeOK, Drains
<1>2. CASE queue > 0
  BY <1>1, <1>2 DEF Synchronize, LoopsRefill, OneOnItsWay
<1>3. CASE ~(queue > 0) /\ offline
  BY <1>1, <1>3 DEF Synchronize, EmptyQueue, LoopsRefill, OneOnItsWay
<1>4. CASE ~(queue > 0) /\ ~offline
  <2>1. queue = 0 /\ sync.phase = "idle" /\ Drains = {}
    BY <1>1, <1>4 DEF OneOnItsWay
  <2>2. queue' = 1 /\ sync' = [Idle EXCEPT !.phase = "created"]
    BY <1>4 DEF Synchronize
  <2>3. sync'.phase = "created" /\ sync'.loops = <<>>
    BY <2>2, IdleTyped DEF Kinds
  <2>4. QED
    BY <1>1, <2>1, <2>2, <2>3 DEF LoopsRefill, OneOnItsWay
<1>5. QED
  BY <1>2, <1>3, <1>4

\* The provider's getItems has completed, and so has the refill.
LEMMA OperationKeepsOne ==
    ASSUME Types, OneOnItsWay, NEW status, OperationComplete(status), sync.phase # "idle"
    PROVE  LoopsRefill' /\ OneOnItsWay'
<1>1. queue # 0 /\ Drains = {}
  BY DEF OneOnItsWay
<1>2. CASE status = "ok"
  <2>1. sync' = [Idle EXCEPT !.phase = "merge"] /\ UNCHANGED <<queue, tasks>>
    BY <1>2 DEF OperationComplete
  <2>2. sync'.phase = "merge" /\ sync'.loops = <<>>
    BY <2>1, IdleTyped
  <2>3. QED
    BY <2>1, <2>2, OneOnItsWayKept DEF LoopsRefill
<1>3. CASE status # "ok"
  <2>1. StartPlayback("load") /\ queue' = 0 /\ sync' = Idle
    BY <1>3 DEF OperationComplete, EmptyQueue
  <2>2. PICK s \in Slots : tasks[s] = NoTask /\ tasks' = [tasks EXCEPT ![s] = Posted("created", "load")]
    BY <2>1, PlaybackStarted
  <2>3. Posted("created", "load").then = "load"
    BY DEF Posted
  <2>4. \A r \in Slots : tasks'[r].then = "drain" => tasks[r].then = "drain"
    BY <2>2, <2>3 DEF Types, CacheTypeOK
  <2>5. Drains' = {}
    BY <1>1, <2>4, DrainsByThen
  <2>6. QED
    BY <2>1, <2>5, IdleTyped DEF LoopsRefill, OneOnItsWay
<1>4. QED
  BY <1>2, <1>3

LEMMA OneSyncStep ==
    ASSUME CacheInv, [CacheNext]_allVars
    PROVE  LoopsRefill' /\ OneOnItsWay'
<1>1. Types /\ LoopsRefill /\ OneOnItsWay /\ Counted
  BY DEF CacheInv
<1>2. sync \in Sync /\ tasks \in [Slots -> Task]
  BY <1>1 DEF Types, CacheTypeOK
<1>3. CASE UNCHANGED <<queue, sync, tasks>>
  BY <1>1, <1>3, OneOnItsWayKept DEF LoopsRefill
<1>4. CASE Refresh \/ UncachedLoaded
  <2>1. tasks' = tasks /\ (Synchronize \/ UNCHANGED <<queue, sync>>)
    BY <1>4 DEF Refresh, UncachedLoaded, RefreshOnline, syncVars
  <2>2. QED
    BY <1>1, <1>3, <2>1, SynchronizeKeepsOne
<1>5. CASE CollectOffline
  <2>1. sync.phase \in Kinds /\ sync' = [sync EXCEPT !.phase = AfterCollecting[sync.phase]]
        /\ UNCHANGED <<queue, tasks>>
    BY <1>5 DEF CollectOffline
  <2>2. AfterCollecting[sync.phase] \in {"asked", "modified", "deleted"} /\ sync.phase # "idle"
    BY <2>1 DEF AfterCollecting, Kinds
  <2>3. sync'.phase # "idle" /\ sync'.loops = sync.loops
    BY <1>2, <2>1, <2>2 DEF Sync
  <2>4. sync.loops = <<>>
    BY <1>1, <2>1 DEF LoopsRefill, Kinds
  <2>5. QED
    BY <1>1, <2>1, <2>2, <2>3, <2>4, OneOnItsWayKept DEF LoopsRefill
<1>6. ASSUME NEW batch \in SUBSET Items, GetResult(batch)
      PROVE  LoopsRefill' /\ OneOnItsWay'
  <2>1. sync.phase = "asked" /\ sync'.phase = "asked" /\ UNCHANGED <<queue, tasks>>
    BY <1>2, <1>6 DEF GetResult, Sync
  <2>2. QED
    BY <1>1, <2>1, OneOnItsWayKept DEF LoopsRefill
<1>7. ASSUME NEW status \in {"ok", "failed"}, GetCompleted(status)
      PROVE  LoopsRefill' /\ OneOnItsWay'
  <2>1. sync.phase = "asked"
    BY <1>7 DEF GetCompleted
  <2>2. CASE sync.loops = <<>>
    BY <1>1, <1>7, <2>1, <2>2, OperationKeepsOne DEF GetCompleted
  <2>3. CASE sync.loops # <<>>
    <3>1. sync'.phase = "answered" /\ UNCHANGED <<queue, tasks>>
      BY <1>2, <1>7, <2>3 DEF GetCompleted, Sync
    <3>2. QED
      BY <1>1, <2>1, <3>1, OneOnItsWayKept DEF LoopsRefill
  <2>4. QED
    BY <2>2, <2>3
<1>8. CASE AddFetched \/ LoopCompleted
  <2>1. sync.phase \in {"asked", "answered"}
    <3>1. sync.loops # <<>>
      <4>1. DOMAIN sync.loops # {}
        BY <1>8 DEF AddFetched, LoopCompleted
      <4>2. DOMAIN <<>> = {}
        OBVIOUS
      <4>3. QED
        BY <4>1, <4>2
    <3>2. QED
      BY <1>1, <3>1 DEF LoopsRefill
  <2>2. \/ sync'.phase = sync.phase /\ UNCHANGED <<queue, tasks>>
        \/ OperationComplete(sync.op)
    BY <1>2, <1>8 DEF AddFetched, LoopCompleted, Sync
  <2>3. QED
    BY <1>1, <2>1, <2>2, OneOnItsWayKept, OperationKeepsOne DEF LoopsRefill
<1>9. CASE MergeCompleted
  <2>1. sync.phase = "merge" /\ sync' = Idle /\ StartPlayback("drain") /\ queue' = queue
    BY <1>9 DEF MergeCompleted
  <2>2. queue # 0 /\ Drains = {}
    BY <1>1, <2>1 DEF OneOnItsWay
  <2>3. PICK s \in Slots : tasks' = [tasks EXCEPT ![s] = Posted("created", "drain")]
    BY <2>1, PlaybackStarted
  <2>4. Posted("created", "drain").then = "drain"
    BY DEF Posted
  <2>5. Drains' = {s}
    BY <1>2, <2>2, <2>3, <2>4, DrainsByThen
  <2>6. QED
    BY <2>1, <2>2, <2>5, IdleTyped DEF LoopsRefill, OneOnItsWay
<1>10. ASSUME NEW s \in Slots, PlaybackGet(s)
       PROVE  LoopsRefill' /\ OneOnItsWay'
  <2>1. sync' = sync /\ tasks[s] \in Task /\ tasks[s].kind # "none"
    BY <1>1, <1>2, <1>10 DEF PlaybackGet, Counted
  <2>2. CASE Finish(s)
    BY <1>1, <2>1, <2>2, PostedTyped, PlaybackKeepsOne DEF Finish, EmptyQueue, LoopsRefill
  <2>3. CASE Advance(s)
    BY <1>1, <2>1, <2>3, AdvanceKeepsOne DEF LoopsRefill
  <2>4. CASE /\ tasks' = [tasks EXCEPT ![s] = [kind |-> tasks[s].kind, wait |-> TRUE,
                                left |-> Cardinality(Selected(tasks[s].kind)), then |-> tasks[s].then]]
             /\ queue' = queue
    <3> DEFINE t == [kind |-> tasks[s].kind, wait |-> TRUE,
                     left |-> Cardinality(Selected(tasks[s].kind)), then |-> tasks[s].then]
    <3>1. t \in Task /\ t.then = tasks[s].then
      BY <1>1, <2>1, SubmittedTyped DEF Task
    <3>2. tasks' = [tasks EXCEPT ![s] = t]
      BY <2>4
    <3> HIDE DEF t
    <3>3. QED
      BY <1>1, <2>1, <2>4, <3>1, <3>2, PlaybackKeepsOne DEF LoopsRefill
  <2>5. QED
    BY <1>2, <1>10, <2>2, <2>3, <2>4 DEF PlaybackGet
<1>11. ASSUME NEW c \in calls, PlaybackSucceeds(c) \/ PlaybackFails(c)
       PROVE  LoopsRefill' /\ OneOnItsWay'
  <2>1. c.by \in Slots /\ sync' = sync /\ (CountDown(c.by) \/ UNCHANGED <<queue, tasks>>)
    BY <1>11 DEF PlaybackSucceeds, PlaybackFails
  <2>2. QED
    BY <1>1, <1>3, <2>1, Outstanding, CountDownKeepsOne DEF LoopsRefill
<1>12. CASE RestartCache
  <2>1. queue' = 0 /\ sync' = Idle /\ tasks' = [s \in Slots |-> NoTask]
    BY <1>12 DEF RestartCache
  <2>2. Drains' = {}
    BY <2>1, DrainsByThen DEF NoTask
  <2>3. QED
    BY <2>1, <2>2, IdleTyped DEF LoopsRefill, OneOnItsWay
<1>13. CASE \/ GoOffline \/ GoOnline \/ MergeItem \/ UserCallAnswer \/ UserEdit \/ StorageCallback
            \/ \E i \in Items : RemotePut(i) \/ RemoteDelete(i)
  <2>1. CASE GoOffline \/ GoOnline \/ StorageCallback
    BY <1>3, <2>1 DEF GoOffline, GoOnline, RefreshOnline, StorageCallback, cacheVars, syncVars
  <2>2. CASE MergeItem
    BY <1>3, <2>2 DEF MergeItem, MergeCreated, MergeModified, MergeRevived, MergeDeleted,
                      MergeDropped, Merged
  <2>3. CASE UserCallAnswer
    BY <1>3, <2>3 DEF UserCallAnswer, UserCallSucceeds, UserCallFails, syncVars
  <2>4. CASE UserEdit
    BY <1>3, <2>4 DEF UserEdit, AddOffline, ModifyOffline, DeleteOffline, AddOnline, ModifyOnline,
                      DeleteOnline, Submit, syncVars
  <2>5. ASSUME NEW i \in Items, RemotePut(i) \/ RemoteDelete(i)
        PROVE  LoopsRefill' /\ OneOnItsWay'
    BY <1>3, <2>5 DEF RemotePut, RemoteDelete, syncVars
  <2>6. QED
    BY <1>13, <2>1, <2>2, <2>3, <2>4, <2>5
<1>14. CASE UNCHANGED allVars
  BY <1>3, <1>14 DEF allVars, cacheVars, syncVars
<1>15. QED
  BY <1>4, <1>5, <1>6, <1>7, <1>8, <1>9, <1>10, <1>11, <1>12, <1>13, <1>14
     DEF CacheNext, GetAnswer, PlaybackAnswer

-----------------------------------------------------------------------------
(* As many answers as operations *)

CountedAt(s) ==
    /\ Cardinality(CallsOf(s)) <= tasks[s].left
    /\ "deletes" \notin Disturbances => tasks[s].left = Cardinality(CallsOf(s))
    /\ tasks[s].wait <=> tasks[s].left > 0
    /\ tasks[s].kind = "none" => tasks[s] = NoTask

LEMMA CountedByParts ==
    /\ Counted <=> \A s \in Slots : CountedAt(s)
    /\ Counted' <=> \A s \in Slots : CountedAt(s)'
BY DEF Counted, CountedAt

\* The operations of the user, and those of other playbacks, do not matter.
LEMMA CountedKept ==
    ASSUME NEW s \in Slots, CountedAt(s), tasks'[s] = tasks[s],
           \A c : c.by = s => (c \in calls' <=> c \in calls)
    PROVE  CountedAt(s)'
<1>1. CallsOf(s)' = CallsOf(s)
  BY DEF CallsOf
<1>2. QED
  BY <1>1 DEF CountedAt

\* A playback with nothing outstanding that has just been posted, or is over.
LEMMA CountedFresh ==
    ASSUME NEW s \in Slots, CallsOf(s)' = {},
           tasks'[s] = NoTask \/ \E k \in Kinds : \E then : tasks'[s] = Posted(k, then)
    PROVE  CountedAt(s)'
<1>1. tasks'[s].left = 0 /\ tasks'[s].wait = FALSE
      /\ (tasks'[s].kind = "none" => tasks'[s] = NoTask)
  <2>1. CASE tasks'[s] = NoTask
    BY <2>1 DEF NoTask
  <2>2. ASSUME NEW k \in Kinds, NEW then, tasks'[s] = Posted(k, then)
        PROVE  tasks'[s].left = 0 /\ tasks'[s].wait = FALSE /\ tasks'[s].kind # "none"
    BY <2>2 DEF Posted, Kinds
  <2>3. QED
    BY <2>1, <2>2
<1>2. QED
  BY <1>1, FS_EmptySet DEF CountedAt

\* A playback with a posted getItems has nothing outstanding.
LEMMA NoneOutstanding ==
    ASSUME Types, NEW s \in Slots, CountedAt(s), ~tasks[s].wait
    PROVE  CallsOf(s) = {}
<1>1. tasks[s] \in Task
  BY DEF Types, CacheTypeOK
<1>2. Cardinality(CallsOf(s)) = 0
  BY <1>1, CallsFinite DEF CountedAt, Task
<1>3. QED
  BY <1>2, CallsFinite, FS_EmptySet

\* A playback's answer is counted.
LEMMA AnswerCounted ==
    ASSUME Types, Counted, NEW c \in calls, c.by \in Slots, CountDown(c.by), calls' = calls \ {c}
    PROVE  Counted'
<1> DEFINE s == c.by
<1>1. /\ tasks \in [Slots -> Task] /\ tasks[s] \in Task /\ tasks[s].kind # "none"
      /\ tasks[s].left > 0 /\ CountedAt(s)
  BY Outstanding, CountedByParts DEF Types, CacheTypeOK
<1>2. IsFiniteSet(CallsOf(s)) /\ Cardinality(CallsOf(s)) \in Nat /\ c \in CallsOf(s)
  BY CallsFinite DEF CallsOf
<1>3. CallsOf(s)' = CallsOf(s) \ {c}
  BY DEF CallsOf
<1>4. Cardinality(CallsOf(s)') = Cardinality(CallsOf(s)) - 1 /\ IsFiniteSet(CallsOf(s)')
      /\ Cardinality(CallsOf(s)') \in Nat
  BY <1>2, <1>3, FS_RemoveElement, FS_CardinalityType
<1>5. ASSUME NEW r \in Slots, r # s, tasks'[r] = tasks[r]
      PROVE  CountedAt(r)'
  BY <1>5, CountedByParts, CountedKept
<1>6. CASE tasks[s].left = 1
  <2>1. CallsOf(s)' = {}
    BY <1>1, <1>2, <1>4, <1>6, FS_EmptySet DEF CountedAt
  <2>2. tasks' = [tasks EXCEPT ![s] = NoTask]
        \/ \E k \in Kinds : tasks' = [tasks EXCEPT ![s] = Posted(k, tasks[s].then)]
    BY <1>1, <1>6, CountedDown
  <2>3. /\ tasks'[s] = NoTask \/ \E k \in Kinds : tasks'[s] = Posted(k, tasks[s].then)
        /\ \A r \in Slots : r # s => tasks'[r] = tasks[r]
    BY <1>1, <2>2
  <2>4. CountedAt(s)'
    BY <2>1, <2>3, CountedFresh
  <2>5. QED
    BY <1>5, <2>3, <2>4, CountedByParts
<1>7. CASE tasks[s].left # 1
  <2>1. tasks' = [tasks EXCEPT ![s].left = tasks[s].left - 1]
    BY <1>1, <1>7, CountedDown
  <2>2. tasks[s].left - 1 \in 0 .. tasks[s].left /\ tasks[s].left - 1 > 0
    BY <1>1, <1>7 DEF Task
  <2> DEFINE t == [tasks[s] EXCEPT !.left = tasks[s].left - 1]
  <2>3. t.left = tasks[s].left - 1 /\ t.wait = tasks[s].wait /\ t.kind = tasks[s].kind
    BY <1>1, <2>2, CountedTyped
  <2>4. tasks'[s] = t /\ \A r \in Slots : r # s => tasks'[r] = tasks[r]
    BY <1>1, <2>1
  <2> HIDE DEF t
  <2>5. CountedAt(s)'
    <3>1. tasks'[s].left = tasks[s].left - 1 /\ tasks'[s].wait = tasks[s].wait
          /\ tasks'[s].kind = tasks[s].kind
      BY <2>3, <2>4
    <3>2. Cardinality(CallsOf(s)') <= tasks'[s].left
          /\ ("deletes" \notin Disturbances => tasks'[s].left = Cardinality(CallsOf(s)'))
      BY <1>1, <1>2, <1>4, <2>2, <3>1 DEF CountedAt, Task
    <3>3. tasks'[s].wait <=> tasks'[s].left > 0
      BY <1>1, <2>2, <3>1 DEF CountedAt
    <3>4. QED
      BY <1>1, <3>1, <3>2, <3>3 DEF CountedAt
  <2>6. QED
    BY <1>5, <2>4, <2>5, CountedByParts
<1>8. QED
  BY <1>6, <1>7

\* A deletion that fails is answered but not counted.
LEMMA AnswerIgnored ==
    ASSUME Types, Counted, NEW c \in calls, c.by \in Slots, "deletes" \in Disturbances,
           tasks' = tasks, calls' = calls \ {c}
    PROVE  Counted'
<1>1. tasks \in [Slots -> Task]
  BY DEF Types, CacheTypeOK
<1>2. ASSUME NEW s \in Slots
      PROVE  CountedAt(s)'
  <2>1. CountedAt(s) /\ IsFiniteSet(CallsOf(s)) /\ Cardinality(CallsOf(s)) \in Nat
        /\ tasks[s] \in Task
    BY <1>1, CountedByParts, CallsFinite
  <2>2. CallsOf(s)' = CallsOf(s) \ {c}
    BY DEF CallsOf
  <2>3. Cardinality(CallsOf(s)') <= Cardinality(CallsOf(s)) /\ Cardinality(CallsOf(s)') \in Nat
    <3>1. CallsOf(s)' \in SUBSET CallsOf(s)
      BY <2>2
    <3>2. IsFiniteSet(CallsOf(s)') /\ Cardinality(CallsOf(s)') <= Cardinality(CallsOf(s))
      BY <2>1, <3>1, FS_Subset
    <3>3. QED
      BY <3>2, FS_CardinalityType
  <2>4. QED
    BY <2>1, <2>3 DEF CountedAt, Task
<1>3. QED
  BY <1>2, CountedByParts

LEMMA CountedStep ==
    ASSUME CacheInv, [CacheNext]_allVars
    PROVE  Counted'
<1>1. /\ Types /\ Counted /\ tasks \in [Slots -> Task]
      /\ \A s \in Slots : CountedAt(s)
  BY CountedByParts DEF CacheInv, Types, CacheTypeOK
<1>2. CASE UNCHANGED <<tasks, calls>>
  BY <1>1, <1>2, CountedByParts, CountedKept
<1>3. ASSUME NEW then, StartPlayback(then), calls' = calls
      PROVE  Counted'
  <2>1. PICK s \in Slots :
            tasks[s] = NoTask /\ tasks' = [tasks EXCEPT ![s] = Posted("created", then)]
    BY <1>3, PlaybackStarted
  <2>2. tasks'[s] = Posted("created", then) /\ \A r \in Slots : r # s => tasks'[r] = tasks[r]
    BY <1>1, <2>1
  <2>3. CallsOf(s)' = {}
    <3>1. CallsOf(s) = {}
      BY <1>1, <2>1, NoneOutstanding DEF NoTask
    <3>2. QED
      BY <1>3, <3>1 DEF CallsOf
  <2>4. CountedAt(s)'
    BY <2>2, <2>3, CountedFresh DEF Kinds
  <2>5. \A r \in Slots : r # s => CountedAt(r)'
    BY <1>1, <1>3, <2>2, CountedKept
  <2>6. QED
    BY <2>4, <2>5, CountedByParts
<1>4. CASE GetAnswer \/ LoopCompleted \/ MergeCompleted
  <2>1. calls' = calls /\ (tasks' = tasks \/ \E then : StartPlayback(then))
    BY <1>4 DEF GetAnswer, GetResult, GetCompleted, LoopCompleted, MergeCompleted,
                OperationComplete, vars
  <2>2. QED
    BY <1>2, <1>3, <2>1
<1>5. ASSUME NEW s \in Slots, PlaybackGet(s)
      PROVE  Counted'
  <2>1. tasks[s] \in Task /\ tasks[s].kind # "none" /\ CallsOf(s) = {}
    <3>1. tasks[s] # NoTask /\ ~tasks[s].wait
      BY <1>5 DEF PlaybackGet
    <3>2. QED
      BY <1>1, <3>1, NoneOutstanding DEF CountedAt
  <2>2. CASE (Finish(s) \/ Advance(s)) /\ calls' = calls
    <3>1. tasks' = [tasks EXCEPT ![s] = NoTask]
          \/ \E k \in Kinds : tasks' = [tasks EXCEPT ![s] = Posted(k, tasks[s].then)]
      BY <1>1, <2>1, <2>2, Advanced DEF Finish
    <3>2. /\ tasks'[s] = NoTask \/ \E k \in Kinds : tasks'[s] = Posted(k, tasks[s].then)
          /\ \A r \in Slots : r # s => tasks'[r] = tasks[r]
      BY <1>1, <3>1
    <3>3. CallsOf(s)' = {}
      BY <2>1, <2>2 DEF CallsOf
    <3>4. CountedAt(s)'
      BY <3>2, <3>3, CountedFresh
    <3>5. \A r \in Slots : r # s => CountedAt(r)'
      BY <1>1, <2>2, <3>2, CountedKept
    <3>6. QED
      BY <3>4, <3>5, CountedByParts
  <2>3. CASE /\ tasks' = [tasks EXCEPT ![s] = [kind |-> tasks[s].kind, wait |-> TRUE,
                                left |-> Cardinality(Selected(tasks[s].kind)), then |-> tasks[s].then]]
             /\ calls' = calls \cup Submitted(s)
             /\ Selected(tasks[s].kind) # {}
    <3>1. \A c \in Submitted(s) : c.by = s
      BY DEF Submitted
    <3>2. CallsOf(s)' = Submitted(s)
      BY <2>1, <2>3, <3>1 DEF CallsOf
    <3>3. \A r \in Slots : r # s => tasks'[r] = tasks[r]
      BY <1>1, <2>3
    <3>4. CountedAt(s)'
      <4>1. tasks'[s].kind = tasks[s].kind /\ tasks'[s].wait = TRUE
            /\ tasks'[s].left = Cardinality(Selected(tasks[s].kind))
        BY <1>1, <2>3
      <4>2. Cardinality(CallsOf(s)') = Cardinality(Selected(tasks[s].kind))
            /\ Cardinality(Selected(tasks[s].kind)) \in Nat
            /\ Cardinality(Selected(tasks[s].kind)) > 0
        BY <1>1, <2>1, <2>3, <3>2, SubmittedTyped
      <4>3. QED
        BY <2>1, <4>1, <4>2 DEF CountedAt
    <3>5. ASSUME NEW r \in Slots, r # s
          PROVE  CountedAt(r)'
      <4>1. \A c : c.by = r => (c \in calls' <=> c \in calls)
        BY <2>3, <3>1, <3>5
      <4>2. QED
        BY <1>1, <3>3, <3>5, <4>1, CountedKept
    <3>6. QED
      BY <3>4, <3>5, CountedByParts
  <2>4. QED
    BY <1>1, <1>5, <2>2, <2>3 DEF PlaybackGet, Submitted
<1>6. ASSUME NEW c \in calls, PlaybackSucceeds(c) \/ PlaybackFails(c)
      PROVE  Counted'
  <2>1. /\ c.by \in Slots /\ calls' = calls \ {c}
        /\ CountDown(c.by) \/ ("deletes" \in Disturbances /\ tasks' = tasks)
    BY <1>6 DEF PlaybackSucceeds, PlaybackFails, MayFail
  <2>2. QED
    BY <1>1, <2>1, AnswerCounted, AnswerIgnored
<1>7. ASSUME tasks' = tasks, \A c : c.by # User => (c \in calls' <=> c \in calls)
      PROVE  Counted'
  <2>1. \A s \in Slots : s # User
    BY DEF Slots, User
  <2>2. QED
    BY <1>1, <1>7, <2>1, CountedByParts, CountedKept
<1>8. ASSUME NEW c \in calls, UserCallSucceeds(c) \/ UserCallFails(c)
      PROVE  Counted'
  <2>1. c.by = User /\ tasks' = tasks /\ calls' = calls \ {c}
    BY <1>8 DEF UserCallSucceeds, UserCallFails
  <2>2. QED
    BY <1>7, <2>1
<1>9. ASSUME NEW op, NEW i, NEW v, Submit(op, i, v)
      PROVE  Counted'
  <2> DEFINE c == [op |-> op, item |-> i, ver |-> v, by |-> User]
  <2>1. c.by = User /\ tasks' = tasks /\ calls' = calls \cup {c}
    BY <1>9 DEF Submit
  <2> HIDE DEF c
  <2>2. QED
    BY <1>7, <2>1
<1>10. CASE UserEdit
  <2>1. UNCHANGED <<tasks, calls>> \/ \E op, i, v : Submit(op, i, v)
    BY <1>10 DEF UserEdit, AddOffline, ModifyOffline, DeleteOffline, AddOnline, ModifyOnline,
                 DeleteOnline
  <2>2. QED
    BY <1>2, <1>9, <2>1
<1>11. CASE RestartCache
  <2>1. calls' = {} /\ tasks' = [s \in Slots |-> NoTask]
    BY <1>11 DEF RestartCache
  <2>2. \A s \in Slots : CallsOf(s)' = {} /\ tasks'[s] = NoTask
    BY <2>1 DEF CallsOf
  <2>3. QED
    BY <2>2, CountedFresh, CountedByParts
<1>12. CASE \/ Refresh \/ UncachedLoaded \/ GoOffline \/ GoOnline \/ CollectOffline \/ AddFetched
            \/ MergeItem \/ StorageCallback \/ (\E i \in Items : RemotePut(i) \/ RemoteDelete(i))
            \/ UNCHANGED allVars
  <2>1. UNCHANGED <<tasks, calls>>
    BY <1>12 DEF Refresh, UncachedLoaded, GoOffline, GoOnline, CollectOffline, AddFetched,
                 MergeItem, MergeCreated, MergeModified, MergeRevived, MergeDeleted, MergeDropped,
                 Merged, StorageCallback, cacheVars, RemotePut, RemoteDelete, allVars
  <2>2. QED
    BY <1>2, <2>1
<1>13. QED
  BY <1>4, <1>5, <1>6, <1>8, <1>10, <1>11, <1>12 DEF CacheNext, UserCallAnswer, PlaybackAnswer

-----------------------------------------------------------------------------
(* The theorems *)

LEMMA CacheInvInit == CacheInit => CacheInv
<1> SUFFICES ASSUME CacheInit
             PROVE  CacheInv
  OBVIOUS
<1>1. Types
  <2>1. TypeOK
    BY RowHelpers, EmptySeq, StorageConstants DEF CacheInit, TypeOK, Flags
  <2>2. SyncTypes
    BY IdleTyped, NothingCollected, CacheConstants DEF CacheInit, SyncTypes
  <2>3. PlaybackTypes
    BY PostedTyped DEF CacheInit, PlaybackTypes
  <2>4. NetTypes
    <3>1. {0, 1} \subseteq 0 .. MaxVersion
      BY StorageConstants
    <3>2. server \in [Items -> 0 .. MaxVersion]
      BY <3>1 DEF CacheInit
    <3>3. unsent \in [Items -> [kind : {"none", "put", "delete"}, ver : 0 .. MaxVersion]]
      BY NothingTyped DEF CacheInit
    <3>4. QED
      BY <3>2, <3>3 DEF CacheInit, NetTypes
  <2>5. QED
    BY <2>1, <2>2, <2>3, <2>4, TypesSplit
<1>2. LoopsRefill
  BY IdleTyped DEF CacheInit, LoopsRefill
<1>3. OneOnItsWay
  <2>1. Drains = {}
    BY DEF CacheInit, Drains
  <2>2. QED
    BY <2>1, IdleTyped DEF CacheInit, OneOnItsWay
<1>4. Counted
  <2>1. \A s \in Slots : tasks[s] = NoTask /\ CallsOf(s) = {}
    BY DEF CacheInit, CallsOf
  <2>2. QED
    BY <2>1, FS_EmptySet DEF Counted, NoTask
<1>5. QED
  BY <1>1, <1>2, <1>3, <1>4 DEF CacheInv

\* CacheInv is inductive.
LEMMA CacheInvInductive == CacheSpec => []CacheInv
<1>1. CacheInit => CacheInv
  BY CacheInvInit
<1>2. CacheInv /\ [CacheNext]_allVars => CacheInv'
  BY TypesStep, OneSyncStep, CountedStep DEF CacheInv
<1>3. QED
  BY <1>1, <1>2, PTL DEF CacheSpec

\* Whatever the user, the provider, the server and the network do, and whenever the
\* process dies: the rows, the requests, the sync and the playbacks are well formed.
THEOREM CacheTypeCorrect == CacheSpec => [](TypeOK /\ CacheTypeOK)
<1>1. CacheInv => TypeOK /\ CacheTypeOK
  BY DEF CacheInv, Types
<1>2. QED
  BY <1>1, CacheInvInductive, PTL

\* calCachedCalendar.js:274-306: with any number of callers, getItems that
\* fail at any point and playbacks that have no end, callers wait exactly while one
\* sync, or the one playback that ends it, is on its way.
THEOREM OneSyncAtATime == CacheSpec => []OneSync
<1>1. CacheInv => OneSync
  BY OneDrain DEF CacheInv, OneOnItsWay, OneSync
<1>2. QED
  BY <1>1, CacheInvInductive, PTL

\* calCachedCalendar.js:482-612: as long as no deletion that is played back fails, a
\* playback waits for as many answers as it has operations outstanding.
THEOREM ItemsCounted == "deletes" \notin Disturbances => (CacheSpec => []ItemCount)
<1> SUFFICES ASSUME "deletes" \notin Disturbances
             PROVE  CacheSpec => []ItemCount
  OBVIOUS
<1>1. CacheInv => ItemCount
  BY DEF CacheInv, Counted, ItemCount, CallsOf
<1>2. QED
  BY <1>1, CacheInvInductive, PTL
-----------------------------------------------------------------------------
(* What the user changed is held: the inductive invariant *)

\* One thing after the other: the user edits while nothing is on its way, nothing
\* overtakes a lookup or an earlier operation, ids do not come back, and of the
\* provider's calls only deletions fail.
Gentle == Disturbances \subseteq {"deletes"}

InTurn ==
    /\ lookups # <<>> => sync.phase \in {"idle", "merge"} /\ \A c \in calls : c.by # User
    /\ sync.phase # "idle" => calls = {}
    /\ \A s \in Slots : tasks[s] # NoTask => tasks[s].then = "drain"
    /\ \A c \in calls : c.by = User => calls = {c} /\ \A s \in Slots : tasks[s] = NoTask

\* A merge has begun, and its playback has not ended.
Replaying == sync.phase = "merge" \/ \E s \in Slots : tasks[s] # NoTask

\* What a merge or a playback meets that still has a lookup has no flag yet: the
\* playback leaves it alone.
Apart == \A i \in Items : Replaying /\ Busy(i) => rows[i].flag = "none"

\* The refill is on its way from the wipe to the merge.
Refilling ==
    /\ sync.phase \in Kinds \cup {"asked"} /\ ~sync.renewed => \A i \in Items : fetched[i] = 0
    /\ sync.renewed => sync.phase \in {"asked", "answered"}
    /\ ~sync.renewed => sync.loops = <<>>
    /\ sync.phase = "answered" => sync.renewed /\ sync.rest = {}
    /\ sync.op # "none" => sync.phase = "answered" /\ sync.op = "ok"

\* A row that playback will give the server what the user wants from.
Holds(row, u) ==
    \/ u = Nothing
    \/ u.kind = "put" /\ row.flag \in {"created", "modified"} /\ row.ver = u.ver
    \/ u.kind = "delete" /\ row.flag = "deleted"

\* A lookup whose callback will leave such a row behind.
LookupFits(l, row, u) ==
    /\ row.ver # 0 /\ row.flag # "deleted"
    /\ \/ u = Nothing
       \/ l.op = "modify" /\ l.chain /\ u = [kind |-> "put", ver |-> l.ver]
       \/ l.op = "mark" /\ u = [kind |-> "put", ver |-> row.ver]
       \/ l.op = "remove" /\ u.kind = "delete" /\ row.flag # "created"

LookupsFit ==
    /\ LookupsCurrent
    /\ \A k \in 1 .. Len(lookups) :
           LookupFits(lookups[k], rows[lookups[k].item], unsent[lookups[k].item])

\* An operation in playback is what the row's flag stands for.
CallFits(c, row) ==
    IF c.by = User
    THEN /\ c.op = "add" => row.ver = 0
         /\ c.op = "modify" => row.ver # 0 /\ row.flag # "deleted"
    ELSE /\ row.flag # "none" /\ c.op = OpFor[row.flag]
         /\ c.ver = IF row.flag = "deleted" THEN 0 ELSE row.ver

CallsFit ==
    /\ \A c \in calls : CallFits(c, rows[c.item])
    /\ \A c, d \in calls : c.item = d.item => c = d

Gathered ==
    CASE sync.phase = "modified" -> {"created"}
      [] sync.phase = "deleted" -> {"created", "modified"}
      [] sync.phase = "asked" -> {"created", "modified", "deleted"}
      [] OTHER -> {}

ToRefill(i) == i \in sync.rest \/ \E k \in DOMAIN sync.loops : i \in sync.loops[k]

\* Between the wipe and the merge: what was collected is all there is of it.
HeldInRefill(i) ==
    /\ rows[i] = Flushed(fetched[i]) \/ (rows[i] = NoRow /\ ToRefill(i))
    /\ ToRefill(i) => fetched[i] # 0
    /\ Holds(collected[i], unsent[i])
    /\ collected[i] # NoRow /\ fetched[i] = 0 => server[i] = 0

\* An item whose turn in the merge is still to come: refilled, or - the provider had
\* nothing and the cache was not wiped - as it was collected.
HeldForMerge(i) ==
    /\ rows[i] = Flushed(fetched[i]) \/ (rows[i] = collected[i] /\ fetched[i] = 0)
    /\ ~Busy(i)
    /\ Holds(collected[i], unsent[i])
    /\ fetched[i] = 0 => server[i] = 0

HeldInCache(i) ==
    /\ ~Busy(i) => Holds(rows[i], unsent[i])
    /\ sync.phase # "merge" =>
           collected[i] = IF rows[i].flag \in Gathered THEN rows[i] ELSE NoRow

ToMerge(i) == sync.phase = "merge" /\ collected[i] # NoRow

Held(i) ==
    /\ rows[i].flag = "created" => server[i] = 0
    /\ collected[i].flag = "created" => server[i] = 0
    /\ sync.renewed => HeldInRefill(i)
    /\ ToMerge(i) => HeldForMerge(i)
    /\ ~sync.renewed /\ ~ToMerge(i) => HeldInCache(i)

HeldInv == InTurn /\ Refilling /\ LookupsFit /\ Apart /\ CallsFit /\ \A i \in Items : Held(i)

\* Nothing that an item depends on has changed.
LEMMA HeldKept ==
    ASSUME NEW i \in Items, Held(i), rows'[i] = rows[i], collected'[i] = collected[i],
           fetched'[i] = fetched[i], server'[i] = server[i], unsent'[i] = unsent[i],
           sync' = sync, Busy(i)' <=> Busy(i)
    PROVE  Held(i)'
<1>1. ToRefill(i)' <=> ToRefill(i)
  BY DEF ToRefill
<1>2. (ToMerge(i)' <=> ToMerge(i)) /\ Gathered' = Gathered
  BY DEF ToMerge, Gathered
<1>3. HeldInRefill(i)' <=> HeldInRefill(i)
  BY <1>1 DEF HeldInRefill
<1>4. HeldForMerge(i)' <=> HeldForMerge(i)
  BY DEF HeldForMerge
<1>5. HeldInCache(i)' <=> HeldInCache(i)
  BY <1>2 DEF HeldInCache
<1>6. QED
  BY <1>2, <1>3, <1>4, <1>5 DEF Held

\* Without lookups there is nothing to fit.
LEMMA NoLookups ==
    ASSUME lookups = <<>>
    PROVE  LookupsFit /\ \A i : ~Busy(i)
<1>1. Len(lookups) = 0
  OBVIOUS
<1>2. \A k \in 1 .. Len(lookups) : FALSE
  BY <1>1
<1>3. QED
  BY <1>2 DEF LookupsFit, LookupsCurrent, Busy

LEMMA NoLookupsNext ==
    ASSUME lookups' = <<>>
    PROVE  LookupsFit' /\ \A i : ~Busy(i)'
<1>1. Len(lookups') = 0
  OBVIOUS
<1>2. \A k \in 1 .. Len(lookups') : FALSE
  BY <1>1
<1>3. QED
  BY <1>2 DEF LookupsFit, LookupsCurrent, Busy

\* Only an item without a lookup is written.
LEMMA LookupsKept ==
    ASSUME TypeOK, LookupsFit, lookups' = lookups, NEW i \in Items, ~Busy(i),
           \A j \in Items : j # i => rows'[j] = rows[j] /\ unsent'[j] = unsent[j]
    PROVE  LookupsFit' /\ \A j : Busy(j)' <=> Busy(j)
<1>1. \A k \in 1 .. Len(lookups) : lookups[k].item \in Items /\ lookups[k].item # i
  BY OthersLookedUp
<1>2. \A k \in 1 .. Len(lookups) :
          /\ rows'[lookups[k].item] = rows[lookups[k].item]
          /\ unsent'[lookups[k].item] = unsent[lookups[k].item]
  BY <1>1
<1>3. LookupsCurrent'
  BY <1>2, LookupsUndisturbed DEF LookupsFit
<1>4. \A k \in 1 .. Len(lookups') :
          LookupFits(lookups'[k], rows'[lookups'[k].item], unsent'[lookups'[k].item])
  BY <1>2 DEF LookupsFit
<1>5. QED
  BY <1>3, <1>4 DEF LookupsFit, Busy

\* A lookup is posted for an item that has none.
LEMMA LookupsGrow ==
    ASSUME TypeOK, LookupsFit, NEW i \in Items, ~Busy(i),
           NEW op \in {"modify", "mark", "remove"}, NEW v \in 0 .. MaxVersion,
           NEW chain \in BOOLEAN, op = "modify" => v # 0,
           PostLookup(op, i, v, chain),
           \A j \in Items : j # i => rows'[j] = rows[j] /\ unsent'[j] = unsent[j],
           LookupFits([op |-> op, item |-> i, ver |-> v, chain |-> chain, seen |-> Unread],
                      rows'[i], unsent'[i])
    PROVE  /\ LookupsFit' /\ Busy(i)'
           /\ \A j : j # i => (Busy(j)' <=> Busy(j))
<1> DEFINE n == Len(lookups)
<1>1. PICK l : l = [op |-> op, item |-> i, ver |-> v, chain |-> chain, seen |-> Unread]
  OBVIOUS
<1>2. l.item = i /\ l.seen = Unread
  BY <1>1
<1>3. /\ Len(lookups') = n + 1 /\ n \in Nat
      /\ \A k \in 1 .. n : lookups'[k] = lookups[k]
      /\ lookups'[n + 1] = l
  <2>1. lookups \in Seq(Lookup)
    BY DEF TypeOK
  <2>2. /\ Len(lookups') = Len(lookups) + 1
        /\ \A k \in 1 .. Len(lookups) : lookups'[k] = lookups[k]
        /\ lookups'[Len(lookups) + 1] = [op |-> op, item |-> i, ver |-> v,
                                         chain |-> chain, seen |-> Unread]
    BY <2>1, LookupPosted
  <2>3. n \in Nat
    BY <2>1, LenProperties
  <2>4. QED
    BY <1>1, <2>2, <2>3
<1>4. \A k \in 1 .. n : /\ lookups[k].item \in Items /\ lookups[k].item # i
                        /\ rows'[lookups[k].item] = rows[lookups[k].item]
                        /\ unsent'[lookups[k].item] = unsent[lookups[k].item]
  BY OthersLookedUp
<1>5. \A k \in 1 .. n :
          /\ lookups[k].seen # Unread => lookups[k].seen = rows[lookups[k].item].flag
          /\ \A j \in 1 .. n : lookups[j].item = lookups[k].item => j = k
          /\ LookupFits(lookups[k], rows[lookups[k].item], unsent[lookups[k].item])
  BY DEF LookupsFit, LookupsCurrent
<1>6. LookupFits(l, rows'[i], unsent'[i])
  BY <1>1
<1> HIDE DEF n
<1>7. \A k \in 1 .. (n + 1) : k \in 1 .. n \/ k = n + 1
  BY <1>3
<1>8. \A k \in 1 .. n : k \in 1 .. (n + 1)
  BY <1>3
<1>9. n + 1 \in 1 .. (n + 1)
  BY <1>3
<1>10. LookupsCurrent'
  <2>1. SUFFICES ASSUME NEW k \in 1 .. (n + 1)
                 PROVE  /\ lookups'[k].seen # Unread
                              => lookups'[k].seen = rows'[lookups'[k].item].flag
                        /\ \A j \in 1 .. (n + 1) : lookups'[j].item = lookups'[k].item => j = k
    BY <1>3 DEF LookupsCurrent
  <2>2. CASE k \in 1 .. n
    BY <1>2, <1>3, <1>4, <1>5, <1>7, <2>2
  <2>3. CASE k = n + 1
    BY <1>2, <1>3, <1>4, <1>7, <2>3
  <2>4. QED
    BY <1>7, <2>2, <2>3
<1>11. \A k \in 1 .. (n + 1) :
           LookupFits(lookups'[k], rows'[lookups'[k].item], unsent'[lookups'[k].item])
  <2>1. SUFFICES ASSUME NEW k \in 1 .. (n + 1)
                 PROVE  LookupFits(lookups'[k], rows'[lookups'[k].item], unsent'[lookups'[k].item])
    OBVIOUS
  <2>2. CASE k \in 1 .. n
    BY <1>3, <1>4, <1>5, <2>2
  <2>3. CASE k = n + 1
    BY <1>2, <1>3, <1>6, <2>3
  <2>4. QED
    BY <1>7, <2>2, <2>3
<1>12. Busy(i)'
  BY <1>2, <1>3, <1>9 DEF Busy
<1>13. ASSUME NEW j, j # i
       PROVE  Busy(j)' <=> Busy(j)
  <2>1. Busy(j) <=> \E k \in 1 .. n : lookups[k].item = j
    BY DEF Busy, n
  <2>2. Busy(j)' <=> \E k \in 1 .. (n + 1) : lookups'[k].item = j
    BY <1>3 DEF Busy
  <2>3. QED
    BY <1>2, <1>3, <1>7, <1>8, <1>13, <2>1, <2>2
<1>14. QED
  BY <1>3, <1>10, <1>11, <1>12, <1>13 DEF LookupsFit

\* What a lookup is for does not change when its SELECT has run.
LEMMA LookupsRead ==
    ASSUME TypeOK, LookupsFit, ReadFlag, unsent' = unsent
    PROVE  LookupsFit' /\ \A j : Busy(j)' <=> Busy(j)
<1>1. PICK k \in 1 .. Len(lookups) :
          /\ Len(lookups') = Len(lookups)
          /\ \A j \in 1 .. Len(lookups) :
                 lookups'[j] = IF j = k
                                 THEN [lookups[k] EXCEPT !.seen = rows[lookups[k].item].flag]
                                 ELSE lookups[j]
  BY LookupRead
<1>2. lookups[k] \in Lookup
  BY ElementOfSeq DEF TypeOK
<1>3. /\ lookups'[k].item = lookups[k].item /\ lookups'[k].seen = rows[lookups[k].item].flag
      /\ lookups'[k].op = lookups[k].op /\ lookups'[k].ver = lookups[k].ver
      /\ lookups'[k].chain = lookups[k].chain
  BY <1>1, <1>2 DEF Lookup
<1>4. rows' = rows
  BY DEF ReadFlag
<1>5. \A j \in 1 .. Len(lookups) :
          /\ lookups'[j].item = lookups[j].item /\ lookups'[j].op = lookups[j].op
          /\ lookups'[j].ver = lookups[j].ver /\ lookups'[j].chain = lookups[j].chain
  BY <1>1, <1>3
<1>6. LookupsCurrent'
  BY <1>1, <1>3, <1>4 DEF LookupsCurrent, LookupsFit
<1>7. \A j \in 1 .. Len(lookups') :
          LookupFits(lookups'[j], rows'[lookups'[j].item], unsent'[lookups'[j].item])
  BY <1>1, <1>4, <1>5 DEF LookupsFit, LookupFits
<1>8. QED
  BY <1>1, <1>5, <1>6, <1>7 DEF LookupsFit, Busy

\* A callback answers the oldest lookup; only its item's row has changed.
LEMMA LookupsShrink ==
    ASSUME TypeOK, LookupsFit, NEW op, Answered(op), NEW i \in Items, i = Head(lookups).item,
           lookups' = Tail(lookups), unsent' = unsent,
           \A j \in Items : j # i => rows'[j] = rows[j]
    PROVE  /\ LookupsFit' /\ ~Busy(i)'
           /\ \A j : j # i => (Busy(j)' <=> Busy(j))
<1>1. PICK q : q = Tail(lookups)
  OBVIOUS
<1>2. /\ lookups # <<>> /\ i \in Items /\ Len(lookups) >= 1 /\ Head(lookups) = lookups[1]
      /\ Len(q) = Len(lookups) - 1 /\ Len(lookups) \in Nat
      /\ \A k \in 1 .. Len(q) : q[k] = lookups[k + 1]
  BY <1>1, AnsweredHead, LenProperties DEF Answered, TypeOK
<1>3. \A k \in 1 .. Len(q) :
          /\ q[k].item # i
          /\ q[k].seen # Unread => q[k].seen = rows'[q[k].item].flag
          /\ \A j \in 1 .. Len(q) : q[j].item = q[k].item => j = k
  BY <1>1, <1>2, TailCurrent DEF LookupsFit
<1>4. lookups' = q
  BY <1>1
<1>5. LookupsCurrent'
  BY <1>3, <1>4 DEF LookupsCurrent
<1>6. ASSUME NEW k \in 1 .. Len(q)
      PROVE  k + 1 \in 1 .. Len(lookups) /\ q[k].item \in Items
             /\ LookupFits(q[k], rows'[q[k].item], unsent'[q[k].item])
  <2>1. k + 1 \in 1 .. Len(lookups)
    BY <1>2
  <2>2. lookups[k + 1] \in Lookup
    BY <2>1, ElementOfSeq DEF TypeOK
  <2>3. q[k].item \in Items /\ q[k].item # i
    BY <1>2, <1>3, <2>2 DEF Lookup
  <2>4. rows'[q[k].item] = rows[q[k].item]
    BY <2>3
  <2>5. LookupFits(lookups[k + 1], rows[lookups[k + 1].item], unsent[lookups[k + 1].item])
    BY <2>1 DEF LookupsFit
  <2>6. QED
    BY <1>2, <2>1, <2>3, <2>4, <2>5
<1>7. LookupsFit'
  BY <1>4, <1>5, <1>6 DEF LookupsFit
<1>8. ~Busy(i)'
  BY <1>3, <1>4 DEF Busy
<1>9. ASSUME NEW j, j # i
      PROVE  Busy(j)' <=> Busy(j)
  <2>1. Busy(j) => \E k \in 1 .. Len(q) : q[k].item = j
    <3>1. SUFFICES ASSUME NEW n \in 1 .. Len(lookups), lookups[n].item = j
                   PROVE  \E k \in 1 .. Len(q) : q[k].item = j
      BY DEF Busy
    <3>2. n # 1
      BY <1>2, <1>9, <3>1
    <3>3. n - 1 \in 1 .. Len(q) /\ (n - 1) + 1 = n
      BY <1>2, <3>2
    <3>4. q[n - 1] = lookups[(n - 1) + 1]
      BY <1>2, <3>3
    <3>5. QED
      BY <3>1, <3>3, <3>4
  <2>2. ASSUME NEW k \in 1 .. Len(q), q[k].item = j
        PROVE  Busy(j)
    BY <1>2, <1>6, <2>2 DEF Busy
  <2>3. QED
    BY <1>4, <2>1, <2>2 DEF Busy
<1>10. QED
  BY <1>7, <1>8, <1>9

\* doModifyItem's listener asks for the item to be marked: the lookup for that is
\* the youngest.
LEMMA LookupsChained ==
    ASSUME TypeOK, LookupsFit, NEW op, Answered(op), NEW i \in Items, i = Head(lookups).item,
           unsent' = unsent,
           lookups' = Append(Tail(lookups), [Head(lookups) EXCEPT !.op = "mark", !.seen = Unread]),
           \A j \in Items : j # i => rows'[j] = rows[j],
           LookupFits([Head(lookups) EXCEPT !.op = "mark", !.seen = Unread],
                      rows'[i], unsent'[i])
    PROVE  /\ LookupsFit' /\ Busy(i)'
           /\ \A j : j # i => (Busy(j)' <=> Busy(j))
<1>1. PICK q : q = Tail(lookups)
  OBVIOUS
<1>2. PICK m : m = [Head(lookups) EXCEPT !.op = "mark", !.seen = Unread]
  OBVIOUS
<1>3. /\ lookups # <<>> /\ i \in Items /\ Len(lookups) >= 1 /\ Head(lookups) = lookups[1]
      /\ Len(q) = Len(lookups) - 1 /\ Len(lookups) \in Nat /\ q \in Seq(Lookup)
      /\ Head(lookups) \in Lookup
      /\ \A k \in 1 .. Len(q) : q[k] = lookups[k + 1]
  BY <1>1, AnsweredHead, LenProperties DEF Answered, TypeOK
<1>4. m \in Lookup /\ m.item = i /\ m.seen = Unread
  BY <1>2, <1>3 DEF Lookup
<1>5. LookupFits(m, rows'[i], unsent'[i])
  BY <1>2
<1>6. \A k \in 1 .. Len(q) :
          /\ q[k].item # i
          /\ q[k].seen # Unread => q[k].seen = rows'[q[k].item].flag
          /\ \A j \in 1 .. Len(q) : q[j].item = q[k].item => j = k
  BY <1>1, <1>3, TailCurrent DEF LookupsFit
<1>7. lookups' = Append(q, m)
  BY <1>1, <1>2
<1>8. PICK n \in Nat : n = Len(q)
  BY <1>3, LenProperties
<1>9. /\ Len(lookups') = n + 1 /\ lookups'[n + 1] = m
      /\ \A k \in 1 .. n : lookups'[k] = q[k]
  BY <1>3, <1>4, <1>7, <1>8, AppendProperties
<1>10. \A k \in 1 .. (n + 1) : k \in 1 .. n \/ k = n + 1
  OBVIOUS
<1>11. (\A k \in 1 .. n : k \in 1 .. (n + 1)) /\ n + 1 \in 1 .. (n + 1)
  OBVIOUS
<1>12. ASSUME NEW k \in 1 .. n
       PROVE  k + 1 \in 1 .. Len(lookups) /\ q[k].item \in Items
              /\ LookupFits(q[k], rows'[q[k].item], unsent'[q[k].item])
  <2>1. k + 1 \in 1 .. Len(lookups)
    BY <1>3, <1>8
  <2>2. lookups[k + 1] \in Lookup
    BY <2>1, ElementOfSeq DEF TypeOK
  <2>3. q[k].item \in Items /\ q[k].item # i
    BY <1>3, <1>6, <1>8, <2>2 DEF Lookup
  <2>4. rows'[q[k].item] = rows[q[k].item]
    BY <2>3
  <2>5. LookupFits(lookups[k + 1], rows[lookups[k + 1].item], unsent[lookups[k + 1].item])
    BY <2>1 DEF LookupsFit
  <2>6. QED
    BY <1>3, <1>8, <2>1, <2>3, <2>4, <2>5
<1>13. LookupsCurrent'
  <2>1. SUFFICES ASSUME NEW k \in 1 .. (n + 1)
                 PROVE  /\ lookups'[k].seen # Unread
                              => lookups'[k].seen = rows'[lookups'[k].item].flag
                        /\ \A j \in 1 .. (n + 1) : lookups'[j].item = lookups'[k].item => j = k
    BY <1>9 DEF LookupsCurrent
  <2>2. CASE k \in 1 .. n
    <3>1. lookups'[k] = q[k] /\ lookups'[n + 1].item = i
      BY <1>4, <1>9, <2>2
    <3>2. /\ q[k].item # i
          /\ q[k].seen # Unread => q[k].seen = rows'[q[k].item].flag
          /\ \A j \in 1 .. n : q[j].item = q[k].item => j = k
      BY <1>6, <1>8, <2>2
    <3>3. \A j \in 1 .. n : lookups'[j].item = q[j].item
      BY <1>9
    <3>4. QED
      BY <1>10, <3>1, <3>2, <3>3
  <2>3. CASE k = n + 1
    <3>1. \A j \in 1 .. n : lookups'[j].item # i
      BY <1>6, <1>8, <1>9
    <3>2. lookups'[k].item = i /\ lookups'[k].seen = Unread
      BY <1>4, <1>9, <2>3
    <3>3. QED
      BY <1>10, <2>3, <3>1, <3>2
  <2>4. QED
    BY <1>10, <2>2, <2>3
<1>14. \A k \in 1 .. (n + 1) :
           LookupFits(lookups'[k], rows'[lookups'[k].item], unsent'[lookups'[k].item])
  <2>1. SUFFICES ASSUME NEW k \in 1 .. (n + 1)
                 PROVE  LookupFits(lookups'[k], rows'[lookups'[k].item], unsent'[lookups'[k].item])
    OBVIOUS
  <2>2. CASE k \in 1 .. n
    BY <1>9, <1>12, <2>2
  <2>3. CASE k = n + 1
    BY <1>4, <1>5, <1>9, <2>3
  <2>4. QED
    BY <1>10, <2>2, <2>3
<1>15. Busy(i)'
  BY <1>4, <1>9, <1>11 DEF Busy
<1>16. ASSUME NEW j, j # i
       PROVE  Busy(j)' <=> Busy(j)
  <2>1. Busy(j) => \E k \in 1 .. n : q[k].item = j
    <3>1. SUFFICES ASSUME NEW p \in 1 .. Len(lookups), lookups[p].item = j
                   PROVE  \E k \in 1 .. n : q[k].item = j
      BY DEF Busy
    <3>2. p # 1
      BY <1>3, <1>16, <3>1
    <3>3. p - 1 \in 1 .. n /\ (p - 1) + 1 = p
      BY <1>3, <1>8, <3>2
    <3>4. q[p - 1] = lookups[(p - 1) + 1]
      BY <1>3, <1>8, <3>3
    <3>5. QED
      BY <3>1, <3>3, <3>4
  <2>2. ASSUME NEW k \in 1 .. n, q[k].item = j
        PROVE  Busy(j)
    BY <1>3, <1>8, <1>12, <2>2 DEF Busy
  <2>3. Busy(j)' <=> \E k \in 1 .. (n + 1) : lookups'[k].item = j
    BY <1>9 DEF Busy
  <2>4. QED
    BY <1>4, <1>9, <1>10, <1>11, <1>16, <2>1, <2>2, <2>3
<1>17. QED
  BY <1>9, <1>13, <1>14, <1>15, <1>16 DEF LookupsFit

LEMMA LookupsSame ==
    ASSUME LookupsFit, lookups' = lookups, rows' = rows, unsent' = unsent
    PROVE  LookupsFit' /\ \A j : Busy(j)' <=> Busy(j)
BY DEF LookupsFit, LookupsCurrent, LookupFits, Busy

LEMMA NoCallsNext ==
    ASSUME calls' = {}
    PROVE  CallsFit'
BY DEF CallsFit

LEMMA CallsLeft ==
    ASSUME CallsFit, calls' \subseteq calls, \A c \in calls' : rows'[c.item] = rows[c.item]
    PROVE  CallsFit'
BY DEF CallsFit

LEMMA InTurnKept ==
    ASSUME InTurn, lookups' = lookups, calls' = calls, tasks' = tasks, sync'.phase = sync.phase
    PROVE  InTurn'
BY DEF InTurn

\* An operation that no user submitted belongs to a playback.
LEMMA CallsBelong ==
    ASSUME CacheInv, NEW c \in calls
    PROVE  c.by = User \/ (c.by \in Slots /\ tasks[c.by] # NoTask)
<1>1. c \in ProviderCall
  BY DEF CacheInv, Types, CacheTypeOK
<1>2. c.by \in 0 .. MaxPlaybacks
  BY <1>1 DEF ProviderCall
<1>3. c.by = User \/ c.by \in Slots
  BY <1>2, CacheConstants DEF User, Slots
<1>4. CASE c.by \in Slots
  <2>1. tasks[c.by].kind # "none"
    BY <1>4, Outstanding DEF CacheInv
  <2>2. QED
    BY <1>4, <2>1 DEF NoTask
<1>5. QED
  BY <1>3, <1>4

\* While a sync is on its way there is no playback, and when nobody waits, neither.
LEMMA NoPlayback ==
    ASSUME CacheInv, InTurn, queue = 0 \/ sync.phase # "idle"
    PROVE  \A s \in Slots : tasks[s] = NoTask
<1>1. Drains = {}
  BY DEF CacheInv, OneOnItsWay
<1>2. QED
  BY <1>1 DEF InTurn, Drains

\* Apart holds as before, or has nothing to say.
LEMMA ApartKept ==
    ASSUME Apart, Replaying' => Replaying,
           \A i \in Items : Busy(i)' => Busy(i) /\ rows'[i] = rows[i]
    PROVE  Apart'
BY DEF Apart

LEMMA ApartVoid ==
    ASSUME \/ lookups' = <<>>
           \/ sync'.phase = "idle" /\ \A s \in Slots : tasks'[s] = NoTask
    PROVE  Apart'
<1>1. CASE lookups' = <<>>
  BY <1>1, NoLookupsNext DEF Apart
<1>2. CASE sync'.phase = "idle" /\ \A s \in Slots : tasks'[s] = NoTask
  BY <1>2 DEF Apart, Replaying
<1>3. QED
  BY <1>1, <1>2

\* Steps that touch neither the items nor what is on its way about them.
LEMMA NothingMoves ==
    ASSUME TypeOK, HeldInv, rows' = rows, lookups' = lookups, sync' = sync, collected' = collected,
           fetched' = fetched, tasks' = tasks, calls' = calls, server' = server, unsent' = unsent
    PROVE  HeldInv'
<1>1. LookupsFit' /\ \A j : Busy(j)' <=> Busy(j)
  BY LookupsSame DEF HeldInv
<1>2. InTurn' /\ Refilling' /\ CallsFit' /\ Apart'
  <2>1. InTurn'
    BY InTurnKept DEF HeldInv
  <2>2. Refilling'
    BY DEF HeldInv, Refilling
  <2>3. CallsFit'
    BY CallsLeft DEF HeldInv
  <2>4. Replaying' <=> Replaying
    BY DEF Replaying
  <2>5. Apart'
    BY <1>1, <2>4, ApartKept DEF HeldInv
  <2>6. QED
    BY <2>1, <2>2, <2>3, <2>5
<1>3. \A i \in Items : Held(i)'
  BY <1>1, HeldKept DEF HeldInv
<1>4. QED
  BY <1>1, <1>2, <1>3 DEF HeldInv

-----------------------------------------------------------------------------
(* The steps of a sync up to the merge *)

\* A sync that starts finds nothing collected, and nothing on its way.
LEMMA SyncStartHeld ==
    ASSUME CacheInv, HeldInv, lookups = <<>>, \A c \in calls : c.by # User, queue = 0,
           sync' = [Idle EXCEPT !.phase = "created"],
           collected' = [i \in Items |-> NoRow], fetched' = [i \in Items |-> 0],
           rows' = rows, lookups' = lookups, tasks' = tasks, calls' = calls, server' = server,
           unsent' = unsent
    PROVE  HeldInv'
<1>1. /\ sync.phase = "idle" /\ ~sync.renewed
      /\ \A s \in Slots : tasks[s] = NoTask
  BY NoPlayback DEF CacheInv, OneOnItsWay, HeldInv, Refilling
<1>2. calls = {}
  BY <1>1, CallsBelong
<1>3. /\ sync'.phase = "created" /\ ~sync'.renewed /\ sync'.loops = <<>> /\ sync'.op = "none"
  BY DEF Idle
<1>4. InTurn' /\ Refilling' /\ CallsFit'
  <2>1. InTurn'
    BY <1>1, <1>2, <1>3 DEF InTurn
  <2>2. Refilling'
    BY <1>3 DEF Refilling
  <2>3. QED
    BY <1>2, <2>1, <2>2, NoCallsNext
<1>5. LookupsFit' /\ Apart'
  BY NoLookupsNext, ApartVoid
<1>6. ASSUME NEW i \in Items
      PROVE  Held(i)'
  <2>1. Held(i) /\ ~Busy(i)
    BY NoLookups DEF HeldInv
  <2>2. Holds(rows[i], unsent[i])
    BY <1>1, <2>1 DEF Held, ToMerge, HeldInCache
  <2>3. ~ToMerge(i)' /\ Gathered' = {}
    BY <1>3 DEF ToMerge, Gathered
  <2>4. HeldInCache(i)'
    BY <2>2, <2>3 DEF HeldInCache
  <2>5. collected'[i].flag = "none"
    BY DEF NoRow
  <2>6. QED
    BY <1>3, <2>1, <2>3, <2>4, <2>5 DEF Held
<1>7. QED
  BY <1>4, <1>5, <1>6 DEF HeldInv

LEMMA LoadedHeld ==
    ASSUME Gentle, CacheInv, HeldInv, UncachedLoaded
    PROVE  HeldInv'
<1>1. /\ UNCHANGED <<rows, lookups, tasks, calls, server, unsent>>
      /\ lookups = <<>> /\ \A c \in calls : c.by # User
      /\ Synchronize
  BY DEF UncachedLoaded, vars, MayAnswerGet, MayAnswer, Gentle
<1>2. queue \in Nat /\ TypeOK
  BY CacheConstants DEF CacheInv, Types, CacheTypeOK
<1>3. CASE UNCHANGED <<sync, collected, fetched>>
  BY <1>1, <1>2, <1>3, NothingMoves
<1>4. CASE /\ queue = 0
           /\ sync' = [Idle EXCEPT !.phase = "created"]
           /\ collected' = [i \in Items |-> NoRow]
           /\ fetched' = [i \in Items |-> 0]
  BY <1>1, <1>4, SyncStartHeld
<1>5. QED
  BY <1>1, <1>2, <1>3, <1>4 DEF Synchronize

\* Collecting the items of one flag: what is collected is what the cache holds.
LEMMA CollectHeld ==
    ASSUME CacheInv, HeldInv, CollectOffline
    PROVE  HeldInv'
<1>1. /\ sync.phase \in {"created", "modified", "deleted"}
      /\ collected' = [i \in Items |-> IF i \in Selected(sync.phase) THEN rows[i] ELSE collected[i]]
      /\ sync' = [sync EXCEPT !.phase = AfterCollecting[sync.phase]]
      /\ UNCHANGED <<rows, lookups, fetched, tasks, calls, server, unsent>>
  BY DEF CollectOffline, vars, Kinds
<1>2. /\ InTurn /\ Refilling /\ LookupsFit /\ TypeOK /\ sync \in Sync
      /\ ~sync.renewed /\ calls = {} /\ lookups = <<>>
  BY <1>1 DEF HeldInv, InTurn, Refilling, CacheInv, Types, CacheTypeOK
<1>3. /\ sync'.phase = AfterCollecting[sync.phase] /\ sync'.renewed = sync.renewed
      /\ sync'.loops = sync.loops /\ sync'.op = sync.op
  BY <1>1, <1>2 DEF Sync
<1>4. /\ sync.phase = "created" => sync'.phase = "modified" /\ Gathered = {} /\ Gathered' = {"created"}
      /\ sync.phase = "modified" =>
             /\ sync'.phase = "deleted"
             /\ Gathered = {"created"} /\ Gathered' = {"created", "modified"}
      /\ sync.phase = "deleted" =>
             /\ sync'.phase = "asked"
             /\ Gathered = {"created", "modified"} /\ Gathered' = {"created", "modified", "deleted"}
  <2>1. CASE sync.phase = "created"
    <3>1. sync'.phase = "modified"
      BY <1>3, <2>1 DEF AfterCollecting
    <3>2. QED
      BY <2>1, <3>1 DEF Gathered
  <2>2. CASE sync.phase = "modified"
    <3>1. sync'.phase = "deleted"
      BY <1>3, <2>2 DEF AfterCollecting
    <3>2. QED
      BY <2>2, <3>1 DEF Gathered
  <2>3. CASE sync.phase = "deleted"
    <3>1. sync'.phase = "asked"
      BY <1>3, <2>3 DEF AfterCollecting
    <3>2. QED
      BY <2>3, <3>1 DEF Gathered
  <2>4. QED
    BY <1>1, <2>1, <2>2, <2>3
<1>5. /\ Gathered' = Gathered \cup {sync.phase}
      /\ sync'.phase \in {"modified", "deleted", "asked"}
  BY <1>1, <1>4
<1>6. InTurn' /\ Refilling' /\ CallsFit' /\ LookupsFit' /\ Apart'
  <2>1. InTurn'
    BY <1>1, <1>2, <1>5 DEF InTurn
  <2>2. Refilling'
    BY <1>1, <1>2, <1>3, <1>5 DEF Refilling, Kinds
  <2>3. QED
    BY <1>1, <1>2, <2>1, <2>2, NoCallsNext, NoLookupsNext, ApartVoid
<1>7. ASSUME NEW i \in Items
      PROVE  Held(i)'
  <2>1. Held(i) /\ ~Busy(i) /\ ~ToMerge(i) /\ ~ToMerge(i)' /\ rows[i] \in Row
    BY <1>1, <1>2, <1>5, NoLookups DEF HeldInv, ToMerge, TypeOK
  <2>2. HeldInCache(i)
    BY <1>2, <2>1 DEF Held
  <2>3. collected'[i] = IF rows[i].flag \in Gathered' THEN rows[i] ELSE NoRow
    <3>1. i \in Selected(sync.phase) <=> rows[i].flag = sync.phase
      BY <1>1, <2>1 DEF Selected, Present, Row
    <3>2. collected'[i] = IF rows[i].flag = sync.phase THEN rows[i] ELSE collected[i]
      BY <1>1, <3>1
    <3>3. collected[i] = IF rows[i].flag \in Gathered THEN rows[i] ELSE NoRow
      BY <1>1, <2>2 DEF HeldInCache
    <3>4. QED
      BY <1>5, <3>2, <3>3
  <2>4. HeldInCache(i)'
    BY <1>1, <2>1, <2>2, <2>3, <1>2 DEF HeldInCache
  <2>5. collected'[i].flag = "created" => server'[i] = 0
    BY <1>1, <2>1, <2>3 DEF Held, NoRow
  <2>6. Held(i)'
    BY <1>1, <1>2, <1>3, <2>1, <2>4, <2>5 DEF Held
  <2>7. QED
    BY <1>1, <1>2, <2>6
<1>8. QED
  BY <1>6, <1>7 DEF HeldInv

-----------------------------------------------------------------------------
(* The refill *)

\* A step of the refill: nothing but rows, and what is fetched, changes.
LEMMA RefillHeld ==
    ASSUME CacheInv, HeldInv, sync.phase \in {"asked", "answered"},
           sync'.phase \in {"asked", "answered"}, sync'.renewed, Refilling',
           lookups' = lookups, collected' = collected, tasks' = tasks, calls' = calls,
           server' = server, unsent' = unsent,
           \A i \in Items : HeldInRefill(i)',
           \A i \in Items : rows[i].flag = "none" \/ rows'[i].flag = rows[i].flag \/ rows'[i].ver = 0,
           \A i \in Items : rows'[i].flag # "created"
    PROVE  HeldInv'
<1>1. lookups = <<>> /\ calls = {}
  BY DEF HeldInv, InTurn
<1>2. InTurn' /\ CallsFit' /\ LookupsFit' /\ Apart'
  <2>1. InTurn'
    BY <1>1 DEF HeldInv, InTurn
  <2>2. QED
    BY <1>1, <2>1, NoCallsNext, NoLookupsNext, ApartVoid
<1>3. ASSUME NEW i \in Items
      PROVE  Held(i)'
  <2>1. Held(i) /\ HeldInRefill(i)'
    BY DEF HeldInv
  <2>2. ~ToMerge(i)'
    BY DEF ToMerge
  <2>3. collected'[i] = collected[i] /\ rows'[i].flag # "created"
    OBVIOUS
  <2>4. QED
    BY <2>1, <2>2, <2>3 DEF Held
<1>4. QED
  BY <1>2, <1>3 DEF HeldInv

LEMMA NoRowFlag ==
    NoRow.flag = "none" /\ NoRow.ver = 0 /\ \A v : Flushed(v).flag = "none" /\ Flushed(v).ver = v
BY DEF NoRow, Flushed

\* A batch arrives: the first one wipes the cache of what has been collected.
LEMMA ResultHeld ==
    ASSUME Gentle, CacheInv, HeldInv, NEW batch \in SUBSET Items, GetResult(batch)
    PROVE  HeldInv'
<1>1. PICK rest : rest = IF sync.renewed THEN sync.rest ELSE {i \in Items : server[i] # 0}
  OBVIOUS
<1>2. /\ sync.phase = "asked"
      /\ IF sync.renewed THEN rows' = rows ELSE rows' = [i \in Items |-> NoRow]
      /\ fetched' = IF sync.renewed THEN fetched ELSE server
      /\ batch \subseteq rest
      /\ sync' = [sync EXCEPT !.renewed = TRUE, !.batches = sync.batches + 1, !.rest = rest \ batch,
                              !.loops = Append(sync.loops, batch)]
      /\ UNCHANGED <<lookups, collected, tasks, calls, server, unsent>>
  BY <1>1 DEF GetResult, Wipe
<1>3. TypeOK /\ sync \in Sync /\ sync.loops \in Seq(SUBSET Items) /\ Refilling /\ lookups = <<>>
  BY <1>2 DEF CacheInv, Types, CacheTypeOK, Sync, HeldInv, InTurn
<1>4. /\ sync'.phase = "asked" /\ sync'.renewed /\ sync'.rest = rest \ batch
      /\ sync'.loops = Append(sync.loops, batch) /\ sync'.op = sync.op
  BY <1>2, <1>3 DEF Sync
<1>5. PICK n \in Nat : n = Len(sync.loops)
  BY <1>3, LenProperties
<1>6. /\ DOMAIN sync.loops = 1 .. n /\ DOMAIN sync'.loops = 1 .. (n + 1)
      /\ sync'.loops[n + 1] = batch
      /\ \A k \in 1 .. n : sync'.loops[k] = sync.loops[k]
  <2>1. PICK q : q = Append(sync.loops, batch)
    OBVIOUS
  <2>2. q \in Seq(SUBSET Items) /\ Len(q) = n + 1 /\ q[n + 1] = batch
        /\ \A k \in 1 .. n : q[k] = sync.loops[k]
    BY <1>3, <1>5, <2>1, AppendProperties
  <2>3. DOMAIN sync.loops = 1 .. n /\ DOMAIN q = 1 .. (n + 1)
    BY <1>3, <1>5, <2>2, LenProperties
  <2>4. QED
    BY <1>4, <2>1, <2>2, <2>3
<1>7. (\A k \in 1 .. n : k \in 1 .. (n + 1)) /\ n + 1 \in 1 .. (n + 1)
      /\ \A k \in 1 .. (n + 1) : k \in 1 .. n \/ k = n + 1
  OBVIOUS
<1>8. \A i \in Items :
          ToRefill(i)' <=> i \in rest \/ \E k \in DOMAIN sync.loops : i \in sync.loops[k]
  <2>1. SUFFICES ASSUME NEW i \in Items
                 PROVE  ToRefill(i)' <=> i \in rest \/ \E k \in 1 .. n : i \in sync.loops[k]
    BY <1>6
  <2>2. (\E k \in DOMAIN sync'.loops : i \in sync'.loops[k])
        <=> i \in batch \/ \E k \in 1 .. n : i \in sync.loops[k]
    BY <1>6, <1>7
  <2>3. QED
    BY <1>2, <1>4, <2>2 DEF ToRefill
<1>9. Refilling'
  BY <1>2, <1>3, <1>4 DEF Refilling
<1>10. CASE sync.renewed
  <2>1. ASSUME NEW i \in Items
        PROVE  HeldInRefill(i)' /\ rows'[i].flag # "created" /\ rows'[i] = rows[i]
    <3>1. HeldInRefill(i)
      BY <1>10 DEF HeldInv, Held
    <3>2. ToRefill(i)' <=> ToRefill(i)
      BY <1>1, <1>8, <1>10 DEF ToRefill
    <3>3. HeldInRefill(i)'
      BY <1>2, <1>10, <3>1, <3>2 DEF HeldInRefill
    <3>4. QED
      BY <1>2, <1>10, <3>1, <3>3, NoRowFlag DEF HeldInRefill
  <2>2. QED
    BY <1>2, <1>4, <1>9, <2>1, RefillHeld
<1>11. CASE ~sync.renewed
  <2>1. ASSUME NEW i \in Items
        PROVE  HeldInRefill(i)' /\ rows'[i] = NoRow
    <3>1. HeldInCache(i) /\ ~Busy(i)
      BY <1>2, <1>3, <1>11, NoLookups DEF HeldInv, Held, ToMerge
    <3>2. collected[i] = IF rows[i].flag \in {"created", "modified", "deleted"} THEN rows[i] ELSE NoRow
      BY <1>2, <3>1 DEF HeldInCache, Gathered
    <3>3. Holds(collected[i], unsent[i])
      BY <3>1, <3>2 DEF HeldInCache, Holds
    <3>4. rows'[i] = NoRow /\ fetched'[i] = server[i]
      BY <1>2, <1>11
    <3>5. ToRefill(i)' <=> server[i] # 0
      <4>1. sync.loops = <<>>
        BY <1>3, <1>11 DEF Refilling
      <4>2. DOMAIN sync.loops = {}
        BY <4>1
      <4>3. i \in rest <=> server[i] # 0
        BY <1>1, <1>11
      <4>4. QED
        BY <1>8, <4>2, <4>3
    <3>6. server[i] = 0 => NoRow = Flushed(server[i])
      BY DEF NoRow, Flushed
    <3>7. HeldInRefill(i)'
      BY <1>2, <3>3, <3>4, <3>5, <3>6 DEF HeldInRefill
    <3>8. QED
      BY <3>4, <3>7
  <2>2. QED
    BY <1>2, <1>4, <1>9, <2>1, RefillHeld, NoRowFlag
<1>12. QED
  BY <1>10, <1>11

\* One item is added again.
LEMMA AddHeld ==
    ASSUME CacheInv, HeldInv, AddFetched
    PROVE  HeldInv'
<1>1. PICK k \in DOMAIN sync.loops : \E i \in sync.loops[k] :
          /\ rows' = [rows EXCEPT ![i] = Flushed(fetched[i])]
          /\ sync' = [sync EXCEPT !.loops[k] = sync.loops[k] \ {i}]
          /\ UNCHANGED <<lookups, collected, fetched, tasks, calls, server, unsent>>
  BY DEF AddFetched, Store
<1>2. PICK i \in sync.loops[k] :
          /\ rows' = [rows EXCEPT ![i] = Flushed(fetched[i])]
          /\ sync' = [sync EXCEPT !.loops[k] = sync.loops[k] \ {i}]
          /\ UNCHANGED <<lookups, collected, fetched, tasks, calls, server, unsent>>
  BY <1>1
<1>3. TypeOK /\ sync \in Sync /\ sync.loops \in Seq(SUBSET Items) /\ Refilling
  BY DEF CacheInv, Types, CacheTypeOK, Sync, HeldInv
<1>4. i \in Items
  <2>1. k \in 1 .. Len(sync.loops)
    BY <1>3, LenProperties
  <2>2. sync.loops[k] \in SUBSET Items
    BY <1>3, <2>1, ElementOfSeq
  <2>3. QED
    BY <2>2
<1>5. sync.renewed /\ sync.phase \in {"asked", "answered"}
  <2>1. sync.loops # <<>>
    <3>1. DOMAIN sync.loops # {}
      OBVIOUS
    <3>2. QED
      BY <3>1
  <2>2. QED
    BY <1>3, <2>1 DEF Refilling
<1>6. /\ sync'.phase = sync.phase /\ sync'.renewed = sync.renewed /\ sync'.rest = sync.rest
      /\ sync'.op = sync.op /\ sync'.loops = [sync.loops EXCEPT ![k] = sync.loops[k] \ {i}]
  BY <1>2, <1>3 DEF Sync
<1>7. /\ DOMAIN sync'.loops = DOMAIN sync.loops
      /\ sync'.loops[k] = sync.loops[k] \ {i}
      /\ \A m \in DOMAIN sync.loops : m # k => sync'.loops[m] = sync.loops[m]
  BY <1>6
<1>8. Refilling'
  BY <1>3, <1>5, <1>6 DEF Refilling
<1>9. rows'[i] = Flushed(fetched[i]) /\ \A j \in Items : j # i => rows'[j] = rows[j]
  BY <1>2, <1>3, <1>4 DEF TypeOK
<1>10. ToRefill(i) /\ \A j \in Items : j # i => (ToRefill(j)' <=> ToRefill(j))
  BY <1>6, <1>7 DEF ToRefill
<1>11. ASSUME NEW j \in Items
       PROVE  HeldInRefill(j)' /\ rows[j].flag = "none" /\ rows'[j].flag # "created"
  <2>1. HeldInRefill(j)
    BY <1>5 DEF HeldInv, Held
  <2>2. rows[j].flag = "none"
    BY <2>1, NoRowFlag DEF HeldInRefill
  <2>3. CASE j = i
    <3>1. HeldInRefill(j)'
      BY <1>2, <1>9, <1>10, <2>1, <2>3 DEF HeldInRefill
    <3>2. QED
      BY <1>9, <2>2, <2>3, <3>1, NoRowFlag
  <2>4. CASE j # i
    BY <1>2, <1>9, <1>10, <2>1, <2>2, <2>4 DEF HeldInRefill
  <2>5. QED
    BY <2>3, <2>4
<1>12. QED
  BY <1>2, <1>5, <1>6, <1>8, <1>11, RefillHeld

\* The refill is complete, or the provider had nothing and the cache was not wiped:
\* what was collected waits for the merge.
LEMMA MergeBegins ==
    ASSUME CacheInv, HeldInv, sync.phase \in {"asked", "answered"},
           \/ sync.renewed /\ \A i \in Items : ~ToRefill(i)
           \/ ~sync.renewed /\ sync.phase = "asked" /\ \A i \in Items : server[i] = 0,
           sync' = [Idle EXCEPT !.phase = "merge"],
           rows' = rows, lookups' = lookups, collected' = collected, fetched' = fetched,
           tasks' = tasks, calls' = calls, server' = server, unsent' = unsent
    PROVE  HeldInv'
<1>1. lookups = <<>> /\ calls = {} /\ TypeOK
  BY DEF HeldInv, InTurn, CacheInv, Types
<1>2. /\ sync'.phase = "merge" /\ ~sync'.renewed /\ sync'.loops = <<>> /\ sync'.op = "none"
  BY DEF Idle
<1>3. InTurn' /\ Refilling' /\ CallsFit' /\ LookupsFit' /\ Apart'
  <2>1. InTurn'
    BY <1>1, <1>2 DEF HeldInv, InTurn
  <2>2. Refilling'
    BY <1>2 DEF Refilling, Kinds
  <2>3. QED
    BY <1>1, <2>1, <2>2, NoCallsNext, NoLookupsNext, ApartVoid
<1>4. ASSUME NEW i \in Items
      PROVE  Held(i)'
  <2>1. Held(i) /\ ~Busy(i)' /\ ~Busy(i)
    BY <1>1, NoLookups, NoLookupsNext DEF HeldInv
  <2>2. /\ collected[i] # NoRow =>
              /\ rows[i] = Flushed(fetched[i]) \/ (rows[i] = collected[i] /\ fetched[i] = 0)
              /\ fetched[i] = 0 => server[i] = 0
              /\ Holds(collected[i], unsent[i])
        /\ collected[i] = NoRow => Holds(rows[i], unsent[i])
    <3>1. CASE sync.renewed
      <4>1. HeldInRefill(i) /\ ~ToRefill(i)
        BY <2>1, <3>1 DEF Held
      <4>2. collected[i] = NoRow => unsent[i] = Nothing
        BY <4>1, NoRowFlag DEF HeldInRefill, Holds
      <4>3. QED
        BY <4>1, <4>2 DEF HeldInRefill, Holds
    <3>2. CASE ~sync.renewed
      <4>1. sync.phase = "asked" /\ server[i] = 0
        BY <3>2
      <4>2. HeldInCache(i) /\ fetched[i] = 0
        BY <2>1, <3>2, <4>1 DEF Held, ToMerge, HeldInv, Refilling
      <4>3. collected[i] = rows[i] \/ collected[i] = NoRow
        BY <4>1, <4>2 DEF HeldInCache
      <4>4. QED
        BY <2>1, <4>1, <4>2, <4>3 DEF HeldInCache
    <3>3. QED
      BY <3>1, <3>2
  <2>3. CASE collected[i] # NoRow
    <3>1. ToMerge(i)' /\ HeldForMerge(i)'
      BY <1>2, <2>1, <2>2, <2>3 DEF ToMerge, HeldForMerge
    <3>2. QED
      BY <1>1, <1>2, <2>1, <3>1 DEF Held
  <2>4. CASE collected[i] = NoRow
    <3>1. ~ToMerge(i)' /\ HeldInCache(i)'
      BY <1>2, <2>2, <2>4 DEF ToMerge, HeldInCache, Holds
    <3>2. QED
      BY <1>1, <1>2, <2>1, <3>1 DEF Held
  <2>5. QED
    BY <2>3, <2>4
<1>5. QED
  BY <1>3, <1>4 DEF HeldInv

LEMMA CompletedHeld ==
    ASSUME Gentle, CacheInv, HeldInv, GetCompleted("ok")
    PROVE  HeldInv'
<1>1. /\ sync.phase = "asked"
      /\ IF sync.renewed THEN sync.rest = {} ELSE \A i \in Items : server[i] = 0
      /\ UNCHANGED <<rows, lookups, calls, server, unsent>>
      /\ IF sync.loops = <<>> THEN OperationComplete("ok")
         ELSE /\ sync' = [sync EXCEPT !.phase = "answered", !.op = "ok"]
              /\ UNCHANGED <<collected, fetched, tasks>>
  BY DEF GetCompleted, vars
<1>2. CASE sync.loops = <<>>
  <2>1. /\ sync' = [Idle EXCEPT !.phase = "merge"]
        /\ UNCHANGED <<collected, fetched, tasks>>
    BY <1>1, <1>2 DEF OperationComplete
  <2>2. DOMAIN sync.loops = {}
    BY <1>2
  <2>3. sync.renewed => \A i \in Items : ~ToRefill(i)
    BY <1>1, <2>2 DEF ToRefill
  <2>4. QED
    BY <1>1, <2>1, <2>3, MergeBegins
<1>3. CASE sync.loops # <<>>
  <2>1. sync \in Sync
    BY DEF CacheInv, Types, CacheTypeOK
  <2>2. /\ sync'.phase = "answered" /\ sync'.op = "ok" /\ sync'.renewed = sync.renewed
        /\ sync'.rest = sync.rest /\ sync'.loops = sync.loops
    BY <1>1, <1>3, <2>1 DEF Sync
  <2>3. UNCHANGED <<collected, fetched, tasks>>
    BY <1>1, <1>3
  <2>4. sync.renewed /\ sync.rest = {} /\ Refilling'
    <3>1. sync.renewed
      BY <1>3 DEF HeldInv, Refilling
    <3>2. QED
      BY <1>1, <2>2, <3>1 DEF Refilling
  <2>5. ASSUME NEW i \in Items
        PROVE  HeldInRefill(i)' /\ rows[i].flag = "none"
    <3>1. HeldInRefill(i)
      BY <2>4 DEF HeldInv, Held
    <3>2. ToRefill(i)' <=> ToRefill(i)
      BY <2>2 DEF ToRefill
    <3>3. HeldInRefill(i)'
      BY <1>1, <2>3, <3>1, <3>2 DEF HeldInRefill
    <3>4. QED
      BY <3>1, <3>3, NoRowFlag DEF HeldInRefill
  <2>6. \A i \in Items : rows'[i].flag # "created"
    BY <1>1, <2>5
  <2>7. QED
    BY <1>1, <2>2, <2>3, <2>4, <2>5, <2>6, RefillHeld
<1>4. QED
  BY <1>2, <1>3

\* An element is in the others of a sequence as before when one that does not have
\* it is removed.
LEMMA RemovedKeeps ==
    ASSUME NEW loops \in Seq(SUBSET Items), NEW k \in DOMAIN loops, NEW i, i \notin loops[k]
    PROVE  (\E m \in DOMAIN RemoveAt(loops, k) : i \in RemoveAt(loops, k)[m])
           <=> \E m \in DOMAIN loops : i \in loops[m]
<1>1. PICK n \in Nat : n = Len(loops)
  BY LenProperties
<1>2. DOMAIN loops = 1 .. n /\ k \in 1 .. n
  BY <1>1, LenProperties
<1>3. PICK a : a = SubSeq(loops, 1, k - 1)
  OBVIOUS
<1>4. PICK b : b = SubSeq(loops, k + 1, n)
  OBVIOUS
<1>5. /\ a \in Seq(SUBSET Items) /\ Len(a) = k - 1
      /\ \A m \in 1 .. (k - 1) : a[m] = loops[m]
  <2>1. \A m \in 1 .. (k - 1) : m \in 1 .. Len(loops)
    BY <1>1, <1>2
  <2>2. k - 1 \in Int /\ (1 <= k - 1 => k - 1 - 1 + 1 = k - 1) /\ k - 1 >= 0
    BY <1>2
  <2>3. /\ SubSeq(loops, 1, k - 1) \in Seq(SUBSET Items)
        /\ Len(SubSeq(loops, 1, k - 1)) = IF 1 <= k - 1 THEN k - 1 - 1 + 1 ELSE 0
        /\ \A m \in 1 .. k - 1 - 1 + 1 : SubSeq(loops, 1, k - 1)[m] = loops[1 + m - 1]
    BY <1>1, <1>2, <2>1, SubSeqProperties
  <2>4. \A m \in 1 .. (k - 1) : m \in 1 .. k - 1 - 1 + 1 /\ 1 + m - 1 = m
    BY <1>2
  <2>5. Len(a) = k - 1
    BY <1>2, <1>3, <2>3
  <2>6. QED
    BY <1>3, <2>3, <2>4, <2>5
<1>6. /\ b \in Seq(SUBSET Items) /\ Len(b) = n - k
      /\ \A m \in 1 .. (n - k) : b[m] = loops[k + m]
  <2>1. \A m \in (k + 1) .. n : m \in 1 .. Len(loops)
    BY <1>1, <1>2
  <2>2. /\ SubSeq(loops, k + 1, n) \in Seq(SUBSET Items)
        /\ Len(SubSeq(loops, k + 1, n)) = IF k + 1 <= n THEN n - (k + 1) + 1 ELSE 0
        /\ \A m \in 1 .. n - (k + 1) + 1 : SubSeq(loops, k + 1, n)[m] = loops[k + 1 + m - 1]
    BY <1>1, <1>2, <2>1, SubSeqProperties
  <2>3. \A m \in 1 .. (n - k) : m \in 1 .. n - (k + 1) + 1 /\ k + 1 + m - 1 = k + m
    BY <1>2
  <2>4. Len(b) = n - k
    BY <1>2, <1>4, <2>2
  <2>5. QED
    BY <1>4, <2>2, <2>3, <2>4
<1>7. PICK left : left = RemoveAt(loops, k)
  OBVIOUS
<1>8. left = a \o b
  BY <1>1, <1>3, <1>4, <1>7 DEF RemoveAt
<1>9. /\ Len(a \o b) = Len(a) + Len(b)
      /\ \A m \in 1 .. (Len(a) + Len(b)) : (a \o b)[m] = IF m <= Len(a) THEN a[m] ELSE b[m - Len(a)]
      /\ a \o b \in Seq(SUBSET Items)
  BY <1>5, <1>6, ConcatProperties
<1>10. /\ Len(left) = n - 1 /\ left \in Seq(SUBSET Items)
       /\ \A m \in 1 .. (n - 1) : left[m] = IF m <= k - 1 THEN a[m] ELSE b[m - (k - 1)]
  <2>1. Len(a) + Len(b) = n - 1
    BY <1>2, <1>5, <1>6
  <2>2. QED
    BY <1>5, <1>8, <1>9, <2>1
<1>11. DOMAIN left = 1 .. (n - 1)
  BY <1>10, LenProperties
<1>12. ASSUME NEW m \in 1 .. (n - 1), i \in left[m]
       PROVE  \E p \in 1 .. n : i \in loops[p]
  <2>1. CASE m <= k - 1
    <3>1. m \in 1 .. (k - 1) /\ m \in 1 .. n
      BY <1>2, <2>1
    <3>2. left[m] = loops[m]
      BY <1>5, <1>10, <2>1, <3>1
    <3>3. QED
      BY <1>12, <3>1, <3>2
  <2>2. CASE ~(m <= k - 1)
    <3>1. m - (k - 1) \in 1 .. (n - k) /\ k + (m - (k - 1)) = m + 1 /\ m + 1 \in 1 .. n
      BY <1>2, <2>2
    <3>2. left[m] = b[m - (k - 1)]
      BY <1>10, <2>2
    <3>3. b[m - (k - 1)] = loops[m + 1]
      BY <1>6, <3>1
    <3>4. QED
      BY <1>12, <3>1, <3>2, <3>3
  <2>3. QED
    BY <2>1, <2>2
<1>13. ASSUME NEW p \in 1 .. n, i \in loops[p]
       PROVE  \E m \in 1 .. (n - 1) : i \in left[m]
  <2>1. p # k
    BY <1>13
  <2>2. CASE p < k
    <3>1. p \in 1 .. (k - 1) /\ p \in 1 .. (n - 1) /\ p <= k - 1
      BY <1>2, <2>2
    <3>2. left[p] = loops[p]
      BY <1>5, <1>10, <3>1
    <3>3. QED
      BY <1>13, <3>1, <3>2
  <2>3. CASE p > k
    <3>1. p - 1 \in 1 .. (n - 1) /\ ~(p - 1 <= k - 1) /\ p - 1 - (k - 1) = p - k
          /\ p - k \in 1 .. (n - k) /\ k + (p - k) = p
      BY <1>2, <2>3
    <3>2. left[p - 1] = b[p - k]
      BY <1>10, <3>1
    <3>3. b[p - k] = loops[p]
      BY <1>6, <3>1
    <3>4. QED
      BY <1>13, <3>1, <3>2, <3>3
  <2>4. QED
    BY <1>2, <2>1, <2>2, <2>3
<1>14. (\E m \in DOMAIN left : i \in left[m]) <=> \E m \in DOMAIN loops : i \in loops[m]
  BY <1>2, <1>11, <1>12, <1>13
<1>15. QED
  BY <1>7, <1>14

LEMMA LoopHeld ==
    ASSUME Gentle, CacheInv, HeldInv, LoopCompleted
    PROVE  HeldInv'
<1>1. PICK k \in DOMAIN sync.loops :
          /\ sync.loops[k] = {}
          /\ IF sync.op # "none" /\ RemoveAt(sync.loops, k) = <<>> THEN OperationComplete(sync.op)
             ELSE /\ sync' = [sync EXCEPT !.loops = RemoveAt(sync.loops, k), !.op = "none"]
                  /\ UNCHANGED <<queue, collected, fetched, tasks>>
          /\ UNCHANGED <<vars, offline, loading, calls, server, unsent>>
  BY DEF LoopCompleted
<1>2. TypeOK /\ sync \in Sync /\ sync.loops \in Seq(SUBSET Items) /\ Refilling
      /\ UNCHANGED <<rows, lookups, calls, server, unsent>>
  BY <1>1 DEF CacheInv, Types, CacheTypeOK, Sync, HeldInv, vars
<1>3. PICK left : left = RemoveAt(sync.loops, k)
  OBVIOUS
<1>4. \A i \in Items : ToRefill(i) <=> i \in sync.rest \/ \E m \in DOMAIN left : i \in left[m]
  BY <1>1, <1>2, <1>3, RemovedKeeps DEF ToRefill
<1>5. sync.renewed /\ sync.phase \in {"asked", "answered"}
  <2>1. sync.loops # <<>>
    <3>1. DOMAIN sync.loops # {}
      OBVIOUS
    <3>2. QED
      BY <3>1
  <2>2. QED
    BY <1>2, <2>1 DEF Refilling
<1>6. CASE sync.op # "none" /\ left = <<>>
  <2>1. sync.op = "ok" /\ sync.rest = {}
    BY <1>2, <1>6 DEF Refilling
  <2>2. /\ sync' = [Idle EXCEPT !.phase = "merge"]
        /\ UNCHANGED <<collected, fetched, tasks>>
    BY <1>1, <1>3, <1>6, <2>1 DEF OperationComplete
  <2>3. DOMAIN left = {}
    BY <1>6
  <2>4. \A i \in Items : ~ToRefill(i)
    BY <1>4, <2>1, <2>3
  <2>5. QED
    BY <1>2, <1>5, <2>2, <2>4, MergeBegins
<1>7. CASE ~(sync.op # "none" /\ left = <<>>)
  <2>1. /\ sync' = [sync EXCEPT !.loops = left, !.op = "none"]
        /\ UNCHANGED <<collected, fetched, tasks>>
    BY <1>1, <1>3, <1>7
  <2>2. /\ sync'.phase = sync.phase /\ sync'.op = "none" /\ sync'.renewed = sync.renewed
        /\ sync'.rest = sync.rest /\ sync'.loops = left
    BY <1>2, <2>1 DEF Sync
  <2>3. Refilling'
    BY <1>2, <1>5, <2>2 DEF Refilling
  <2>4. ASSUME NEW i \in Items
        PROVE  HeldInRefill(i)' /\ rows[i].flag = "none"
    <3>1. HeldInRefill(i)
      BY <1>5 DEF HeldInv, Held
    <3>2. ToRefill(i)' <=> ToRefill(i)
      BY <1>4, <2>2 DEF ToRefill
    <3>3. HeldInRefill(i)'
      BY <1>2, <2>1, <3>1, <3>2 DEF HeldInRefill
    <3>4. QED
      BY <3>1, <3>3, NoRowFlag DEF HeldInRefill
  <2>5. \A i \in Items : rows'[i].flag # "created"
    BY <1>2, <2>4
  <2>6. QED
    BY <1>2, <1>5, <2>1, <2>2, <2>3, <2>4, <2>5, RefillHeld
<1>8. QED
  BY <1>6, <1>7

-----------------------------------------------------------------------------
(* The merge *)

\* An item whose turn in the merge has come.
LEMMA ItsTurn ==
    ASSUME CacheInv, HeldInv, NEW i \in Items, Merged(i)
    PROVE  /\ sync.phase = "merge" /\ ~sync.renewed /\ calls = {} /\ TypeOK
           /\ HeldForMerge(i) /\ ~Busy(i)
           /\ collected[i] \in Row /\ collected[i] # NoRow
           /\ unsent[i] \in [kind : {"none", "put", "delete"}, ver : 0 .. MaxVersion]
           /\ collected[i].flag = "created" => server[i] = 0
           /\ rows[i] \in Row /\ (rows[i] = collected[i] \/ rows[i].flag = "none")
           /\ fetched[i] # 0 => rows[i].flag = "none" /\ rows[i].ver = fetched[i]
<1>1. sync.phase = "merge" /\ collected[i] # NoRow
  BY DEF Merged
<1>2. ~sync.renewed /\ calls = {} /\ Held(i) /\ TypeOK
  BY <1>1 DEF HeldInv, InTurn, Refilling, CacheInv, Types
<1>3. HeldForMerge(i)
  BY <1>1, <1>2 DEF Held, ToMerge
<1>4. /\ collected[i] \in Row /\ rows[i] \in Row
      /\ unsent[i] \in [kind : {"none", "put", "delete"}, ver : 0 .. MaxVersion]
  BY DEF CacheInv, Types, CacheTypeOK, TypeOK
<1>5. /\ rows[i] = Flushed(fetched[i]) \/ (rows[i] = collected[i] /\ fetched[i] = 0)
      /\ ~Busy(i)
  BY <1>3 DEF HeldForMerge
<1>6. /\ rows[i] = collected[i] \/ rows[i].flag = "none"
      /\ fetched[i] # 0 => rows[i].flag = "none" /\ rows[i].ver = fetched[i]
  BY <1>5, NoRowFlag
<1>7. QED
  BY <1>1, <1>2, <1>3, <1>4, <1>5, <1>6 DEF Held

\* Its turn ends with a row, or a lookup, that holds what the user wants.
LEMMA TurnEnds ==
    ASSUME CacheInv, HeldInv, NEW i \in Items, Merged(i), LookupsFit',
           \A j \in Items : j # i => /\ rows'[j] = rows[j] /\ unsent'[j] = unsent[j]
                                     /\ Busy(j)' <=> Busy(j),
           ~Busy(i)' => Holds(rows'[i], unsent'[i]),
           rows'[i].flag = "created" => server[i] = 0,
           Busy(i)' => rows'[i].flag = "none"
    PROVE  HeldInv'
<1>1. /\ sync.phase = "merge" /\ ~sync.renewed /\ calls = {} /\ TypeOK
  BY ItsTurn
<1>2. /\ collected' = [collected EXCEPT ![i] = NoRow]
      /\ UNCHANGED <<sync, fetched, tasks, calls, server>>
  BY DEF Merged
<1>3. collected \in [Items -> Row]
  BY DEF CacheInv, Types, CacheTypeOK
<1>4. collected'[i] = NoRow /\ \A j \in Items : j # i => collected'[j] = collected[j]
  BY <1>2, <1>3
<1>5. InTurn' /\ Refilling' /\ CallsFit' /\ Apart'
  <2>1. InTurn'
    BY <1>1, <1>2 DEF HeldInv, InTurn
  <2>2. Refilling'
    BY <1>2 DEF HeldInv, Refilling
  <2>3. Apart'
    BY <1>1 DEF HeldInv, Apart, Replaying
  <2>4. QED
    BY <1>1, <1>2, <2>1, <2>2, <2>3, NoCallsNext
<1>6. Held(i)'
  <2>1. ~ToMerge(i)' /\ HeldInCache(i)'
    BY <1>1, <1>2, <1>4 DEF ToMerge, HeldInCache
  <2>2. QED
    BY <1>1, <1>2, <1>4, <2>1, NoRowFlag DEF Held
<1>7. ASSUME NEW j \in Items, j # i
      PROVE  Held(j)'
  <2>1. Held(j)
    BY DEF HeldInv
  <2>2. fetched'[j] = fetched[j] /\ server'[j] = server[j] /\ sync' = sync
    BY <1>2
  <2>3. Held(j)'
    BY <1>4, <1>7, <2>1, <2>2, HeldKept
  <2>4. QED
    BY <1>1, <1>7, <2>3
<1>8. QED
  BY <1>5, <1>6, <1>7 DEF HeldInv

LEMMA MergeHeld ==
    ASSUME CacheInv, HeldInv, MergeItem
    PROVE  HeldInv'
<1>1. PICK i \in Items : \/ MergeCreated(i) \/ MergeModified(i) \/ MergeRevived(i)
                         \/ MergeDeleted(i) \/ MergeDropped(i)
  BY DEF MergeItem
<1>2. Merged(i)
  BY <1>1 DEF MergeCreated, MergeModified, MergeRevived, MergeDeleted, MergeDropped
<1>3. /\ TypeOK /\ LookupsFit /\ rows \in [Items -> Row]
      /\ unsent \in [Items -> [kind : {"none", "put", "delete"}, ver : 0 .. MaxVersion]]
  BY DEF HeldInv, CacheInv, Types, CacheTypeOK, TypeOK
<1>4. /\ ~Busy(i) /\ Holds(collected[i], unsent[i]) /\ (fetched[i] = 0 => server[i] = 0)
      /\ collected[i] \in Row /\ collected[i] # NoRow
      /\ unsent[i] \in [kind : {"none", "put", "delete"}, ver : 0 .. MaxVersion]
      /\ collected[i].flag = "created" => server[i] = 0
      /\ rows[i] \in Row /\ (rows[i] = collected[i] \/ rows[i].flag = "none")
      /\ fetched[i] # 0 => rows[i].flag = "none" /\ rows[i].ver = fetched[i]
  BY <1>2, ItsTurn DEF HeldForMerge
<1>5. collected[i].flag # "none" => collected[i].ver # 0 /\ collected[i].ver \in 0 .. MaxVersion
  BY <1>4 DEF Row
<1>6. ASSUME NEW row \in Row, rows' = [rows EXCEPT ![i] = row]
      PROVE  rows'[i] = row /\ \A j \in Items : j # i => rows'[j] = rows[j]
  BY <1>3, <1>6
\* A row with the item's content and a flag, at once.
<1>7. CASE MergeCreated(i) \/ MergeRevived(i)
  <2>1. /\ collected[i].flag \in {"created", "modified"}
        /\ rows' = [rows EXCEPT ![i] = WithFlag(Flushed(collected[i].ver), "created")]
        /\ UNCHANGED <<lookups, unsent>>
        /\ server[i] = 0
    BY <1>4, <1>7 DEF MergeCreated, MergeRevived, Mine, Store
  <2>2. collected[i].ver # 0 /\ collected[i].ver \in 0 .. MaxVersion
    BY <1>5, <2>1
  <2>3. PICK row : row = WithFlag(Flushed(collected[i].ver), "created")
    OBVIOUS
  <2>4. row \in Row /\ row.flag = "created" /\ row.ver = collected[i].ver
    <3>1. row = [ver |-> collected[i].ver, flag |-> "created"]
      BY <2>2, <2>3 DEF WithFlag, Flushed
    <3>2. QED
      BY <2>2, <3>1 DEF Row, Flags
  <2>5. rows'[i] = row /\ \A j \in Items : j # i => rows'[j] = rows[j]
    BY <1>6, <2>1, <2>3, <2>4
  <2>6. Holds(rows'[i], unsent'[i])
    BY <1>4, <2>1, <2>4, <2>5 DEF Holds
  <2>7. LookupsFit' /\ \A j : Busy(j)' <=> Busy(j)
    BY <1>3, <1>4, <2>1, <2>5, LookupsKept
  <2>8. ~Busy(i)'
    BY <1>4, <2>7
  <2>9. QED
    BY <1>2, <2>1, <2>5, <2>6, <2>7, <2>8, TurnEnds
\* A row with the item's content, to be marked by a lookup.
<1>8. CASE MergeModified(i)
  <2>1. /\ collected[i].flag = "modified"
        /\ rows' = [rows EXCEPT ![i] = Flushed(collected[i].ver)]
        /\ PostLookup("mark", i, collected[i].ver, TRUE)
        /\ unsent' = unsent
    BY <1>8 DEF MergeModified, Mine, Store
  <2>2. PICK v \in 0 .. MaxVersion : v = collected[i].ver /\ v # 0
    BY <1>5, <2>1
  <2>3. Flushed(v) \in Row /\ Flushed(v).ver = v /\ Flushed(v).flag = "none"
    BY RowHelpers, NoRowFlag
  <2>4. rows'[i] = Flushed(v) /\ \A j \in Items : j # i => rows'[j] = rows[j]
    BY <1>6, <2>1, <2>2, <2>3
  <2>5. unsent[i] = Nothing \/ unsent[i] = [kind |-> "put", ver |-> v]
    BY <1>4, <2>1, <2>2 DEF Holds
  <2>6. LookupFits([op |-> "mark", item |-> i, ver |-> v, chain |-> TRUE, seen |-> Unread],
                   rows'[i], unsent'[i])
    BY <2>1, <2>2, <2>3, <2>4, <2>5 DEF LookupFits
  <2>7. /\ LookupsFit' /\ Busy(i)' /\ \A j : j # i => (Busy(j)' <=> Busy(j))
    BY <1>3, <1>4, <2>1, <2>2, <2>4, <2>6, LookupsGrow
  <2>8. rows'[i].flag = "none"
    BY <2>3, <2>4
  <2>9. QED
    BY <1>2, <2>1, <2>4, <2>7, <2>8, TurnEnds
\* The refilled row, to be marked as deleted by a lookup.
<1>9. CASE MergeDeleted(i)
  <2>1. /\ collected[i].flag = "deleted" /\ fetched[i] # 0
        /\ PostLookup("remove", i, 0, FALSE)
        /\ UNCHANGED <<rows, unsent>>
    BY <1>9 DEF MergeDeleted, Mine
  <2>2. unsent[i] = Nothing \/ unsent[i].kind = "delete"
    BY <1>4, <2>1 DEF Holds
  <2>3. LookupFits([op |-> "remove", item |-> i, ver |-> 0, chain |-> FALSE, seen |-> Unread],
                   rows'[i], unsent'[i])
    BY <1>4, <2>1, <2>2 DEF LookupFits
  <2>4. 0 \in 0 .. MaxVersion
    BY StorageConstants
  <2>5. /\ LookupsFit' /\ Busy(i)' /\ \A j : j # i => (Busy(j)' <=> Busy(j))
    BY <1>3, <1>4, <2>1, <2>3, <2>4, LookupsGrow
  <2>6. rows'[i].flag = "none"
    BY <1>4, <2>1
  <2>7. QED
    BY <1>2, <2>1, <2>5, <2>6, TurnEnds
\* The user gives the change up.
<1>10. CASE MergeDropped(i)
  <2>1. unsent' = [unsent EXCEPT ![i] = Nothing] /\ UNCHANGED <<rows, lookups>>
    BY <1>10 DEF MergeDropped, storageVars
  <2>2. unsent'[i] = Nothing /\ \A j \in Items : j # i => unsent'[j] = unsent[j]
    BY <1>3, <2>1
  <2>3. LookupsFit' /\ \A j : Busy(j)' <=> Busy(j)
    BY <1>3, <1>4, <2>1, <2>2, LookupsKept
  <2>4. collected[i].flag # "created"
    BY <1>10 DEF MergeDropped, Mine
  <2>5. rows'[i].flag # "created" /\ Holds(rows'[i], unsent'[i]) /\ ~Busy(i)'
    BY <1>4, <2>1, <2>2, <2>3, <2>4 DEF Holds
  <2>6. QED
    BY <1>2, <2>1, <2>2, <2>3, <2>5, TurnEnds
<1>11. QED
  BY <1>1, <1>7, <1>8, <1>9, <1>10

\* After the merge the rows, and the lookups still to be answered, hold everything.
LEMMA MergedHeld ==
    ASSUME CacheInv, HeldInv, MergeCompleted
    PROVE  HeldInv'
<1>1. /\ sync.phase = "merge" /\ sync' = Idle
      /\ \A i \in Items : collected[i] = NoRow
      /\ StartPlayback("drain")
      /\ UNCHANGED <<rows, lookups, collected, calls, server, unsent>>
  BY DEF MergeCompleted, vars
<1>2. TypeOK /\ InTurn /\ Refilling /\ ~sync.renewed /\ calls = {} /\ tasks \in [Slots -> Task]
  BY <1>1 DEF HeldInv, InTurn, Refilling, CacheInv, Types, CacheTypeOK
<1>3. PICK s \in Slots :
          tasks[s] = NoTask /\ tasks' = [tasks EXCEPT ![s] = Posted("created", "drain")]
  BY <1>1, PlaybackStarted
<1>4. \A t \in Slots : tasks'[t] # NoTask => tasks'[t].then = "drain"
  BY <1>2, <1>3 DEF Posted, InTurn
<1>5. sync'.phase = "idle" /\ ~sync'.renewed /\ sync'.loops = <<>> /\ sync'.op = "none"
  BY <1>1 DEF Idle
<1>6. LookupsFit' /\ \A j : Busy(j)' <=> Busy(j)
  BY <1>1, LookupsSame DEF HeldInv
<1>7. InTurn' /\ Refilling' /\ CallsFit' /\ Apart'
  <2>1. InTurn'
    BY <1>1, <1>2, <1>4, <1>5 DEF InTurn
  <2>2. Refilling'
    BY <1>5 DEF Refilling, Kinds
  <2>3. Apart'
    BY <1>1, <1>6, ApartKept DEF HeldInv, Replaying
  <2>4. QED
    BY <1>1, <1>2, <2>1, <2>2, <2>3, NoCallsNext
<1>8. ASSUME NEW i \in Items
      PROVE  Held(i)'
  <2>1. Held(i) /\ ~ToMerge(i) /\ HeldInCache(i) /\ collected'[i] = NoRow
    BY <1>1, <1>2 DEF HeldInv, Held, ToMerge
  <2>2. ~ToMerge(i)' /\ Gathered' = {}
    BY <1>5 DEF ToMerge, Gathered
  <2>3. HeldInCache(i)'
    BY <1>1, <1>6, <2>1, <2>2 DEF HeldInCache
  <2>4. Held(i)'
    BY <1>1, <1>5, <2>1, <2>2, <2>3 DEF Held
  <2>5. QED
    BY <1>1, <1>2, <2>4
<1>9. QED
  BY <1>6, <1>7, <1>8 DEF HeldInv

-----------------------------------------------------------------------------
(* Playback, and the answers *)

\* Only what is on its way about the items changes.
LEMMA ItemsKept ==
    ASSUME CacheInv, HeldInv, InTurn', CallsFit', rows' = rows, lookups' = lookups, sync' = sync,
           collected' = collected, fetched' = fetched, server' = server, unsent' = unsent,
           Replaying' => Replaying
    PROVE  HeldInv'
<1>1. LookupsFit' /\ \A j : Busy(j)' <=> Busy(j)
  BY LookupsSame DEF HeldInv
<1>2. Refilling'
  BY DEF HeldInv, Refilling
<1>3. \A i \in Items : Held(i)'
  BY <1>1, HeldKept DEF HeldInv
<1>4. Apart'
  BY <1>1, ApartKept DEF HeldInv
<1>5. QED
  BY <1>1, <1>2, <1>3, <1>4 DEF HeldInv

\* One item is written while it is not waiting for its turn in a merge.
LEMMA ItemWritten ==
    ASSUME CacheInv, HeldInv, InTurn', CallsFit', LookupsFit', Apart',
           sync.phase \in {"idle", "merge"}, sync' = sync, collected' = collected, fetched' = fetched,
           NEW i \in Items, ~ToMerge(i),
           \A j \in Items : j # i => /\ rows'[j] = rows[j] /\ unsent'[j] = unsent[j]
                                     /\ server'[j] = server[j]
                                     /\ Busy(j)' <=> Busy(j),
           ~Busy(i)' => Holds(rows'[i], unsent'[i]),
           rows'[i].flag = "created" => server'[i] = 0
    PROVE  HeldInv'
<1>1. ~sync.renewed /\ Refilling /\ Refilling' /\ TypeOK
  BY DEF HeldInv, Refilling, CacheInv, Types
<1>2. Held(i) /\ HeldInCache(i)
  BY <1>1 DEF HeldInv, Held
<1>3. Gathered = {} /\ Gathered' = {}
  BY DEF Gathered
<1>4. collected[i] = NoRow
  BY <1>2, <1>3 DEF HeldInCache, ToMerge
<1>5. Held(i)'
  <2>1. ~ToMerge(i)' /\ collected'[i] = NoRow
    BY <1>4 DEF ToMerge
  <2>2. HeldInCache(i)'
    BY <1>3, <2>1 DEF HeldInCache
  <2>3. QED
    BY <1>1, <2>1, <2>2, NoRowFlag DEF Held
<1>6. ASSUME NEW j \in Items, j # i
      PROVE  Held(j)'
  <2>1. Held(j)
    BY DEF HeldInv
  <2>2. Held(j)'
    BY <1>6, <2>1, HeldKept
  <2>3. QED
    BY <1>1, <1>6, <2>2
<1>7. QED
  BY <1>1, <1>5, <1>6 DEF HeldInv

\* While a playback is on its way nothing else is, and what is outstanding is its own.
LEMMA PlaybackAlone ==
    ASSUME CacheInv, HeldInv, NEW s \in Slots, tasks[s] # NoTask
    PROVE  /\ tasks[s].then = "drain" /\ sync.phase = "idle"
           /\ \A c \in calls : c.by = s
<1>1. tasks[s].then = "drain"
  BY DEF HeldInv, InTurn
<1>2. s \in Drains
  BY <1>1 DEF Drains
<1>3. sync.phase = "idle" /\ \A t \in Drains : t = s
  BY <1>2 DEF CacheInv, OneOnItsWay
<1>4. ASSUME NEW c \in calls
      PROVE  c.by = s
  <2>1. c.by # User
    BY DEF HeldInv, InTurn
  <2>2. c.by \in Slots /\ tasks[c.by] # NoTask
    BY <2>1, CallsBelong
  <2>3. c.by \in Drains
    BY <2>2 DEF HeldInv, InTurn, Drains
  <2>4. QED
    BY <1>3, <2>3
<1>5. QED
  BY <1>1, <1>3, <1>4

\* A playback that goes on, or ends, ends as a drain.
LEMMA DrainGoesOn ==
    ASSUME CacheInv, InTurn, NEW s \in Slots, NEW t, t = NoTask \/ t.then = "drain",
           tasks' = [tasks EXCEPT ![s] = t]
    PROVE  \A r \in Slots : tasks'[r] # NoTask => tasks'[r].then = "drain"
BY DEF InTurn, CacheInv, Types, CacheTypeOK

LEMMA DrainCounts ==
    ASSUME CacheInv, InTurn, NEW s \in Slots, tasks[s].kind # "none", tasks[s].left > 0,
           tasks[s].then = "drain", CountDown(s)
    PROVE  \A r \in Slots : tasks'[r] # NoTask => tasks'[r].then = "drain"
<1>1. tasks[s] \in Task /\ Types
  BY DEF CacheInv, Types, CacheTypeOK
<1>2. PICK t : t = [tasks[s] EXCEPT !.left = tasks[s].left - 1]
  OBVIOUS
<1>3. t.then = "drain"
  BY <1>1, <1>2 DEF Task
<1>4. \A k : Posted(k, tasks[s].then).then = "drain"
  BY DEF Posted
<1>5. \/ tasks' = [tasks EXCEPT ![s] = NoTask]
      \/ \E k \in Kinds : tasks' = [tasks EXCEPT ![s] = Posted(k, tasks[s].then)]
      \/ tasks' = [tasks EXCEPT ![s].left = tasks[s].left - 1]
  BY <1>1, CountedDown
<1>6. CASE tasks' = [tasks EXCEPT ![s] = NoTask]
  BY <1>6, DrainGoesOn
<1>7. ASSUME NEW k \in Kinds, tasks' = [tasks EXCEPT ![s] = Posted(k, tasks[s].then)]
      PROVE  \A r \in Slots : tasks'[r] # NoTask => tasks'[r].then = "drain"
  BY <1>4, <1>7, DrainGoesOn
<1>8. CASE tasks' = [tasks EXCEPT ![s].left = tasks[s].left - 1]
  <2>1. tasks' = [tasks EXCEPT ![s] = t]
    BY <1>2, <1>8
  <2>2. QED
    BY <1>3, <2>1, DrainGoesOn
<1>9. QED
  BY <1>5, <1>6, <1>7, <1>8

\* A playback submits what the flags of one kind stand for.
LEMMA PlaybackGetHeld ==
    ASSUME CacheInv, HeldInv, NEW s \in Slots, PlaybackGet(s)
    PROVE  HeldInv'
<1>1. /\ tasks[s] # NoTask /\ ~tasks[s].wait
      /\ UNCHANGED <<rows, lookups, sync, collected, fetched, server, unsent>>
  BY DEF PlaybackGet, vars
<1>2. /\ Types /\ tasks[s] \in Task /\ tasks[s].kind # "none" /\ CallsOf(s) = {} /\ InTurn
      /\ tasks \in [Slots -> Task]
  <2>1. CountedAt(s) /\ Types
    BY CountedByParts DEF CacheInv
  <2>2. CallsOf(s) = {}
    BY <1>1, <2>1, NoneOutstanding
  <2>3. QED
    BY <1>1, <2>1, <2>2 DEF CountedAt, Types, CacheTypeOK, HeldInv
<1>3. tasks[s].then = "drain" /\ sync.phase = "idle" /\ \A c \in calls : c.by = s
  BY <1>1, PlaybackAlone
<1>4. calls = {} /\ Replaying
  BY <1>1, <1>2, <1>3 DEF CallsOf, Replaying
<1>5. CASE (Finish(s) \/ Advance(s)) /\ calls' = calls
  <2>1. tasks' = [tasks EXCEPT ![s] = NoTask]
        \/ \E k \in Kinds : tasks' = [tasks EXCEPT ![s] = Posted(k, tasks[s].then)]
    BY <1>2, <1>5, Advanced DEF Finish
  <2>2. \A k : Posted(k, tasks[s].then).then = "drain"
    BY <1>3 DEF Posted
  <2>3. \A r \in Slots : tasks'[r] # NoTask => tasks'[r].then = "drain"
    <3>1. CASE tasks' = [tasks EXCEPT ![s] = NoTask]
      BY <1>2, <3>1, DrainGoesOn
    <3>2. ASSUME NEW k \in Kinds, tasks' = [tasks EXCEPT ![s] = Posted(k, tasks[s].then)]
          PROVE  \A r \in Slots : tasks'[r] # NoTask => tasks'[r].then = "drain"
      BY <1>2, <2>2, <3>2, DrainGoesOn
    <3>3. QED
      BY <2>1, <3>1, <3>2
  <2>4. InTurn'
    BY <1>1, <1>3, <1>4, <1>5, <2>3 DEF InTurn
  <2>5. CallsFit'
    BY <1>4, <1>5, NoCallsNext
  <2>6. QED
    BY <1>1, <1>4, <2>4, <2>5, ItemsKept
<1>6. CASE /\ tasks' = [tasks EXCEPT ![s] = [kind |-> tasks[s].kind, wait |-> TRUE,
                                left |-> Cardinality(Selected(tasks[s].kind)), then |-> tasks[s].then]]
           /\ calls' = calls \cup Submitted(s)
  <2>1. PICK t : t = [kind |-> tasks[s].kind, wait |-> TRUE,
                      left |-> Cardinality(Selected(tasks[s].kind)), then |-> tasks[s].then]
    OBVIOUS
  <2>2. t.then = "drain" /\ tasks' = [tasks EXCEPT ![s] = t]
    BY <1>3, <1>6, <2>1
  <2>3. \A r \in Slots : tasks'[r] # NoTask => tasks'[r].then = "drain"
    BY <1>2, <2>2, DrainGoesOn
  <2>4. calls' = Submitted(s) /\ \A c \in calls' : c.by # User
    <3>1. s # User
      BY DEF Slots, User
    <3>2. \A c \in Submitted(s) : c.by = s
      BY DEF Submitted
    <3>3. QED
      BY <1>4, <1>6, <3>1, <3>2
  <2>5. InTurn'
    BY <1>1, <1>3, <2>3, <2>4 DEF InTurn
  <2>6. \A c \in Submitted(s) :
            /\ c.item \in Selected(tasks[s].kind) /\ c.op = OpFor[tasks[s].kind]
            /\ c.ver = IF tasks[s].kind = "deleted" THEN 0 ELSE rows[c.item].ver
    BY DEF Submitted
  <2>7. \A c, d \in Submitted(s) : c.item = d.item => c = d
    BY DEF Submitted
  <2>8. ASSUME NEW c \in calls'
        PROVE  CallFits(c, rows[c.item])
    <3>1. c \in Submitted(s) /\ c.by # User
      BY <2>4
    <3>2. rows[c.item].flag = tasks[s].kind
      BY <2>6, <3>1 DEF Selected
    <3>3. QED
      BY <1>2, <2>6, <3>1, <3>2 DEF CallFits
  <2>9. CallsFit'
    BY <1>1, <2>4, <2>7, <2>8 DEF CallsFit
  <2>10. QED
    BY <1>1, <1>4, <2>5, <2>9, ItemsKept
<1>7. QED
  BY <1>2, <1>5, <1>6 DEF PlaybackGet, Submitted

\* An operation of a playback that is outstanding.
LEMMA InPlayback ==
    ASSUME Gentle, CacheInv, HeldInv, NEW c \in calls, c.by \in Slots, MayAnswer
    PROVE  /\ c.item \in Items /\ c.by # User /\ lookups = <<>> /\ sync.phase = "idle"
           /\ Replaying /\ tasks[c.by].kind # "none" /\ tasks[c.by].left > 0 /\ tasks[c.by].then = "drain"
           /\ \A d \in calls : d.by # User
           /\ CallFits(c, rows[c.item])
           /\ \A d \in calls : d # c => d.item # c.item
<1>1. c \in ProviderCall /\ tasks[c.by].kind # "none" /\ tasks[c.by].left > 0
  BY Outstanding DEF CacheInv, Types, CacheTypeOK
<1>2. c.item \in Items
  BY <1>1 DEF ProviderCall
<1>3. tasks[c.by] # NoTask /\ c.by # User /\ Replaying
  BY <1>1 DEF NoTask, Slots, User, Replaying
<1>4. tasks[c.by].then = "drain" /\ sync.phase = "idle" /\ \A d \in calls : d.by = c.by
  BY <1>3, PlaybackAlone
<1>5. lookups = <<>>
  BY DEF MayAnswer, Gentle
<1>6. CallFits(c, rows[c.item]) /\ \A d \in calls : d # c => d.item # c.item
  BY DEF HeldInv, CallsFit
<1>7. QED
  BY <1>1, <1>2, <1>3, <1>4, <1>5, <1>6

\* One operation of a playback has been answered.
LEMMA AnswerInTurn ==
    ASSUME Gentle, CacheInv, HeldInv, NEW c \in calls, c.by \in Slots, MayAnswer,
           calls' = calls \ {c}, lookups' = lookups, sync' = sync,
           tasks' = tasks \/ CountDown(c.by)
    PROVE  InTurn'
<1>1. /\ lookups = <<>> /\ sync.phase = "idle" /\ InTurn
      /\ tasks[c.by].kind # "none" /\ tasks[c.by].left > 0 /\ tasks[c.by].then = "drain"
      /\ \A d \in calls : d.by # User
  BY InPlayback DEF HeldInv
<1>2. \A r \in Slots : tasks'[r] # NoTask => tasks'[r].then = "drain"
  <2>1. CASE tasks' = tasks
    BY <1>1, <2>1 DEF InTurn
  <2>2. CASE CountDown(c.by)
    BY <1>1, <2>2, DrainCounts
  <2>3. QED
    BY <2>1, <2>2
<1>3. QED
  BY <1>1, <1>2 DEF InTurn

LEMMA FailsHeld ==
    ASSUME Gentle, CacheInv, HeldInv, NEW c \in calls, PlaybackFails(c)
    PROVE  HeldInv'
<1>1. /\ c.by \in Slots /\ MayAnswer /\ calls' = calls \ {c}
      /\ tasks' = tasks \/ CountDown(c.by)
      /\ UNCHANGED <<rows, lookups, sync, collected, fetched, server, unsent>>
  BY DEF PlaybackFails, vars
<1>2. InTurn'
  BY <1>1, AnswerInTurn
<1>3. CallsFit'
  BY <1>1, CallsLeft DEF HeldInv
<1>4. Replaying
  BY <1>1, InPlayback
<1>5. QED
  BY <1>1, <1>2, <1>3, <1>4, ItemsKept

\* What the server acknowledges is what the row has: its flag goes, and what the user
\* wants of it is no longer unsent.
LEMMA SucceedsHeld ==
    ASSUME Gentle, CacheInv, HeldInv, NEW c \in calls, PlaybackSucceeds(c)
    PROVE  HeldInv'
<1> DEFINE i == c.item
           new == IF c.op = "delete" THEN NoRow ELSE WithFlag(rows[i], "none")
<1>1. /\ c.by \in Slots /\ MayAnswer /\ calls' = calls \ {c} /\ CountDown(c.by)
      /\ server' = [server EXCEPT ![i] = c.ver]
      /\ unsent' = [unsent EXCEPT ![i] =
                      IF c.by = User \/ unsent[i].ver <= c.ver
                           \/ (unsent[i].kind = "delete" /\ c.op = "delete")
                      THEN Nothing ELSE unsent[i]]
      /\ rows' = [rows EXCEPT ![i] = new]
      /\ UNCHANGED <<lookups, sync, collected, fetched>>
  BY DEF PlaybackSucceeds, Performed, Store
<1>2. /\ i \in Items /\ c.by # User /\ lookups = <<>> /\ sync.phase = "idle"
      /\ CallFits(c, rows[i])
      /\ \A d \in calls : d # c => d.item # i
  BY <1>1, InPlayback
<1>3. /\ rows \in [Items -> Row] /\ rows[i] \in Row /\ TypeOK
      /\ server \in [Items -> 0 .. MaxVersion]
      /\ unsent \in [Items -> [kind : {"none", "put", "delete"}, ver : 0 .. MaxVersion]]
      /\ unsent[i] \in [kind : {"none", "put", "delete"}, ver : 0 .. MaxVersion]
  BY <1>2 DEF CacheInv, Types, CacheTypeOK, TypeOK
<1>4. PICK u : u = IF c.by = User \/ unsent[i].ver <= c.ver
                        \/ (unsent[i].kind = "delete" /\ c.op = "delete")
                   THEN Nothing ELSE unsent[i]
  OBVIOUS
<1>5. PICK row : row = new
  OBVIOUS
<1> HIDE DEF i, new
<1>6. /\ server'[i] = c.ver /\ unsent'[i] = u /\ rows'[i] = row
      /\ \A j \in Items : j # i => rows'[j] = rows[j] /\ server'[j] = server[j]
                                   /\ unsent'[j] = unsent[j]
  BY <1>1, <1>2, <1>3, <1>4, <1>5
<1>7. Held(i) /\ ~Busy(i) /\ ~ToMerge(i) /\ ~sync.renewed
  BY <1>2, NoLookups DEF HeldInv, ToMerge, Refilling
<1>8. Holds(rows[i], unsent[i])
  BY <1>7 DEF Held, HeldInCache
<1>9. /\ rows[i].flag \in {"created", "modified", "deleted"} /\ rows[i].ver # 0
      /\ rows[i].ver \in Nat /\ unsent[i].ver \in Nat
  BY <1>2, <1>3, StorageConstants DEF CallFits, Row, Flags
<1>10. /\ rows[i].flag \in {"created", "modified"} => c.op # "delete" /\ c.ver = rows[i].ver
       /\ rows[i].flag = "deleted" => c.op = "delete" /\ c.ver = 0
  BY <1>2, <1>9 DEF CallFits, OpFor
<1>11. u = Nothing
  <2>1. CASE unsent[i] = Nothing
    BY <1>4, <2>1
  <2>2. CASE unsent[i].kind = "put" /\ rows[i].flag \in {"created", "modified"}
             /\ rows[i].ver = unsent[i].ver
    BY <1>4, <1>9, <1>10, <2>2
  <2>3. CASE unsent[i].kind = "delete" /\ rows[i].flag = "deleted"
    BY <1>4, <1>10, <2>3
  <2>4. QED
    BY <1>8, <2>1, <2>2, <2>3 DEF Holds
<1>12. row.flag = "none"
  BY <1>3, <1>5, NoRowFlag DEF new, WithFlag, Row
<1>13. LookupsFit' /\ \A j : Busy(j)' <=> Busy(j)
  <2>1. LookupsFit'
    BY <1>1, <1>2, NoLookupsNext
  <2>2. \A j : Busy(j)' <=> Busy(j)
    BY <1>1 DEF Busy
  <2>3. QED
    BY <2>1, <2>2
<1>14. InTurn' /\ Apart'
  BY <1>1, <1>2, AnswerInTurn, ApartVoid
<1>15. CallsFit'
  <2>1. ASSUME NEW d \in calls'
        PROVE  rows'[d.item] = rows[d.item]
    <3>1. d \in calls /\ d # c
      BY <1>1
    <3>2. d \in ProviderCall
      BY <3>1 DEF CacheInv, Types, CacheTypeOK
    <3>3. d.item \in Items /\ d.item # i
      BY <1>2, <3>1, <3>2 DEF ProviderCall
    <3>4. QED
      BY <1>6, <3>3
  <2>2. calls' \subseteq calls
    BY <1>1
  <2>3. QED
    BY <2>1, <2>2, CallsLeft DEF HeldInv
<1>16. Holds(rows'[i], unsent'[i]) /\ rows'[i].flag # "created"
  BY <1>6, <1>11, <1>12 DEF Holds
<1>17. sync' = sync /\ collected' = collected /\ fetched' = fetched
  BY <1>1
<1>18. QED
  BY <1>2, <1>6, <1>7, <1>13, <1>14, <1>15, <1>16, <1>17, ItemWritten

-----------------------------------------------------------------------------
(* The user's operations, online *)

\* The only operation there is, and nothing else is on its way.
LEMMA OnlyCall ==
    ASSUME Gentle, CacheInv, HeldInv, NEW c \in calls, c.by = User, MayAnswer
    PROVE  /\ c \in ProviderCall /\ c.item \in Items /\ calls = {c} /\ lookups = <<>>
           /\ sync.phase = "idle" /\ \A s \in Slots : tasks[s] = NoTask
           /\ CallFits(c, rows[c.item])
<1>1. c \in ProviderCall /\ lookups = <<>>
  BY DEF CacheInv, Types, CacheTypeOK, MayAnswer, Gentle
<1>2. c.item \in Items
  BY <1>1 DEF ProviderCall
<1>3. calls = {c} /\ sync.phase = "idle" /\ \A s \in Slots : tasks[s] = NoTask
  BY DEF HeldInv, InTurn
<1>4. CallFits(c, rows[c.item])
  BY DEF HeldInv, CallsFit
<1>5. QED
  BY <1>1, <1>2, <1>3, <1>4

LEMMA UserFailsHeld ==
    ASSUME Gentle, CacheInv, HeldInv, NEW c \in calls, UserCallFails(c)
    PROVE  HeldInv'
<1>1. /\ c.by = User /\ MayAnswer /\ calls' = calls \ {c}
      /\ UNCHANGED <<rows, lookups, sync, collected, fetched, tasks, server, unsent>>
  BY DEF UserCallFails, vars, syncVars
<1>2. calls' = {} /\ InTurn /\ lookups = <<>>
  BY <1>1, OnlyCall DEF HeldInv
<1>3. InTurn' /\ (Replaying' => Replaying)
  BY <1>1, <1>2 DEF InTurn, Replaying
<1>4. QED
  BY <1>1, <1>2, <1>3, NoCallsNext, ItemsKept

LEMMA UserSucceedsHeld ==
    ASSUME Gentle, CacheInv, HeldInv, NEW c \in calls, UserCallSucceeds(c)
    PROVE  HeldInv'
<1>1. PICK i \in Items : i = c.item
  BY OnlyCall DEF UserCallSucceeds
<1>2. /\ c.by = User /\ MayAnswer /\ calls' = calls \ {c} /\ Performed(c)
      /\ UNCHANGED <<sync, collected, fetched, tasks>>
  BY DEF UserCallSucceeds, syncVars
<1>3. /\ c \in ProviderCall /\ calls = {c} /\ lookups = <<>> /\ sync.phase = "idle"
      /\ CallFits(c, rows[i]) /\ calls' = {} /\ \A s \in Slots : tasks[s] = NoTask
  BY <1>1, <1>2, OnlyCall
<1>4. /\ rows \in [Items -> Row] /\ rows[i] \in Row /\ TypeOK
      /\ server \in [Items -> 0 .. MaxVersion]
      /\ unsent \in [Items -> [kind : {"none", "put", "delete"}, ver : 0 .. MaxVersion]]
      /\ c.ver \in 0 .. MaxVersion /\ (c.op # "delete" => c.ver # 0)
      /\ LookupsFit /\ InTurn
  BY <1>3 DEF CacheInv, Types, CacheTypeOK, TypeOK, ProviderCall, HeldInv
<1>5. /\ server' = [server EXCEPT ![i] = c.ver] /\ unsent' = [unsent EXCEPT ![i] = Nothing]
      /\ c.op = "modify" => server[i] # 0
  BY <1>1, <1>2 DEF Performed
<1>6. /\ server'[i] = c.ver /\ unsent'[i] = Nothing
      /\ \A j \in Items : j # i => server'[j] = server[j] /\ unsent'[j] = unsent[j]
  BY <1>4, <1>5
<1>7. Held(i) /\ ~Busy(i) /\ ~ToMerge(i)
  BY <1>3, NoLookups DEF HeldInv, ToMerge
<1>8. Holds(rows'[i], unsent'[i])
  BY <1>6 DEF Holds
<1>9. CallsFit' /\ InTurn' /\ Apart'
  <2>1. InTurn'
    BY <1>2, <1>3, <1>4 DEF InTurn
  <2>2. Apart'
    BY <1>2, <1>3, ApartVoid
  <2>3. QED
    BY <1>3, <2>1, <2>2, NoCallsNext
\* The listeners of adoptItem and deleteItem write the row at once.
<1>10. ASSUME NEW row \in Row, rows' = [rows EXCEPT ![i] = row], lookups' = lookups,
              row.flag = "none", rows[i].flag = "none" \/ row.ver = 0
       PROVE  HeldInv'
  <2>1. rows'[i] = row /\ \A j \in Items : j # i => rows'[j] = rows[j]
    BY <1>4, <1>10
  <2>2. LookupsFit' /\ \A j : Busy(j)' <=> Busy(j)
    BY <1>4, <1>6, <1>7, <1>10, <2>1, LookupsKept
  <2>3. rows'[i].flag # "created"
    BY <1>10, <2>1
  <2>4. QED
    BY <1>2, <1>3, <1>6, <1>7, <1>8, <1>9, <2>1, <2>2, <2>3, ItemWritten
<1>11. CASE c.op = "add" /\ Store(i, Flushed(c.ver), "none") /\ lookups' = lookups
  <2>1. rows[i].ver = 0
    BY <1>2, <1>3, <1>11 DEF CallFits
  <2>2. rows[i].flag = "none"
    BY <1>4, <2>1 DEF Row
  <2>3. Flushed(c.ver) \in Row /\ Flushed(c.ver).flag = "none"
    BY <1>4, RowHelpers, NoRowFlag
  <2>4. QED
    BY <1>10, <1>11, <2>2, <2>3 DEF Store
<1>12. CASE c.op = "delete" /\ Store(i, NoRow, "none") /\ lookups' = lookups
  BY <1>10, <1>12, RowHelpers, NoRowFlag DEF Store
\* modifyItem's listener posts a lookup: nothing of the item is unsent any more.
<1>13. CASE c.op = "modify" /\ PostLookup("modify", i, c.ver, FALSE) /\ rows' = rows
  <2>1. rows[i].ver # 0 /\ rows[i].flag # "deleted"
    BY <1>2, <1>3, <1>13 DEF CallFits
  <2>2. LookupFits([op |-> "modify", item |-> i, ver |-> c.ver, chain |-> FALSE, seen |-> Unread],
                   rows'[i], unsent'[i])
    BY <1>6, <1>13, <2>1 DEF LookupFits
  <2>3. c.ver # 0 /\ c.ver \in 0 .. MaxVersion /\ c.op = "modify"
    BY <1>4, <1>13
  <2>4. \A j \in Items : j # i => rows'[j] = rows[j] /\ unsent'[j] = unsent[j]
    BY <1>6, <1>13
  <2>5. PICK v \in 0 .. MaxVersion : v = c.ver /\ v # 0
    BY <2>3
  <2>6. PostLookup("modify", i, v, FALSE)
        /\ LookupFits([op |-> "modify", item |-> i, ver |-> v, chain |-> FALSE, seen |-> Unread],
                      rows'[i], unsent'[i])
    BY <1>13, <2>2, <2>5
  <2>7. LookupsFit' /\ Busy(i)' /\ \A j : j # i => (Busy(j)' <=> Busy(j))
    BY <1>4, <1>7, <2>4, <2>5, <2>6, LookupsGrow
  <2>8. rows'[i].flag # "created"
    BY <1>5, <1>7, <1>13, <2>3 DEF Held
  <2>9. QED
    BY <1>2, <1>3, <1>6, <1>7, <1>9, <1>13, <2>4, <2>7, <2>8, ItemWritten
<1>14. QED
  BY <1>1, <1>11, <1>12, <1>13 DEF UserCallSucceeds

-----------------------------------------------------------------------------
(* The user's edits *)

\* Nothing is on its way.
LEMMA CalmState ==
    ASSUME CacheInv, HeldInv, Calm, NEW i \in Items
    PROVE  /\ lookups = <<>> /\ calls = {} /\ sync.phase = "idle"
           /\ \A s \in Slots : tasks[s] = NoTask
           /\ ~Busy(i) /\ ~ToMerge(i) /\ Held(i) /\ LookupsFit /\ TypeOK
           /\ rows \in [Items -> Row] /\ rows[i] \in Row
           /\ unsent \in [Items -> [kind : {"none", "put", "delete"}, ver : 0 .. MaxVersion]]
           /\ Visible(i) => rows[i].ver # 0 /\ rows[i].flag # "deleted"
<1>1. lookups = <<>> /\ calls = {} /\ sync.phase = "idle" /\ \A s \in Slots : tasks[s] = NoTask
  BY IdleTyped DEF Calm
<1>2. ~Busy(i) /\ ~ToMerge(i) /\ Held(i) /\ LookupsFit /\ TypeOK
  BY <1>1, NoLookups DEF HeldInv, ToMerge, CacheInv, Types
<1>3. /\ rows \in [Items -> Row] /\ rows[i] \in Row
      /\ unsent \in [Items -> [kind : {"none", "put", "delete"}, ver : 0 .. MaxVersion]]
  BY DEF CacheInv, Types, CacheTypeOK, TypeOK
<1>4. Visible(i) => rows[i].ver # 0 /\ rows[i].flag # "deleted"
  BY DEF Visible, Present
<1>5. QED
  BY <1>1, <1>2, <1>3, <1>4

LEMMA AddOfflineHeld ==
    ASSUME Gentle, CacheInv, HeldInv, NEW i \in Items, AddOffline(i)
    PROVE  HeldInv'
<1>1. /\ Calm /\ ~Present(i) /\ server[i] = 0 /\ NewVersion
      /\ rows' = [rows EXCEPT ![i] = WithFlag(Flushed(clock'), "created")]
      /\ unsent' = [unsent EXCEPT ![i] = [kind |-> "put", ver |-> clock']]
      /\ UNCHANGED <<lookups, sync, collected, fetched, tasks, calls, server>>
  BY DEF AddOffline, MayEdit, Addable, Gentle, Store, syncVars
<1>2. /\ lookups = <<>> /\ calls = {} /\ sync.phase = "idle"
      /\ ~Busy(i) /\ ~ToMerge(i) /\ LookupsFit /\ TypeOK
      /\ rows \in [Items -> Row] /\ rows[i] \in Row
      /\ unsent \in [Items -> [kind : {"none", "put", "delete"}, ver : 0 .. MaxVersion]]
  BY <1>1, CalmState
<1>3. PICK v \in 0 .. MaxVersion : v = clock' /\ v # 0
  BY <1>1, <1>2, Ticked
<1>4. PICK row : row = WithFlag(Flushed(v), "created")
  OBVIOUS
<1>5. row = [ver |-> v, flag |-> "created"]
  BY <1>3, <1>4 DEF WithFlag, Flushed
<1>6. PICK u : u = [kind |-> "put", ver |-> v]
  OBVIOUS
<1>7. /\ rows'[i] = row /\ unsent'[i] = u
      /\ \A j \in Items : j # i => rows'[j] = rows[j] /\ unsent'[j] = unsent[j]
                                   /\ server'[j] = server[j]
  BY <1>1, <1>2, <1>3, <1>4, <1>6
<1>8. Holds(rows'[i], unsent'[i])
  BY <1>5, <1>6, <1>7 DEF Holds
<1>9. LookupsFit' /\ \A j : Busy(j)' <=> Busy(j)
  BY <1>1, <1>2, <1>7, LookupsKept
<1>10. InTurn' /\ CallsFit' /\ Apart'
  <2>1. InTurn'
    BY <1>1, <1>2, InTurnKept DEF HeldInv
  <2>2. QED
    BY <1>1, <1>2, <2>1, NoCallsNext, ApartVoid
<1>11. sync' = sync /\ collected' = collected /\ fetched' = fetched /\ server'[i] = 0
  BY <1>1
<1>12. QED
  BY <1>2, <1>7, <1>8, <1>9, <1>10, <1>11, ItemWritten

\* An edit that posts a lookup, which holds what the user wants.
LEMMA EditPosted ==
    ASSUME Gentle, CacheInv, HeldInv, NEW i \in Items, Calm, Visible(i),
           NEW op \in {"modify", "mark", "remove"}, NEW v \in 0 .. MaxVersion,
           NEW chain \in BOOLEAN, op = "modify" => v # 0,
           PostLookup(op, i, v, chain), NEW u, unsent' = [unsent EXCEPT ![i] = u],
           LookupFits([op |-> op, item |-> i, ver |-> v, chain |-> chain, seen |-> Unread],
                      rows[i], u),
           UNCHANGED <<rows, sync, collected, fetched, tasks, calls, server>>
    PROVE  HeldInv'
<1>1. /\ lookups = <<>> /\ calls = {} /\ sync.phase = "idle"
      /\ \A s \in Slots : tasks[s] = NoTask
      /\ ~Busy(i) /\ ~ToMerge(i) /\ Held(i) /\ LookupsFit /\ TypeOK
      /\ unsent \in [Items -> [kind : {"none", "put", "delete"}, ver : 0 .. MaxVersion]]
  BY CalmState
<1>2. /\ rows'[i] = rows[i] /\ unsent'[i] = u
      /\ \A j \in Items : j # i => rows'[j] = rows[j] /\ unsent'[j] = unsent[j]
                                   /\ server'[j] = server[j]
  BY <1>1
<1>3. LookupsFit' /\ Busy(i)' /\ \A j : j # i => (Busy(j)' <=> Busy(j))
  BY <1>1, <1>2, LookupsGrow
<1>4. InTurn' /\ CallsFit' /\ Apart'
  <2>1. InTurn'
    BY <1>1 DEF InTurn
  <2>2. QED
    BY <1>1, <2>1, NoCallsNext, ApartVoid
<1>5. rows'[i].flag = "created" => server'[i] = 0
  BY <1>1, <1>2 DEF Held
<1>6. QED
  BY <1>1, <1>2, <1>3, <1>4, <1>5, ItemWritten

LEMMA ModifyOfflineHeld ==
    ASSUME Gentle, CacheInv, HeldInv, NEW i \in Items, ModifyOffline(i)
    PROVE  HeldInv'
<1>1. /\ Calm /\ Visible(i) /\ NewVersion
      /\ PostLookup("modify", i, clock', TRUE)
      /\ unsent' = [unsent EXCEPT ![i] = [kind |-> "put", ver |-> clock']]
      /\ UNCHANGED <<rows, sync, collected, fetched, tasks, calls, server>>
  BY DEF ModifyOffline, MayEdit, Gentle, syncVars
<1>2. TypeOK /\ rows[i].ver # 0 /\ rows[i].flag # "deleted"
  BY <1>1, CalmState
<1>3. PICK v \in 0 .. MaxVersion : v = clock' /\ v # 0
  BY <1>1, <1>2, Ticked
<1>4. PICK u : u = [kind |-> "put", ver |-> v]
  OBVIOUS
<1>5. PostLookup("modify", i, v, TRUE) /\ unsent' = [unsent EXCEPT ![i] = u]
  BY <1>1, <1>3, <1>4
<1>6. LookupFits([op |-> "modify", item |-> i, ver |-> v, chain |-> TRUE, seen |-> Unread],
                 rows[i], u)
  BY <1>2, <1>4 DEF LookupFits
<1>7. QED
  BY <1>1, <1>3, <1>5, <1>6, EditPosted

\* What only this client knows of is forgotten, what the server has is to go.
LEMMA DeleteOfflineHeld ==
    ASSUME Gentle, CacheInv, HeldInv, NEW i \in Items, DeleteOffline(i)
    PROVE  HeldInv'
<1>1. PICK u : u = IF server[i] = 0 THEN Nothing ELSE [kind |-> "delete", ver |-> 0]
  OBVIOUS
<1>2. /\ Calm /\ Visible(i) /\ PostLookup("remove", i, 0, FALSE)
      /\ unsent' = [unsent EXCEPT ![i] = u]
      /\ UNCHANGED <<rows, sync, collected, fetched, tasks, calls, server>>
  BY <1>1 DEF DeleteOffline, MayEdit, Gentle, syncVars
<1>3. rows[i].ver # 0 /\ rows[i].flag # "deleted" /\ (rows[i].flag = "created" => server[i] = 0)
  BY <1>2, CalmState DEF Held
<1>4. LookupFits([op |-> "remove", item |-> i, ver |-> 0, chain |-> FALSE, seen |-> Unread],
                 rows[i], u)
  BY <1>1, <1>3 DEF LookupFits
<1>5. 0 \in 0 .. MaxVersion
  BY StorageConstants
<1>6. QED
  BY <1>2, <1>4, <1>5, EditPosted

\* Online the operation goes to the provider, and is the only one.
LEMMA SubmitHeld ==
    ASSUME Gentle, CacheInv, HeldInv, NEW op, NEW i \in Items, NEW v, Submit(op, i, v),
           op = "add" => rows[i].ver = 0,
           op = "modify" => rows[i].ver # 0 /\ rows[i].flag # "deleted"
    PROVE  HeldInv'
<1>1. PICK c : c = [op |-> op, item |-> i, ver |-> v, by |-> User]
  OBVIOUS
<1>2. /\ Calm /\ calls' = calls \cup {c}
      /\ UNCHANGED <<rows, lookups, sync, collected, fetched, tasks, server, unsent>>
  BY <1>1 DEF Submit, MayEdit, Gentle, syncVars, storageVars
<1>3. lookups = <<>> /\ calls = {} /\ sync.phase = "idle" /\ \A s \in Slots : tasks[s] = NoTask
  BY <1>2, CalmState
<1>4. calls' = {c} /\ c.by = User /\ c.op = op /\ c.item = i
  BY <1>1, <1>2, <1>3
<1>5. InTurn'
  BY <1>2, <1>3, <1>4 DEF InTurn
<1>6. CallFits(c, rows'[c.item])
  BY <1>2, <1>4 DEF CallFits
<1>7. CallsFit'
  BY <1>4, <1>6 DEF CallsFit
<1>8. Replaying' <=> Replaying
  BY <1>2 DEF Replaying
<1>9. QED
  BY <1>2, <1>5, <1>7, <1>8, ItemsKept

LEMMA EditHeld ==
    ASSUME Gentle, CacheInv, HeldInv, UserEdit
    PROVE  HeldInv'
<1>1. PICK i \in Items : \/ AddOffline(i) \/ ModifyOffline(i) \/ DeleteOffline(i)
                         \/ AddOnline(i) \/ ModifyOnline(i) \/ DeleteOnline(i)
  BY DEF UserEdit
<1>2. rows[i] \in Row
  BY DEF CacheInv, Types, TypeOK
<1>3. CASE AddOnline(i)
  <2>1. rows[i].ver = 0
    BY <1>3 DEF AddOnline, Addable, Gentle, Present
  <2>2. Submit("add", i, clock')
    BY <1>3 DEF AddOnline
  <2>3. QED
    BY <2>1, <2>2, SubmitHeld
<1>4. CASE ModifyOnline(i)
  <2>1. rows[i].ver # 0 /\ rows[i].flag # "deleted" /\ Submit("modify", i, clock')
    BY <1>4 DEF ModifyOnline, Visible, Present
  <2>2. QED
    BY <2>1, SubmitHeld
<1>5. CASE DeleteOnline(i)
  BY <1>5, SubmitHeld DEF DeleteOnline
<1>6. QED
  BY <1>1, <1>3, <1>4, <1>5, AddOfflineHeld, ModifyOfflineHeld, DeleteOfflineHeld

-----------------------------------------------------------------------------
(* Other clients, the cache's callbacks, a restart *)

\* Another client changes one item on the server.
LEMMA RemoteHeld ==
    ASSUME CacheInv, HeldInv, NEW i \in Items, Held(i)',
           unsent'[i] = Nothing \/ unsent'[i] = unsent[i],
           \A j \in Items : j # i => server'[j] = server[j] /\ unsent'[j] = unsent[j],
           UNCHANGED <<rows, lookups, sync, collected, fetched, tasks, calls>>
    PROVE  HeldInv'
<1>1. TypeOK /\ LookupsFit /\ Refilling /\ InTurn /\ CallsFit /\ lookups \in Seq(Lookup)
  BY DEF HeldInv, CacheInv, Types, TypeOK
<1>2. \A j : Busy(j)' <=> Busy(j)
  BY DEF Busy
<1>3. LookupsFit'
  <2>1. LookupsCurrent'
    BY <1>1 DEF LookupsFit, LookupsCurrent
  <2>2. ASSUME NEW k \in 1 .. Len(lookups)
        PROVE  LookupFits(lookups[k], rows[lookups[k].item], unsent'[lookups[k].item])
    <3>1. lookups[k].item \in Items
      <4>1. lookups[k] \in Lookup
        BY <1>1, ElementOfSeq
      <4>2. QED
        BY <4>1 DEF Lookup
    <3>2. LookupFits(lookups[k], rows[lookups[k].item], unsent[lookups[k].item])
      BY <1>1 DEF LookupsFit
    <3>3. unsent'[lookups[k].item] = Nothing \/ unsent'[lookups[k].item] = unsent[lookups[k].item]
      BY <3>1
    <3>4. QED
      BY <3>2, <3>3 DEF LookupFits
  <2>3. QED
    BY <2>1, <2>2 DEF LookupsFit
<1>4. InTurn' /\ Refilling' /\ CallsFit' /\ Apart'
  <2>1. InTurn'
    BY <1>1, InTurnKept
  <2>2. Refilling'
    BY <1>1 DEF Refilling
  <2>3. Apart'
    BY <1>2, ApartKept DEF HeldInv, Replaying
  <2>4. QED
    BY <1>1, <2>1, <2>2, <2>3, CallsLeft
<1>5. ASSUME NEW j \in Items
      PROVE  Held(j)'
  <2>1. Held(j)
    BY DEF HeldInv
  <2>2. CASE j # i
    BY <1>2, <2>1, <2>2, HeldKept
  <2>3. QED
    BY <2>2
<1>6. QED
  BY <1>3, <1>4, <1>5 DEF HeldInv

\* What this client alone has created, no other client has; what it collected and the
\* server had not, it still has not.
LEMMA RemotePutHeld ==
    ASSUME Gentle, CacheInv, HeldInv, NEW i \in Items, RemotePut(i)
    PROVE  HeldInv'
<1>1. /\ server[i] # 0 \/ Unknown(i)
      /\ server' = [server EXCEPT ![i] = clock']
      /\ UNCHANGED <<rows, lookups, sync, collected, fetched, tasks, calls, unsent>>
  BY DEF RemotePut, Gentle, storageVars, syncVars
<1>2. \A j \in Items : j # i => server'[j] = server[j]
  BY <1>1 DEF CacheInv, Types, CacheTypeOK
<1>3. Held(i)
  BY DEF HeldInv
<1>4. (ToRefill(i)' <=> ToRefill(i)) /\ (ToMerge(i)' <=> ToMerge(i)) /\ Gathered' = Gathered
      /\ (Busy(i)' <=> Busy(i))
  BY <1>1 DEF ToRefill, ToMerge, Gathered, Busy
<1>5. rows[i].flag # "created" /\ collected[i].flag # "created"
  BY <1>1, <1>3, NoRowFlag DEF Held, Unknown
<1>6. (sync.renewed \/ ToMerge(i)) /\ collected[i] # NoRow => fetched[i] # 0
  BY <1>1, <1>3 DEF Held, HeldInRefill, HeldForMerge, Unknown
<1>7. sync.renewed => HeldInRefill(i)'
  <2>1. sync.renewed => HeldInRefill(i)
    BY <1>3 DEF Held
  <2>2. QED
    BY <1>1, <1>4, <1>6, <2>1 DEF HeldInRefill
<1>8. ToMerge(i) => HeldForMerge(i)'
  <2>1. ToMerge(i) => HeldForMerge(i)
    BY <1>3 DEF Held
  <2>2. ToMerge(i) => fetched[i] # 0
    BY <1>6 DEF ToMerge
  <2>3. QED
    BY <1>1, <1>4, <2>1, <2>2 DEF HeldForMerge
<1>9. HeldInCache(i) => HeldInCache(i)'
  BY <1>1, <1>4 DEF HeldInCache
<1>10. Held(i)'
  BY <1>1, <1>3, <1>4, <1>5, <1>7, <1>8, <1>9 DEF Held
<1>11. unsent'[i] = unsent[i] /\ \A j \in Items : unsent'[j] = unsent[j]
  BY <1>1
<1>12. QED
  BY <1>1, <1>2, <1>10, <1>11, RemoteHeld

LEMMA RemoteDeleteHeld ==
    ASSUME CacheInv, HeldInv, NEW i \in Items, RemoteDelete(i)
    PROVE  HeldInv'
<1>1. PICK u : u = IF unsent[i].kind = "delete" THEN Nothing ELSE unsent[i]
  OBVIOUS
<1>2. /\ server' = [server EXCEPT ![i] = 0]
      /\ unsent' = [unsent EXCEPT ![i] = u]
      /\ UNCHANGED <<rows, lookups, sync, collected, fetched, tasks, calls>>
  BY <1>1 DEF RemoteDelete, vars, syncVars
<1>3. /\ server \in [Items -> 0 .. MaxVersion]
      /\ unsent \in [Items -> [kind : {"none", "put", "delete"}, ver : 0 .. MaxVersion]]
  BY DEF CacheInv, Types, CacheTypeOK
<1>4. /\ server'[i] = 0 /\ unsent'[i] = u
      /\ \A j \in Items : j # i => server'[j] = server[j] /\ unsent'[j] = unsent[j]
  BY <1>2, <1>3
<1>5. (ToRefill(i)' <=> ToRefill(i)) /\ (ToMerge(i)' <=> ToMerge(i)) /\ Gathered' = Gathered
      /\ (Busy(i)' <=> Busy(i))
  BY <1>2 DEF ToRefill, ToMerge, Gathered, Busy
<1>6. \A row : Holds(row, unsent[i]) => Holds(row, unsent'[i])
  BY <1>1, <1>4 DEF Holds
<1>7. Held(i)
  BY DEF HeldInv
<1>8. HeldInRefill(i) => HeldInRefill(i)'
  BY <1>2, <1>4, <1>5, <1>6 DEF HeldInRefill
<1>9. HeldForMerge(i) => HeldForMerge(i)'
  BY <1>2, <1>4, <1>5, <1>6 DEF HeldForMerge
<1>10. HeldInCache(i) => HeldInCache(i)'
  BY <1>2, <1>5, <1>6 DEF HeldInCache
<1>11. Held(i)'
  BY <1>2, <1>4, <1>5, <1>7, <1>8, <1>9, <1>10 DEF Held
<1>12. unsent'[i] = Nothing \/ unsent'[i] = unsent[i]
  BY <1>1, <1>4
<1>13. QED
  BY <1>2, <1>4, <1>11, <1>12, RemoteHeld

\* The row the oldest lookup is about, and what the lookup is for.
LEMMA AnsweredFits ==
    ASSUME CacheInv, HeldInv, NEW op, Answered(op)
    PROVE  \E i \in Items :
               LET l == Head(lookups) IN
               /\ i = l.item /\ l \in Lookup /\ l.op = op /\ l.seen = rows[i].flag
               /\ LookupFits(l, rows[i], unsent[i])
               /\ rows \in [Items -> Row] /\ rows[i] \in Row /\ TypeOK /\ LookupsFit
               /\ Busy(i) /\ ~ToMerge(i) /\ lookups # <<>> /\ sync.phase \in {"idle", "merge"}
               /\ Held(i) /\ \A c \in calls : c.item # i
<1>1. PICK l : l = Head(lookups)
  OBVIOUS
<1>2. TypeOK /\ LookupsFit /\ InTurn /\ Refilling /\ rows \in [Items -> Row]
  BY DEF HeldInv, CacheInv, Types, TypeOK
<1>3. /\ l \in Lookup /\ l.item \in Items /\ l.op = op /\ l.seen \in Flags
      /\ Len(lookups) >= 1 /\ l = lookups[1] /\ lookups # <<>>
  BY <1>1, <1>2, AnsweredHead DEF Answered
<1>4. 1 \in 1 .. Len(lookups)
  BY <1>2, <1>3, LenProperties DEF TypeOK
<1>5. l.seen # Unread
  BY <1>3 DEF Flags, Unread
<1>6. l.seen = rows[l.item].flag /\ LookupFits(l, rows[l.item], unsent[l.item])
  BY <1>2, <1>3, <1>4, <1>5 DEF LookupsFit, LookupsCurrent
<1>7. Busy(l.item)
  BY <1>3, <1>4 DEF Busy
<1>8. sync.phase \in {"idle", "merge"} /\ ~sync.renewed
  BY <1>2, <1>3 DEF InTurn, Refilling
<1>9. Held(l.item) /\ ~ToMerge(l.item)
  BY <1>3, <1>7 DEF HeldInv, Held, HeldForMerge
<1>10. ASSUME NEW c \in calls
       PROVE  c.item # l.item
  <2>1. c.by # User
    BY <1>2, <1>3 DEF InTurn
  <2>2. c.by \in Slots /\ tasks[c.by] # NoTask
    BY <2>1, CallsBelong
  <2>3. Busy(c.item) /\ c.item \in Items => rows[c.item].flag = "none"
    BY <2>2 DEF HeldInv, Apart, Replaying
  <2>4. rows[c.item].flag # "none"
    BY <2>1 DEF HeldInv, CallsFit, CallFits
  <2>5. QED
    BY <1>3, <1>7, <2>3, <2>4
<1>11. QED
  BY <1>1, <1>2, <1>3, <1>6, <1>7, <1>8, <1>9, <1>10

LEMMA CallbackHeld ==
    ASSUME CacheInv, HeldInv, StorageCallback
    PROVE  HeldInv'
<1>1. /\ UNCHANGED <<sync, collected, fetched, tasks, calls, server, unsent>>
      /\ TypeOK /\ LookupsFit /\ InTurn /\ Refilling /\ CallsFit
  BY DEF StorageCallback, cacheVars, syncVars, HeldInv, CacheInv, Types
<1>2. CASE ReadFlag
  <2>1. LookupsFit' /\ \A j : Busy(j)' <=> Busy(j)
    BY <1>1, <1>2, LookupsRead
  <2>2. rows' = rows
    BY <1>2 DEF ReadFlag
  <2>3. lookups # <<>>
    <3>1. PICK k \in 1 .. Len(lookups) : TRUE
      BY <1>2 DEF ReadFlag
    <3>2. QED
      BY <3>1
  <2>4. InTurn' /\ Refilling' /\ CallsFit' /\ Apart'
    <3>1. InTurn'
      BY <1>1, <2>3 DEF InTurn
    <3>2. Refilling'
      BY <1>1 DEF Refilling
    <3>3. CallsFit'
      BY <1>1, <2>2, CallsLeft
    <3>4. Apart'
      BY <1>1, <2>1, <2>2, ApartKept DEF HeldInv, Replaying
    <3>5. QED
      BY <3>1, <3>2, <3>3, <3>4
  <2>5. ASSUME NEW j \in Items
        PROVE  Held(j)'
    <3>1. Held(j)
      BY DEF HeldInv
    <3>2. Held(j)'
      BY <1>1, <2>1, <2>2, <3>1, HeldKept
    <3>3. QED
      BY <1>1, <2>2, <3>2
  <2>6. QED
    BY <2>1, <2>4, <2>5 DEF HeldInv
\* A callback that writes the row and is done leaves it as the user wants it.
<1>3. ASSUME NEW op, Answered(op), NEW i \in Items, i = Head(lookups).item, ~ToMerge(i),
             \A c \in calls : c.item # i, lookups # <<>>, sync.phase \in {"idle", "merge"},
             LookupsFit', \A j : j # i => (Busy(j)' <=> Busy(j)),
             NEW row \in Row, rows' = [rows EXCEPT ![i] = row],
             ~Busy(i)' => Holds(row, unsent[i]),
             Busy(i)' => row.flag = rows[i].flag /\ Busy(i),
             row.flag = "created" => server[i] = 0
      PROVE  HeldInv'
  <2>1. rows'[i] = row /\ \A j \in Items : j # i => rows'[j] = rows[j]
    BY <1>1, <1>3 DEF TypeOK
  <2>2. InTurn' /\ CallsFit' /\ Apart'
    <3>1. InTurn'
      BY <1>1, <1>3 DEF InTurn
    <3>2. CallsFit'
      <4>1. \A c \in calls : c.item \in Items
        BY DEF CacheInv, Types, CacheTypeOK, ProviderCall
      <4>2. QED
        BY <1>1, <1>3, <2>1, <4>1, CallsLeft
    <3>3. Apart'
      BY <1>1, <1>3, <2>1 DEF HeldInv, Apart, Replaying
    <3>4. QED
      BY <3>1, <3>2, <3>3
  <2>3. ~Busy(i)' => Holds(rows'[i], unsent'[i])
    BY <1>1, <1>3, <2>1
  <2>4. rows'[i].flag = "created" => server'[i] = 0
    BY <1>1, <1>3, <2>1
  <2>5. QED
    BY <1>1, <1>3, <2>1, <2>2, <2>3, <2>4, ItemWritten
<1>4. CASE DoModifyItem
  <2>1. PICK i \in Items :
            LET l == Head(lookups) IN
            /\ i = l.item /\ l \in Lookup /\ l.op = "modify" /\ l.seen = rows[i].flag
            /\ LookupFits(l, rows[i], unsent[i])
            /\ rows \in [Items -> Row] /\ rows[i] \in Row /\ TypeOK /\ LookupsFit
            /\ Busy(i) /\ ~ToMerge(i) /\ lookups # <<>> /\ sync.phase \in {"idle", "merge"}
            /\ Held(i) /\ \A c \in calls : c.item # i
    BY <1>4, AnsweredFits DEF DoModifyItem
  <2>2. PICK l \in Lookup : l = Head(lookups)
    BY <2>1
  <2>3. PICK row : row = WithFlag(Flushed(l.ver), l.seen)
    OBVIOUS
  <2>4. /\ Answered("modify") /\ rows' = [rows EXCEPT ![i] = row]
        /\ lookups' = IF l.chain
                        THEN Append(Tail(lookups), [Head(lookups) EXCEPT !.op = "mark", !.seen = Unread])
                        ELSE Tail(lookups)
    BY <1>4, <2>1, <2>2, <2>3 DEF DoModifyItem
  <2>5. /\ l.op = "modify" /\ l.ver # 0 /\ l.ver \in 0 .. MaxVersion /\ l.seen = rows[i].flag
        /\ l.item = i /\ l.chain \in BOOLEAN /\ rows[i].flag \in Flags
        /\ LookupFits(l, rows[i], unsent[i])
    BY <2>1, <2>2 DEF Lookup, Row
  <2>6. row = [ver |-> l.ver, flag |-> rows[i].flag]
    BY <2>3, <2>5 DEF WithFlag, Flushed
  <2>7. row \in Row /\ row.ver = l.ver /\ row.flag = rows[i].flag
    BY <2>5, <2>6 DEF Row
  <2>8. row.flag = "created" => server[i] = 0
    BY <2>1, <2>7 DEF Held
  <2>9. rows'[i] = row /\ \A j \in Items : j # i => rows'[j] = rows[j]
    BY <2>1, <2>4 DEF TypeOK
  <2>10. CASE l.chain
    <3>1. lookups' = Append(Tail(lookups), [Head(lookups) EXCEPT !.op = "mark", !.seen = Unread])
      BY <2>4, <2>10
    <3>2. PICK m : m = [Head(lookups) EXCEPT !.op = "mark", !.seen = Unread]
      OBVIOUS
    <3>3. m.op = "mark"
      BY <2>2, <3>2 DEF Lookup
    <3>4. LookupFits(m, rows'[i], unsent'[i])
      BY <1>1, <2>5, <2>7, <2>9, <3>3 DEF LookupFits
    <3>5. LookupsFit' /\ Busy(i)' /\ \A j : j # i => (Busy(j)' <=> Busy(j))
      BY <1>1, <2>1, <2>4, <2>9, <3>1, <3>2, <3>4, LookupsChained
    <3>6. QED
      BY <1>3, <2>1, <2>4, <2>7, <2>8, <3>5
  <2>11. CASE ~l.chain
    <3>1. lookups' = Tail(lookups)
      BY <2>4, <2>11
    <3>2. LookupsFit' /\ ~Busy(i)' /\ \A j : j # i => (Busy(j)' <=> Busy(j))
      BY <1>1, <2>1, <2>4, <2>9, <3>1, LookupsShrink
    <3>3. Holds(row, unsent[i])
      BY <2>5, <2>11 DEF LookupFits, Holds
    <3>4. QED
      BY <1>3, <2>1, <2>4, <2>7, <2>8, <3>2, <3>3
  <2>12. QED
    BY <2>10, <2>11
<1>5. CASE FinishModifyOfflineItem
  <2>1. PICK i \in Items :
            LET l == Head(lookups) IN
            /\ i = l.item /\ l \in Lookup /\ l.op = "mark" /\ l.seen = rows[i].flag
            /\ LookupFits(l, rows[i], unsent[i])
            /\ rows \in [Items -> Row] /\ rows[i] \in Row /\ TypeOK /\ LookupsFit
            /\ Busy(i) /\ ~ToMerge(i) /\ lookups # <<>> /\ sync.phase \in {"idle", "merge"}
            /\ Held(i) /\ \A c \in calls : c.item # i
    BY <1>5, AnsweredFits DEF FinishModifyOfflineItem
  <2>2. PICK row : row = AfterModifyOffline(rows[i], rows[i].flag)
    OBVIOUS
  <2>3. /\ Answered("mark") /\ rows' = [rows EXCEPT ![i] = row] /\ lookups' = Tail(lookups)
    BY <1>5, <2>1, <2>2 DEF FinishModifyOfflineItem
  <2>4. /\ rows[i].ver # 0 /\ rows[i].flag # "deleted" /\ rows[i].flag \in Flags
        /\ unsent[i] = Nothing \/ unsent[i] = [kind |-> "put", ver |-> rows[i].ver]
    BY <2>1 DEF LookupFits, Row
  <2>5. row.ver = rows[i].ver /\ row.flag = IF rows[i].flag = "created" THEN "created" ELSE "modified"
    BY <2>1, <2>2, <2>4 DEF AfterModifyOffline, WithFlag, Row
  <2>6. row \in Row
    BY <2>1, <2>2, <2>4, RowHelpers
  <2>7. rows'[i] = row /\ \A j \in Items : j # i => rows'[j] = rows[j]
    BY <2>1, <2>3 DEF TypeOK
  <2>8. LookupsFit' /\ ~Busy(i)' /\ \A j : j # i => (Busy(j)' <=> Busy(j))
    BY <1>1, <2>1, <2>3, <2>7, LookupsShrink
  <2>9. Holds(row, unsent[i])
    BY <2>4, <2>5 DEF Holds
  <2>10. row.flag = "created" => server[i] = 0
    BY <2>1, <2>5 DEF Held
  <2>11. QED
    BY <1>3, <2>1, <2>3, <2>6, <2>8, <2>9, <2>10
<1>6. CASE FinishDeleteOfflineItem
  <2>1. PICK i \in Items :
            LET l == Head(lookups) IN
            /\ i = l.item /\ l \in Lookup /\ l.op = "remove" /\ l.seen = rows[i].flag
            /\ LookupFits(l, rows[i], unsent[i])
            /\ rows \in [Items -> Row] /\ rows[i] \in Row /\ TypeOK /\ LookupsFit
            /\ Busy(i) /\ ~ToMerge(i) /\ lookups # <<>> /\ sync.phase \in {"idle", "merge"}
            /\ Held(i) /\ \A c \in calls : c.item # i
    BY <1>6, AnsweredFits DEF FinishDeleteOfflineItem
  <2>2. PICK row : row = AfterDeleteOffline(rows[i], rows[i].flag)
    OBVIOUS
  <2>3. /\ Answered("remove") /\ rows' = [rows EXCEPT ![i] = row] /\ lookups' = Tail(lookups)
    BY <1>6, <2>1, <2>2 DEF FinishDeleteOfflineItem
  <2>4. /\ rows[i].ver # 0 /\ rows[i].flag # "deleted" /\ rows[i].flag \in Flags
        /\ unsent[i] = Nothing \/ (unsent[i].kind = "delete" /\ rows[i].flag # "created")
    BY <2>1 DEF LookupFits, Row
  <2>5. /\ rows[i].flag = "created" => row = NoRow /\ unsent[i] = Nothing
        /\ rows[i].flag # "created" => row.flag = "deleted" /\ row.ver = rows[i].ver
    <3>1. rows[i].flag = "created" => row = NoRow /\ unsent[i] = Nothing
      BY <2>2, <2>4 DEF AfterDeleteOffline, Nothing
    <3>2. rows[i].flag # "created" => row.flag = "deleted" /\ row.ver = rows[i].ver
      BY <2>1, <2>2, <2>4 DEF AfterDeleteOffline, WithFlag, Row
    <3>3. QED
      BY <3>1, <3>2
  <2>6. row \in Row
    BY <2>1, <2>2, <2>4, RowHelpers
  <2>7. rows'[i] = row /\ \A j \in Items : j # i => rows'[j] = rows[j]
    BY <2>1, <2>3 DEF TypeOK
  <2>8. LookupsFit' /\ ~Busy(i)' /\ \A j : j # i => (Busy(j)' <=> Busy(j))
    BY <1>1, <2>1, <2>3, <2>7, LookupsShrink
  <2>9. Holds(row, unsent[i])
    BY <2>4, <2>5 DEF Holds
  <2>10. row.flag # "created"
    BY <2>5, NoRowFlag
  <2>11. QED
    BY <1>3, <2>1, <2>3, <2>6, <2>8, <2>9, <2>10
<1>7. QED
  BY <1>2, <1>4, <1>5, <1>6 DEF StorageCallback

\* The program is restarted when nothing is on its way.
LEMMA RestartHeld ==
    ASSUME Gentle, CacheInv, HeldInv, RestartCache
    PROVE  HeldInv'
<1>1. /\ Calm /\ lookups' = <<>> /\ calls' = {} /\ sync' = Idle
      /\ collected' = [i \in Items |-> NoRow]
      /\ tasks' = [s \in Slots |-> NoTask]
      /\ UNCHANGED <<rows, server, unsent>>
  BY DEF RestartCache, Gentle
<1>2. sync'.phase = "idle" /\ ~sync'.renewed /\ sync'.loops = <<>> /\ sync'.op = "none"
  BY <1>1 DEF Idle
<1>3. InTurn' /\ Refilling' /\ CallsFit' /\ LookupsFit' /\ Apart'
  <2>1. InTurn'
    BY <1>1, <1>2 DEF InTurn
  <2>2. Refilling'
    BY <1>2 DEF Refilling, Kinds
  <2>3. QED
    BY <1>1, <2>1, <2>2, NoCallsNext, NoLookupsNext, ApartVoid
<1>4. ASSUME NEW i \in Items
      PROVE  Held(i)'
  <2>1. sync.phase = "idle" /\ ~Busy(i) /\ ~ToMerge(i) /\ Held(i) /\ TypeOK
    BY <1>1, CalmState
  <2>2. ~sync.renewed
    BY <2>1 DEF HeldInv, Refilling
  <2>3. Holds(rows[i], unsent[i])
    BY <2>1, <2>2 DEF Held, HeldInCache
  <2>4. ~ToMerge(i)' /\ Gathered' = {} /\ collected'[i] = NoRow
    BY <1>1, <1>2 DEF ToMerge, Gathered
  <2>5. HeldInCache(i)'
    BY <1>1, <2>3, <2>4 DEF HeldInCache
  <2>6. Held(i)'
    BY <1>1, <1>2, <2>1, <2>4, <2>5, NoRowFlag DEF Held
  <2>7. QED
    BY <1>1, <2>1, <2>6
<1>5. QED
  BY <1>3, <1>4 DEF HeldInv

-----------------------------------------------------------------------------
(* The theorems about what the user changed *)

LEMMA HeldInvStep ==
    ASSUME Gentle, CacheInv, HeldInv, [CacheNext]_allVars
    PROVE  HeldInv'
<1>1. TypeOK
  BY DEF CacheInv, Types
<1>2. CASE Refresh
  <2>1. UNCHANGED <<rows, lookups, sync, collected, fetched, tasks, calls, server, unsent>>
    BY <1>2 DEF Refresh, RefreshOnline, Synchronize, vars, syncVars
  <2>2. QED
    BY <1>1, <2>1, NothingMoves
<1>3. CASE GoOffline \/ GoOnline \/ UNCHANGED allVars
  BY <1>1, <1>3, NothingMoves
     DEF GoOffline, GoOnline, RefreshOnline, vars, syncVars, allVars, cacheVars
<1>4. CASE GetAnswer
  <2>1. ASSUME GetCompleted("failed")
        PROVE  FALSE
    BY <2>1 DEF GetCompleted, Gentle
  <2>2. QED
    BY <1>4, <2>1, ResultHeld, CompletedHeld DEF GetAnswer
<1>5. CASE UserCallAnswer \/ PlaybackAnswer
  BY <1>5, UserSucceedsHeld, UserFailsHeld, SucceedsHeld, FailsHeld DEF UserCallAnswer, PlaybackAnswer
<1>6. CASE \E s \in Slots : PlaybackGet(s)
  BY <1>6, PlaybackGetHeld
<1>7. CASE \E i \in Items : RemotePut(i) \/ RemoteDelete(i)
  BY <1>7, RemotePutHeld, RemoteDeleteHeld
<1>8. QED
  BY <1>2, <1>3, <1>4, <1>5, <1>6, <1>7, LoadedHeld, CollectHeld, AddHeld, LoopHeld, MergeHeld,
     MergedHeld, EditHeld, CallbackHeld, RestartHeld DEF CacheNext

LEMMA HeldInvInit == CacheInit => HeldInv
<1> SUFFICES ASSUME CacheInit
             PROVE  HeldInv
  OBVIOUS
<1>1. /\ lookups = <<>> /\ calls = {} /\ sync = Idle /\ rows = [i \in Items |-> Flushed(server[i])]
      /\ tasks = [s \in Slots |-> NoTask] /\ collected = [i \in Items |-> NoRow]
      /\ unsent = [i \in Items |-> Nothing]
  BY DEF CacheInit
<1>2. sync.phase = "idle" /\ ~sync.renewed /\ sync.loops = <<>> /\ sync.op = "none"
  BY <1>1 DEF Idle
<1>3. InTurn /\ Refilling /\ CallsFit /\ LookupsFit /\ Apart
  BY <1>1, <1>2, NoLookups DEF InTurn, Refilling, Kinds, CallsFit, Apart
<1>4. ASSUME NEW i \in Items
      PROVE  Held(i)
  <2>1. rows[i] = Flushed(server[i]) /\ collected[i] = NoRow /\ unsent[i] = Nothing
    BY <1>1
  <2>2. ~ToMerge(i) /\ Gathered = {}
    BY <1>2 DEF ToMerge, Gathered
  <2>3. HeldInCache(i)
    BY <2>1, <2>2 DEF HeldInCache, Holds
  <2>4. QED
    BY <1>2, <2>1, <2>2, <2>3, NoRowFlag DEF Held
<1>5. QED
  BY <1>3, <1>4 DEF HeldInv

LEMMA HeldMeans ==
    ASSUME CacheInv, HeldInv
    PROVE  UnsentHeld
<1> SUFFICES ASSUME NEW i \in Items, unsent[i] # Nothing, ~Busy(i)
             PROVE  \E row \in {rows[i]} \cup {r \in {collected[i]} : sync.phase # "idle"} :
                        /\ row.flag \in IF unsent[i].kind = "put" THEN {"created", "modified"}
                                        ELSE {"deleted"}
                        /\ row.flag = "deleted" \/ row.ver = unsent[i].ver
  BY DEF UnsentHeld
<1>1. \A row : Holds(row, unsent[i])
          => /\ row.flag \in IF unsent[i].kind = "put" THEN {"created", "modified"} ELSE {"deleted"}
             /\ row.flag = "deleted" \/ row.ver = unsent[i].ver
  BY DEF Holds
<1>2. Held(i) /\ Refilling
  BY DEF HeldInv
<1>3. CASE sync.renewed \/ ToMerge(i)
  <2>1. Holds(collected[i], unsent[i]) /\ sync.phase # "idle"
    BY <1>2, <1>3 DEF Held, HeldInRefill, HeldForMerge, ToMerge, Refilling
  <2>2. QED
    BY <1>1, <2>1
<1>4. CASE ~sync.renewed /\ ~ToMerge(i)
  <2>1. Holds(rows[i], unsent[i])
    BY <1>2, <1>4 DEF Held, HeldInCache
  <2>2. QED
    BY <1>1, <2>1
<1>5. QED
  BY <1>3, <1>4

\* calCachedCalendar.js:310-480 (the full sync and its merge) and 482-612 (playback): as
\* long as the user edits between syncs and of the provider's calls only deletions fail,
\* no offline change is lost: it is flagged in the cache, or collected by a sync that has
\* wiped the cache, or about to be written by a lookup's callback.
THEOREM OfflineChangesHeld == Gentle => (CacheSpec => []UnsentHeld)
<1> SUFFICES ASSUME Gentle
             PROVE  CacheSpec => []UnsentHeld
  OBVIOUS
<1>1. CacheInv /\ HeldInv /\ [CacheNext]_allVars => HeldInv'
  BY HeldInvStep
<1>2. CacheInit => HeldInv
  BY HeldInvInit
<1>3. CacheInv /\ HeldInv => UnsentHeld
  BY HeldMeans
<1>4. QED
  BY <1>1, <1>2, <1>3, CacheInvInductive, PTL DEF CacheSpec

-----------------------------------------------------------------------------
(* What is acknowledged is current: the inductive invariant *)

\* The user edits, and the provider answers, one thing after the other; anything may
\* fail, the process may die, and ids may come back.
InOrder == Disturbances \cap {"edits", "reorder"} = {}

Dirty(row) == row.flag \in {"created", "modified"}

Marked(i) == \E k \in 1 .. Len(lookups) : lookups[k].item = i /\ lookups[k].op = "mark"

\* Row i is dirty, or a lookup's callback will make it so.
Changed(i) == Dirty(rows[i]) \/ Marked(i)

\* While the user waits for the provider nothing else is on its way.
UserAlone ==
    \A c \in calls : c.by = User =>
        /\ calls = {c} /\ sync.phase = "idle" /\ lookups = <<>>
        /\ \A s \in Slots : tasks[s] = NoTask
        /\ c.op = "add" => ~Dirty(rows[c.item])

\* Nor while a modification waits for the flag to be read.
ModifyAlone ==
    \A k \in 1 .. Len(lookups) : lookups[k].op = "modify" =>
        /\ Len(lookups) = 1 /\ calls = {} /\ sync.phase = "idle"
        /\ \A s \in Slots : tasks[s] = NoTask
        /\ lookups[k].seen # Unread => lookups[k].seen = rows[lookups[k].item].flag

\* Between the wipe and an item's turn in the merge its row is not dirty; where there
\* was no wipe the provider had nothing.
RefillClean ==
    /\ sync.phase \notin {"idle", "merge"} => lookups = <<>>
    /\ sync.loops # <<>> => sync.renewed
    /\ sync.renewed => sync.phase \in {"asked", "answered"}
    /\ sync.phase \in Kinds \cup {"asked"} /\ ~sync.renewed => \A i \in Items : fetched[i] = 0
    /\ sync.renewed => \A i \in Items : ~Changed(i)
    /\ \A i \in Items : ToMerge(i) /\ Changed(i) => fetched[i] = 0

\* The contents of item i that playbacks have given to the provider.
Given(i) == {c \in calls : c.item = i /\ c.by # User /\ c.op # "delete"}

Has(i, v) == Changed(i) => rows[i].ver \in {0, v}

\* What the provider was given, what the row has and what a sync has collected of it
\* is one content.
OneContent(i) ==
    /\ \A c \in Given(i) : Has(i, c.ver)
    /\ sync.phase # "idle" /\ Dirty(collected[i]) =>
           /\ Has(i, collected[i].ver)
           /\ \A c \in Given(i) : c.ver = collected[i].ver

GivenInv == UserAlone /\ ModifyAlone /\ RefillClean /\ \A i \in Items : OneContent(i)

\* AcksCurrent of item i, which a step that leaves the item its flag cannot violate.
Acked(i) ==
    rows[i].flag \in {"created", "modified"} /\ rows'[i] = WithFlag(rows[i], "none")
    => server'[i] = rows[i].ver

LEMMA FlagKeeps ==
    ASSUME TypeOK, NEW i \in Items,
           rows[i].flag = "none" \/ rows'[i].flag = rows[i].flag
             \/ rows'[i].flag # "none" \/ rows'[i].ver = 0
    PROVE  Acked(i)
<1>1. rows[i] \in Row
  BY DEF TypeOK
<1>2. CASE rows[i].flag = "none"
  BY <1>2 DEF Acked
<1>3. CASE rows[i].flag # "none"
  <2>1. rows[i].ver # 0
    BY <1>1, <1>3 DEF Row
  <2>2. WithFlag(rows[i], "none").flag = "none" /\ WithFlag(rows[i], "none").ver = rows[i].ver
    BY <1>1, <2>1 DEF WithFlag, Row
  <2>3. QED
    BY <1>3, <2>1, <2>2 DEF Acked
<1>4. QED
  BY <1>2, <1>3

GivenStep == GivenInv' /\ \A i \in Items : Acked(i)

LEMMA NothingMarked ==
    /\ lookups = <<>> => \A i : ~Marked(i)
    /\ lookups' = <<>> => ModifyAlone' /\ \A i : ~Marked(i)'
<1>1. ASSUME lookups = <<>>
      PROVE  \A i : ~Marked(i)
  <2>1. Len(lookups) = 0
    BY <1>1
  <2>2. QED
    BY <2>1 DEF Marked
<1>2. ASSUME lookups' = <<>>
      PROVE  ModifyAlone' /\ \A i : ~Marked(i)'
  <2>1. Len(lookups') = 0
    BY <1>2
  <2>2. QED
    BY <2>1 DEF Marked, ModifyAlone
<1>3. QED
  BY <1>1, <1>2

\* A row that is no dirtier than before, and no newer, agrees with what it agreed with.
LEMMA ContentKept ==
    ASSUME NEW i \in Items, OneContent(i), Given(i)' \subseteq Given(i),
           Changed(i)' => Changed(i) /\ rows'[i].ver \in {0, rows[i].ver},
           sync'.phase # "idle" /\ Dirty(collected'[i])
             => sync.phase # "idle" /\ collected'[i] = collected[i]
    PROVE  OneContent(i)'
<1>1. ASSUME NEW v, Has(i, v)
      PROVE  Has(i, v)'
  BY <1>1 DEF Has
<1>2. \A c \in Given(i)' : Has(i, c.ver)'
  BY <1>1 DEF OneContent
<1>3. ASSUME sync'.phase # "idle", Dirty(collected'[i])
      PROVE  Has(i, collected[i].ver)' /\ \A c \in Given(i)' : c.ver = collected'[i].ver
  <2>1. Dirty(collected[i]) /\ sync.phase # "idle" /\ collected'[i] = collected[i]
    BY <1>3
  <2>2. Has(i, collected[i].ver) /\ \A c \in Given(i) : c.ver = collected[i].ver
    BY <2>1 DEF OneContent
  <2>3. Has(i, collected[i].ver)'
    BY <1>1, <2>1, <2>2 DEF Has
  <2>4. QED
    BY <2>1, <2>2, <2>3
<1>4. QED
  BY <1>2, <1>3 DEF OneContent

\* While nothing is on its way there is nothing to agree with.
LEMMA NothingGiven ==
    ASSUME calls' = {}, sync'.phase = "idle"
    PROVE  UserAlone' /\ \A i \in Items : OneContent(i)'
BY DEF UserAlone, OneContent, Given

\* Neither while a sync is on its way nor while a playback is does the user wait.
LEMMA NobodyElse ==
    ASSUME GivenInv, sync.phase # "idle" \/ \E s \in Slots : tasks[s] # NoTask
    PROVE  \A c \in calls : c.by # User
BY DEF GivenInv, UserAlone

LEMMA SyncAlone ==
    ASSUME GivenInv, sync.phase # "idle"
    PROVE  \A k \in 1 .. Len(lookups) : lookups[k].op # "modify"
BY DEF GivenInv, ModifyAlone

\* Steps that touch neither the items nor what is on its way about them.
LEMMA GivenSame ==
    ASSUME TypeOK, GivenInv, rows' = rows, lookups' = lookups, sync' = sync,
           collected' = collected, fetched' = fetched, tasks' = tasks, calls' = calls
    PROVE  GivenStep
<1>1. UserAlone'
  BY DEF GivenInv, UserAlone
<1>2. ModifyAlone'
  BY DEF GivenInv, ModifyAlone
<1>3. \A i : Changed(i)' <=> Changed(i)
  BY DEF Changed, Marked
<1>4. RefillClean'
  BY <1>3 DEF GivenInv, RefillClean, ToMerge
<1>5. \A i \in Items : OneContent(i)' /\ Acked(i)
  BY <1>3, ContentKept, FlagKeeps DEF GivenInv, Given
<1>6. QED
  BY <1>1, <1>2, <1>4, <1>5 DEF GivenInv, GivenStep

-----------------------------------------------------------------------------
(* The steps of a sync, and what is acknowledged *)

LEMMA LoadedGiven ==
    ASSUME InOrder, CacheInv, GivenInv, UncachedLoaded
    PROVE  GivenStep
<1>1. /\ UNCHANGED <<rows, lookups, tasks, calls>>
      /\ lookups = <<>> /\ \A c \in calls : c.by # User
      /\ Synchronize /\ TypeOK
  BY DEF UncachedLoaded, vars, MayAnswerGet, MayAnswer, InOrder, CacheInv, Types
<1>2. CASE UNCHANGED <<sync, collected, fetched>>
  BY <1>1, <1>2, GivenSame
<1>3. CASE /\ sync' = [Idle EXCEPT !.phase = "created"] /\ collected' = [i \in Items |-> NoRow]
           /\ fetched' = [i \in Items |-> 0]
  <2>1. sync'.phase = "created" /\ ~sync'.renewed /\ sync'.loops = <<>>
    BY <1>3 DEF Idle
  <2>2. lookups' = <<>> /\ \A i : ~Marked(i)' /\ ~Marked(i)
    BY <1>1, NothingMarked
  <2>3. UserAlone'
    BY <1>1 DEF UserAlone
  <2>4. RefillClean'
    BY <1>3, <2>1, <2>2 DEF RefillClean, ToMerge
  <2>5. ASSUME NEW i \in Items
        PROVE  OneContent(i)' /\ Acked(i)
    <3>1. ~Dirty(collected'[i])
      BY <1>3, NoRowFlag DEF Dirty
    <3>2. Given(i)' \subseteq Given(i)
      BY <1>1 DEF Given
    <3>3. Changed(i)' <=> Changed(i)
      BY <1>1, <2>2 DEF Changed
    <3>4. QED
      BY <1>1, <3>1, <3>2, <3>3, ContentKept, FlagKeeps DEF GivenInv
  <2>6. QED
    BY <2>2, <2>3, <2>4, <2>5, NothingMarked DEF GivenInv, GivenStep
<1>4. QED
  BY <1>1, <1>2, <1>3 DEF Synchronize

\* What is collected is what the row has, and so what a playback has given.
LEMMA CollectGiven ==
    ASSUME CacheInv, GivenInv, CollectOffline
    PROVE  GivenStep
<1>1. /\ sync.phase \in {"created", "modified", "deleted"}
      /\ collected' = [i \in Items |-> IF i \in Selected(sync.phase) THEN rows[i] ELSE collected[i]]
      /\ sync' = [sync EXCEPT !.phase = AfterCollecting[sync.phase]]
      /\ UNCHANGED <<rows, lookups, fetched, tasks, calls>>
  BY DEF CollectOffline, vars, Kinds
<1>2. /\ TypeOK /\ sync \in Sync /\ ~sync.renewed /\ lookups = <<>>
      /\ sync.phase \notin {"idle", "merge"}
      /\ \A c \in calls : c.by # User
  BY <1>1, NobodyElse DEF GivenInv, RefillClean, CacheInv, Types, CacheTypeOK
<1>3. /\ sync'.phase = AfterCollecting[sync.phase] /\ sync'.renewed = sync.renewed
      /\ sync'.loops = sync.loops
  BY <1>1, <1>2 DEF Sync
<1>4. sync'.phase \in {"modified", "deleted", "asked"}
  BY <1>1, <1>3 DEF AfterCollecting
<1>5. \A i : ~Marked(i)' /\ ~Marked(i)
  BY <1>1, <1>2, NothingMarked
<1>6. UserAlone' /\ ModifyAlone'
  BY <1>1, <1>2, NothingMarked DEF UserAlone
<1>7. RefillClean'
  BY <1>1, <1>2, <1>3, <1>4 DEF GivenInv, RefillClean, ToMerge, Kinds
<1>8. ASSUME NEW i \in Items
      PROVE  OneContent(i)' /\ Acked(i)
  <2>1. Acked(i) /\ OneContent(i)
    BY <1>1, <1>2, FlagKeeps DEF GivenInv
  <2>2. Given(i)' \subseteq Given(i) /\ (Changed(i)' <=> Changed(i))
    BY <1>1, <1>5 DEF Given, Changed
  <2>3. CASE i \notin Selected(sync.phase)
    <3>1. collected'[i] = collected[i]
      BY <1>1, <2>3
    <3>2. OneContent(i)'
      BY <1>1, <1>2, <2>1, <2>2, <3>1, ContentKept
    <3>3. QED
      BY <2>1, <3>2
  <2>4. CASE i \in Selected(sync.phase)
    <3>1. collected'[i] = rows[i] /\ rows[i].ver # 0
      BY <1>1, <2>4 DEF Selected, Present
    <3>2. \A c \in Given(i)' : Has(i, c.ver) /\ Has(i, c.ver)'
      BY <1>1, <2>1, <2>2 DEF OneContent, Has
    <3>3. Has(i, collected[i].ver)'
      BY <1>1, <3>1 DEF Has
    <3>4. Dirty(collected'[i]) => \A c \in Given(i)' : c.ver = collected'[i].ver
      BY <3>1, <3>2 DEF Has, Changed
    <3>5. OneContent(i)'
      BY <3>2, <3>3, <3>4 DEF OneContent
    <3>6. QED
      BY <2>1, <3>5
  <2>5. QED
    BY <2>3, <2>4
<1>9. QED
  BY <1>6, <1>7, <1>8 DEF GivenInv, GivenStep

\* From the provider's first answer to the merge a row is only ever made clean.
LEMMA RefillGiven ==
    ASSUME CacheInv, GivenInv, sync.phase \in {"asked", "answered"},
           sync'.phase \in {"asked", "answered"},
           sync'.loops # <<>> => sync'.renewed,
           \A i \in Items : rows'[i] = rows[i] \/ ~Dirty(rows'[i]),
           sync'.renewed => \A i \in Items : ~Dirty(rows'[i]),
           \A i \in Items : Acked(i),
           sync'.phase = "asked" /\ ~sync'.renewed => \A i \in Items : fetched'[i] = 0,
           UNCHANGED <<lookups, collected, calls>>
    PROVE  GivenStep
<1>1. lookups = <<>> /\ \A c \in calls : c.by # User
  BY NobodyElse DEF GivenInv, RefillClean
<1>2. \A i : ~Marked(i)' /\ ~Marked(i)
  BY <1>1, NothingMarked
<1>3. UserAlone' /\ ModifyAlone'
  BY <1>1, NothingMarked DEF UserAlone
<1>4. RefillClean'
  BY <1>1, <1>2 DEF RefillClean, ToMerge, Changed, Kinds
<1>5. ASSUME NEW i \in Items
      PROVE  OneContent(i)'
  <2>1. Given(i)' \subseteq Given(i) /\ OneContent(i)
    BY DEF Given, GivenInv
  <2>2. Changed(i)' => Changed(i) /\ rows'[i].ver \in {0, rows[i].ver}
    BY <1>2 DEF Changed
  <2>3. QED
    BY <2>1, <2>2, ContentKept
<1>6. QED
  BY <1>3, <1>4, <1>5 DEF GivenInv, GivenStep

LEMMA ResultGiven ==
    ASSUME CacheInv, GivenInv, NEW batch \in SUBSET Items, GetResult(batch)
    PROVE  GivenStep
<1>1. PICK rest : rest = IF sync.renewed THEN sync.rest ELSE {i \in Items : server[i] # 0}
  OBVIOUS
<1>2. /\ sync.phase = "asked"
      /\ IF sync.renewed THEN rows' = rows ELSE rows' = [i \in Items |-> NoRow]
      /\ sync' = [sync EXCEPT !.renewed = TRUE, !.batches = sync.batches + 1, !.rest = rest \ batch,
                              !.loops = Append(sync.loops, batch)]
      /\ UNCHANGED <<lookups, collected, calls>>
  BY <1>1 DEF GetResult, Wipe
<1>3. TypeOK /\ sync \in Sync /\ RefillClean
  BY DEF CacheInv, Types, CacheTypeOK, GivenInv
<1>4. sync'.phase = "asked" /\ sync'.renewed
  BY <1>2, <1>3 DEF Sync
<1>5. ASSUME NEW i \in Items
      PROVE  ~Dirty(rows'[i]) /\ Acked(i)
  <2>1. CASE sync.renewed
    <3>1. rows'[i] = rows[i] /\ ~Dirty(rows[i])
      BY <1>2, <1>3, <2>1 DEF RefillClean, Changed
    <3>2. QED
      BY <1>3, <3>1, FlagKeeps
  <2>2. CASE ~sync.renewed
    <3>1. rows'[i] = NoRow
      BY <1>2, <2>2
    <3>2. rows'[i].flag = "none" /\ rows'[i].ver = 0
      BY <3>1, NoRowFlag
    <3>3. QED
      BY <1>3, <3>2, FlagKeeps DEF Dirty
  <2>3. QED
    BY <2>1, <2>2
<1>6. QED
  BY <1>2, <1>4, <1>5, RefillGiven

LEMMA AddGiven ==
    ASSUME CacheInv, GivenInv, AddFetched
    PROVE  GivenStep
<1>1. PICK k \in DOMAIN sync.loops : \E i \in sync.loops[k] :
          /\ Store(i, Flushed(fetched[i]), "none")
          /\ sync' = [sync EXCEPT !.loops[k] = @ \ {i}]
          /\ UNCHANGED <<lookups, collected, calls>>
  BY DEF AddFetched
<1>2. PICK i \in sync.loops[k] :
          /\ Store(i, Flushed(fetched[i]), "none")
          /\ sync' = [sync EXCEPT !.loops[k] = @ \ {i}]
          /\ UNCHANGED <<lookups, collected, calls>>
  BY <1>1
<1>3. sync \in Sync /\ sync.loops \in Seq(SUBSET Items) /\ TypeOK /\ rows \in [Items -> Row]
  BY DEF CacheInv, Types, CacheTypeOK, Sync, TypeOK
<1>4. sync.loops # <<>> /\ i \in Items
  BY <1>3
<1>5. sync.renewed /\ sync.phase \in {"asked", "answered"} /\ \A j \in Items : ~Dirty(rows[j])
  BY <1>4 DEF GivenInv, RefillClean, Changed
<1>6. sync'.phase = sync.phase /\ sync'.renewed = sync.renewed
  BY <1>2, <1>3 DEF Sync
<1>7. rows'[i] = Flushed(fetched[i]) /\ \A j \in Items : j # i => rows'[j] = rows[j]
  BY <1>2, <1>3, <1>4 DEF Store
<1>8. \A j \in Items : ~Dirty(rows'[j])
  BY <1>5, <1>7, NoRowFlag DEF Dirty
<1>9. \A j \in Items : Acked(j)
  BY <1>5 DEF Acked, Dirty
<1>10. QED
  BY <1>2, <1>5, <1>6, <1>8, <1>9, RefillGiven

\* The merge begins with clean rows, or the provider had nothing.
LEMMA MergeGiven ==
    ASSUME CacheInv, GivenInv, sync.phase \in {"asked", "answered"}, sync.renewed \/ sync.phase = "asked",
           sync' = [Idle EXCEPT !.phase = "merge"],
           UNCHANGED <<rows, lookups, collected, fetched, tasks, calls>>
    PROVE  GivenStep
<1>1. /\ lookups = <<>> /\ TypeOK /\ \A c \in calls : c.by # User
      /\ \A i \in Items : ~Changed(i) \/ fetched[i] = 0
  BY NobodyElse DEF GivenInv, RefillClean, CacheInv, Types
<1>2. sync'.phase = "merge" /\ ~sync'.renewed /\ sync'.loops = <<>>
  BY DEF Idle
<1>3. UserAlone' /\ ModifyAlone'
  BY <1>1, NothingMarked DEF UserAlone
<1>4. \A i : Changed(i)' <=> Changed(i)
  BY DEF Changed, Marked
<1>5. RefillClean'
  BY <1>1, <1>2, <1>4 DEF RefillClean, Kinds
<1>6. \A i \in Items : OneContent(i)' /\ Acked(i)
  BY <1>1, <1>4, ContentKept, FlagKeeps DEF GivenInv, Given
<1>7. QED
  BY <1>3, <1>5, <1>6 DEF GivenInv, GivenStep

\* A sync ends, after its merge or because the provider's getItems failed.
LEMMA SyncEndGiven ==
    ASSUME CacheInv, GivenInv, sync.phase # "idle", sync' = Idle,
           UNCHANGED <<rows, lookups, calls>>
    PROVE  GivenStep
<1>1. /\ TypeOK /\ \A c \in calls : c.by # User
      /\ \A k \in 1 .. Len(lookups) : lookups[k].op # "modify"
  BY NobodyElse, SyncAlone DEF CacheInv, Types
<1>2. sync'.phase = "idle" /\ ~sync'.renewed /\ sync'.loops = <<>>
  BY DEF Idle
<1>3. UserAlone' /\ ModifyAlone'
  BY <1>1 DEF UserAlone, ModifyAlone
<1>4. \A i : Changed(i)' <=> Changed(i)
  BY DEF Changed, Marked
<1>5. RefillClean'
  BY <1>2 DEF RefillClean, ToMerge, Kinds
<1>6. \A i \in Items : OneContent(i)' /\ Acked(i)
  BY <1>1, <1>2, <1>4, ContentKept, FlagKeeps DEF GivenInv, Given
<1>7. QED
  BY <1>3, <1>5, <1>6 DEF GivenInv, GivenStep

LEMMA OperationGiven ==
    ASSUME CacheInv, GivenInv, sync.phase \in {"asked", "answered"}, NEW status,
           OperationComplete(status), status = "ok" => sync.renewed \/ sync.phase = "asked",
           UNCHANGED <<rows, lookups, calls>>
    PROVE  GivenStep
<1>1. CASE status = "ok"
  BY <1>1, MergeGiven DEF OperationComplete
<1>2. CASE status # "ok"
  BY <1>2, SyncEndGiven DEF OperationComplete
<1>3. QED
  BY <1>1, <1>2

\* A sync that is still being answered or refilled.
LEMMA StillRefilling ==
    ASSUME CacheInv, GivenInv, sync.phase \in {"asked", "answered"},
           sync'.phase \in {"asked", "answered"}, sync'.renewed = sync.renewed,
           sync'.loops # <<>> => sync.loops # <<>>,
           sync'.phase = "asked" => sync.phase = "asked",
           UNCHANGED <<rows, lookups, collected, fetched, calls>>
    PROVE  GivenStep
<1>1. RefillClean /\ TypeOK
  BY DEF GivenInv, CacheInv, Types
<1>2. sync'.renewed => \A i \in Items : ~Dirty(rows'[i])
  BY <1>1 DEF RefillClean, Changed
<1>3. sync'.loops # <<>> => sync'.renewed
  BY <1>1 DEF RefillClean
<1>4. \A i \in Items : Acked(i)
  BY <1>1, FlagKeeps
<1>5. sync'.phase = "asked" /\ ~sync'.renewed => \A i \in Items : fetched'[i] = 0
  BY <1>1 DEF RefillClean
<1>6. QED
  BY <1>2, <1>3, <1>4, <1>5, RefillGiven

LEMMA CompletedGiven ==
    ASSUME CacheInv, GivenInv, NEW status \in {"ok", "failed"}, GetCompleted(status)
    PROVE  GivenStep
<1>1. /\ sync.phase = "asked"
      /\ UNCHANGED <<rows, lookups, calls>>
  BY DEF GetCompleted, vars
<1>2. CASE sync.loops = <<>>
  <2>1. OperationComplete(status)
    BY <1>2 DEF GetCompleted
  <2>2. QED
    BY <1>1, <2>1, OperationGiven
<1>3. CASE sync.loops # <<>>
  <2>1. sync' = [sync EXCEPT !.phase = "answered", !.op = status] /\ UNCHANGED <<collected, fetched>>
    BY <1>3 DEF GetCompleted
  <2>2. sync \in Sync
    BY DEF CacheInv, Types, CacheTypeOK
  <2>3. sync'.phase = "answered" /\ sync'.renewed = sync.renewed /\ sync'.loops = sync.loops
    BY <2>1, <2>2 DEF Sync
  <2>4. QED
    BY <1>1, <2>1, <2>3, StillRefilling
<1>4. QED
  BY <1>2, <1>3

LEMMA LoopGiven ==
    ASSUME CacheInv, GivenInv, LoopCompleted
    PROVE  GivenStep
<1>1. PICK k \in DOMAIN sync.loops :
          /\ IF sync.op # "none" /\ RemoveAt(sync.loops, k) = <<>> THEN OperationComplete(sync.op)
             ELSE /\ sync' = [sync EXCEPT !.loops = RemoveAt(sync.loops, k), !.op = "none"]
                  /\ UNCHANGED <<collected, fetched>>
          /\ UNCHANGED <<rows, lookups, calls>>
  BY DEF LoopCompleted, vars
<1>2. sync \in Sync /\ sync.loops \in Seq(SUBSET Items)
  BY DEF CacheInv, Types, CacheTypeOK, Sync
<1>3. sync.loops # <<>>
  BY <1>2
<1>4. sync.renewed /\ sync.phase \in {"asked", "answered"}
  BY <1>3 DEF GivenInv, RefillClean
<1>5. CASE sync.op # "none" /\ RemoveAt(sync.loops, k) = <<>>
  BY <1>1, <1>4, <1>5, OperationGiven
<1>6. CASE ~(sync.op # "none" /\ RemoveAt(sync.loops, k) = <<>>)
  <2>1. PICK left : left = RemoveAt(sync.loops, k)
    OBVIOUS
  <2>2. sync' = [sync EXCEPT !.loops = left, !.op = "none"] /\ UNCHANGED <<collected, fetched>>
    BY <1>1, <1>6, <2>1
  <2>3. sync'.phase = sync.phase /\ sync'.renewed = sync.renewed
    BY <1>2, <2>2 DEF Sync
  <2>4. QED
    BY <1>1, <1>3, <1>4, <2>2, <2>3, StillRefilling
<1>7. QED
  BY <1>5, <1>6

LEMMA MergedGiven ==
    ASSUME CacheInv, GivenInv, MergeCompleted
    PROVE  GivenStep
<1>1. sync.phase = "merge" /\ sync' = Idle /\ UNCHANGED <<rows, lookups, calls>>
  BY DEF MergeCompleted, vars
<1>2. QED
  BY <1>1, SyncEndGiven

\* What the next lookup is about.
LEMMA MarkedPosted ==
    ASSUME TypeOK, NEW op \in {"modify", "mark", "remove"}, NEW i \in Items,
           NEW v \in 0 .. MaxVersion, NEW chain \in BOOLEAN, op = "modify" => v # 0,
           PostLookup(op, i, v, chain)
    PROVE  /\ \A j : Marked(j)' => Marked(j) \/ (j = i /\ op = "mark")
           /\ op # "modify" /\ (\A k \in 1 .. Len(lookups) : lookups[k].op # "modify")
                => \A k \in 1 .. Len(lookups') : lookups'[k].op # "modify"
           /\ lookups = <<>> => Len(lookups') = 1 /\ lookups'[1].seen = Unread
<1>1. PICK l : l = [op |-> op, item |-> i, ver |-> v, chain |-> chain, seen |-> Unread]
  OBVIOUS
<1>2. PICK n \in Nat : n = Len(lookups)
  BY LenProperties DEF TypeOK
<1>3. /\ Len(lookups') = n + 1
      /\ \A k \in 1 .. n : lookups'[k] = lookups[k]
      /\ lookups'[n + 1] = l
  <2>1. lookups \in Seq(Lookup)
    BY DEF TypeOK
  <2>2. /\ Len(lookups') = Len(lookups) + 1
        /\ \A k \in 1 .. Len(lookups) : lookups'[k] = lookups[k]
        /\ lookups'[Len(lookups) + 1] = [op |-> op, item |-> i, ver |-> v,
                                         chain |-> chain, seen |-> Unread]
    BY <2>1, LookupPosted
  <2>3. QED
    BY <1>1, <1>2, <2>2
<1>4. l.op = op /\ l.item = i /\ l.seen = Unread
  BY <1>1
<1>5. \A k \in 1 .. Len(lookups') : k \in 1 .. n \/ k = n + 1
  BY <1>2, <1>3
<1>6. ASSUME NEW j, Marked(j)'
      PROVE  Marked(j) \/ (j = i /\ op = "mark")
  <2>1. PICK k \in 1 .. Len(lookups') : lookups'[k].item = j /\ lookups'[k].op = "mark"
    BY <1>6 DEF Marked
  <2>2. CASE k \in 1 .. n
    BY <1>2, <1>3, <2>1, <2>2 DEF Marked
  <2>3. CASE k = n + 1
    BY <1>3, <1>4, <2>1, <2>3
  <2>4. QED
    BY <1>5, <2>2, <2>3
<1>7. ASSUME op # "modify", \A k \in 1 .. Len(lookups) : lookups[k].op # "modify"
      PROVE  \A k \in 1 .. Len(lookups') : lookups'[k].op # "modify"
  BY <1>2, <1>3, <1>4, <1>5, <1>7
<1>8. ASSUME lookups = <<>>
      PROVE  Len(lookups') = 1 /\ lookups'[1].seen = Unread
  <2>1. n = 0
    BY <1>2, <1>8
  <2>2. QED
    BY <1>3, <1>4, <2>1
<1>9. QED
  BY <1>6, <1>7, <1>8

LEMMA MarkedAnswered ==
    ASSUME TypeOK, lookups # <<>>, lookups' = Tail(lookups)
    PROVE  /\ \A j : Marked(j)' => Marked(j)
           /\ \A k \in 1 .. Len(lookups') : k + 1 \in 1 .. Len(lookups)
                                            /\ lookups'[k] = lookups[k + 1]
<1>1. PICK q : q = Tail(lookups)
  OBVIOUS
<1>2. /\ Len(q) = Len(lookups) - 1 /\ Len(lookups) \in Nat
      /\ \A k \in 1 .. Len(q) : q[k] = lookups[k + 1]
  BY <1>1, LookupPopped, LenProperties DEF TypeOK
<1>3. lookups' = q /\ \A k \in 1 .. Len(q) : k + 1 \in 1 .. Len(lookups)
  BY <1>1, <1>2
<1>4. QED
  BY <1>2, <1>3 DEF Marked

-----------------------------------------------------------------------------
(* The merge, and what is acknowledged *)

\* An item's turn leaves a row with the content that was collected, a clean one, or the
\* row as it was.
LEMMA TurnGiven ==
    ASSUME CacheInv, GivenInv, NEW i \in Items, Merged(i),
           \A j \in Items : j # i => rows'[j] = rows[j] /\ (Marked(j)' => Marked(j)),
           Changed(i)' => \/ Changed(i) /\ rows'[i] = rows[i]
                          \/ Dirty(collected[i]) /\ rows'[i].ver = collected[i].ver,
           Acked(i),
           \A k \in 1 .. Len(lookups') : lookups'[k].op # "modify"
    PROVE  GivenStep
<1>1. /\ sync.phase = "merge" /\ collected[i] # NoRow
      /\ collected' = [collected EXCEPT ![i] = NoRow]
      /\ UNCHANGED <<sync, fetched, tasks, calls>>
  BY DEF Merged
<1>2. /\ TypeOK /\ RefillClean /\ collected \in [Items -> Row]
      /\ \A c \in calls : c.by # User
  BY <1>1, NobodyElse DEF GivenInv, CacheInv, Types, CacheTypeOK
<1>3. collected'[i] = NoRow /\ \A j \in Items : j # i => collected'[j] = collected[j]
  BY <1>1, <1>2
<1>5. UserAlone' /\ ModifyAlone'
  BY <1>1, <1>2 DEF UserAlone, ModifyAlone
<1>6. \A j \in Items : j # i => (Changed(j)' => Changed(j))
  BY DEF Changed
<1>7. RefillClean'
  <2>1. ~sync.renewed
    BY <1>1, <1>2 DEF RefillClean
  <2>2. ASSUME NEW j \in Items, ToMerge(j)'
        PROVE  Changed(j)' => fetched'[j] = 0
    <3>1. j # i
      BY <1>3, <2>2 DEF ToMerge
    <3>2. ToMerge(j)
      BY <1>1, <1>3, <2>2, <3>1 DEF ToMerge
    <3>3. QED
      BY <1>1, <1>2, <1>6, <3>1, <3>2 DEF RefillClean
  <2>3. QED
    BY <1>1, <1>2, <2>1, <2>2 DEF RefillClean, Kinds
<1>8. OneContent(i)' /\ Acked(i)
  <2>1. OneContent(i) /\ Given(i)' = Given(i)
    BY <1>1 DEF GivenInv, Given
  <2>2. ~Dirty(collected'[i])
    BY <1>3, NoRowFlag DEF Dirty
  <2>3. \A c \in Given(i) : Has(i, c.ver)'
    BY <1>1, <2>1 DEF OneContent, Has
  <2>4. QED
    BY <2>1, <2>2, <2>3 DEF OneContent
<1>9. ASSUME NEW j \in Items, j # i
      PROVE  OneContent(j)' /\ Acked(j)
  <2>1. rows'[j] = rows[j] /\ collected'[j] = collected[j]
    BY <1>3, <1>9
  <2>2. OneContent(j) /\ Given(j)' = Given(j)
    BY <1>1 DEF GivenInv, Given
  <2>3. OneContent(j)'
    BY <1>1, <1>6, <1>9, <2>1, <2>2, ContentKept
  <2>4. QED
    BY <1>2, <2>1, <2>3, FlagKeeps
<1>10. QED
  BY <1>5, <1>7, <1>8, <1>9 DEF GivenInv, GivenStep

LEMMA MergeGivenStep ==
    ASSUME CacheInv, GivenInv, MergeItem
    PROVE  GivenStep
<1>1. PICK i \in Items : \/ MergeCreated(i) \/ MergeModified(i) \/ MergeRevived(i)
                         \/ MergeDeleted(i) \/ MergeDropped(i)
  BY DEF MergeItem
<1>2. Merged(i)
  BY <1>1 DEF MergeCreated, MergeModified, MergeRevived, MergeDeleted, MergeDropped
<1>3. /\ TypeOK /\ rows \in [Items -> Row] /\ collected[i] \in Row
      /\ sync.phase = "merge" /\ collected[i] # NoRow
  BY <1>2 DEF CacheInv, Types, CacheTypeOK, TypeOK, Merged
<1>4. /\ Changed(i) => fetched[i] = 0
      /\ \A k \in 1 .. Len(lookups) : lookups[k].op # "modify"
  BY <1>3, SyncAlone DEF GivenInv, RefillClean, ToMerge
<1>5. collected[i].ver \in 0 .. MaxVersion /\ 0 \in 0 .. MaxVersion
  BY <1>3, StorageConstants DEF Row
<1>6. CASE MergeCreated(i) \/ MergeRevived(i)
  <2>1. /\ rows' = [rows EXCEPT ![i] = WithFlag(Flushed(collected[i].ver), "created")]
        /\ collected[i].flag \in {"created", "modified"} /\ lookups' = lookups
    BY <1>6 DEF MergeCreated, MergeRevived, Store, Mine
  <2>2. WithFlag(Flushed(collected[i].ver), "created").ver = collected[i].ver
    BY DEF WithFlag, Flushed
  <2>3. WithFlag(Flushed(collected[i].ver), "created").flag = "created"
    <3>1. collected[i].ver # 0
      BY <1>3, <2>1 DEF Row
    <3>2. QED
      BY <3>1 DEF WithFlag, Flushed
  <2>4. /\ rows'[i].ver = collected[i].ver /\ rows'[i].flag # "none"
        /\ \A j \in Items : j # i => rows'[j] = rows[j]
    BY <1>3, <2>1, <2>2, <2>3
  <2>5. Dirty(collected[i]) /\ \A j : Marked(j)' => Marked(j)
    BY <2>1 DEF Dirty, Marked
  <2>6. \A k \in 1 .. Len(lookups') : lookups'[k].op # "modify"
    BY <1>4, <2>1
  <2>7. Acked(i)
    BY <1>3, <2>4, FlagKeeps
  <2>8. QED
    BY <1>2, <2>4, <2>5, <2>6, <2>7, TurnGiven
<1>7. CASE MergeModified(i)
  <2>1. /\ rows' = [rows EXCEPT ![i] = Flushed(collected[i].ver)]
        /\ collected[i].flag = "modified" /\ fetched[i] # 0
        /\ PostLookup("mark", i, collected[i].ver, TRUE)
    BY <1>7 DEF MergeModified, Store, Mine
  <2>2. rows'[i].ver = collected[i].ver /\ \A j \in Items : j # i => rows'[j] = rows[j]
    BY <1>3, <2>1 DEF Flushed
  <2>3. /\ \A j : Marked(j)' => Marked(j) \/ j = i
        /\ \A k \in 1 .. Len(lookups') : lookups'[k].op # "modify"
    BY <1>3, <1>4, <1>5, <2>1, MarkedPosted
  <2>4. Dirty(collected[i])
    BY <2>1 DEF Dirty
  <2>5. Acked(i)
    BY <1>4, <2>1 DEF Changed, Dirty, Acked
  <2>6. QED
    BY <1>2, <2>2, <2>3, <2>4, <2>5, TurnGiven
<1>8. CASE MergeDeleted(i)
  <2>1. rows' = rows /\ PostLookup("remove", i, 0, FALSE)
    BY <1>8 DEF MergeDeleted
  <2>2. /\ \A j : Marked(j)' => Marked(j)
        /\ \A k \in 1 .. Len(lookups') : lookups'[k].op # "modify"
    BY <1>3, <1>4, <1>5, <2>1, MarkedPosted
  <2>3. (Changed(i)' => Changed(i)) /\ Acked(i)
    BY <1>3, <2>1, <2>2, FlagKeeps DEF Changed
  <2>4. QED
    BY <1>2, <2>1, <2>2, <2>3, TurnGiven
<1>9. CASE MergeDropped(i)
  <2>1. rows' = rows /\ lookups' = lookups
    BY <1>9 DEF MergeDropped, storageVars
  <2>2. \A j : Changed(j)' <=> Changed(j)
    BY <2>1 DEF Changed, Marked
  <2>3. \A j : Marked(j)' => Marked(j)
    BY <2>1 DEF Marked
  <2>4. Acked(i)
    BY <1>3, <2>1, FlagKeeps
  <2>5. QED
    BY <1>2, <1>4, <2>1, <2>2, <2>3, <2>4, TurnGiven
<1>10. QED
  BY <1>1, <1>6, <1>7, <1>8, <1>9

-----------------------------------------------------------------------------
(* Playback, and what is acknowledged *)

\* A playback submits what the dirty rows have, which is what was collected of them.
LEMMA PlaybackGetGiven ==
    ASSUME CacheInv, GivenInv, NEW s \in Slots, PlaybackGet(s)
    PROVE  GivenStep
<1>1. /\ tasks[s] # NoTask
      /\ calls' = calls \/ calls' = calls \cup Submitted(s)
      /\ UNCHANGED <<rows, lookups, sync, collected, fetched>>
  BY DEF PlaybackGet, vars, Submitted
<1>2. /\ TypeOK /\ tasks[s].kind # "none" /\ tasks[s] \in Task
      /\ \A c \in calls : c.by # User
  BY <1>1, NobodyElse DEF CacheInv, Types, CacheTypeOK, Counted
<1>3. ASSUME NEW c \in Submitted(s)
      PROVE  /\ c.by # User
             /\ c.op # "delete" => /\ Dirty(rows[c.item]) /\ rows[c.item].ver # 0
                                   /\ c.ver = rows[c.item].ver
  <2>1. /\ c.by = s /\ c.item \in Selected(tasks[s].kind) /\ c.op = OpFor[tasks[s].kind]
        /\ c.ver = IF tasks[s].kind = "deleted" THEN 0 ELSE rows[c.item].ver
    BY DEF Submitted
  <2>2. c.by # User
    BY <2>1 DEF User, Slots
  <2>3. rows[c.item].flag = tasks[s].kind /\ rows[c.item].ver # 0
    BY <2>1 DEF Selected, Present
  <2>4. tasks[s].kind \in {"created", "modified", "deleted"}
    BY <1>2 DEF Task, Kinds
  <2>5. c.op # "delete" => tasks[s].kind \in {"created", "modified"}
    BY <2>1, <2>4 DEF OpFor
  <2>6. QED
    BY <2>1, <2>2, <2>3, <2>5 DEF Dirty
<1>4. \A c \in calls' : c.by # User
  BY <1>1, <1>2, <1>3
<1>5. UserAlone' /\ ModifyAlone'
  BY <1>1, <1>4 DEF GivenInv, UserAlone, ModifyAlone
<1>6. \A i : Changed(i)' <=> Changed(i)
  BY <1>1 DEF Changed, Marked
<1>7. RefillClean'
  BY <1>1, <1>6 DEF GivenInv, RefillClean, ToMerge
<1>8. ASSUME NEW i \in Items
      PROVE  OneContent(i)' /\ Acked(i)
  <2>1. OneContent(i)
    BY DEF GivenInv
  <2>2. ASSUME NEW c \in Given(i)'
        PROVE  \/ c \in Given(i)
               \/ Dirty(rows[i]) /\ rows[i].ver # 0 /\ c.ver = rows[i].ver
    <3>1. c \in calls' /\ c.item = i /\ c.by # User /\ c.op # "delete"
      BY DEF Given
    <3>2. CASE c \in calls
      BY <3>1, <3>2 DEF Given
    <3>3. CASE c \in Submitted(s)
      BY <1>3, <3>1, <3>3
    <3>4. QED
      BY <1>1, <3>1, <3>2, <3>3
  <2>3. \A c \in Given(i)' : Has(i, c.ver)'
    BY <1>1, <1>6, <2>1, <2>2 DEF OneContent, Has
  <2>4. ASSUME sync.phase # "idle", Dirty(collected[i])
        PROVE  Has(i, collected[i].ver)' /\ \A c \in Given(i)' : c.ver = collected[i].ver
    <3>1. Has(i, collected[i].ver) /\ \A c \in Given(i) : c.ver = collected[i].ver
      BY <2>1, <2>4 DEF OneContent
    <3>2. Dirty(rows[i]) /\ rows[i].ver # 0 => rows[i].ver = collected[i].ver
      BY <3>1 DEF Has, Changed
    <3>3. Has(i, collected[i].ver)'
      BY <1>1, <1>6, <3>1 DEF Has
    <3>4. QED
      BY <2>2, <3>1, <3>2, <3>3
  <2>5. OneContent(i)'
    BY <1>1, <2>3, <2>4 DEF OneContent
  <2>6. Acked(i)
    BY <1>1, <1>2, FlagKeeps
  <2>7. QED
    BY <2>5, <2>6
<1>9. QED
  BY <1>5, <1>7, <1>8 DEF GivenInv, GivenStep

\* An operation of a playback has been answered.
LEMMA AnswerGiven ==
    ASSUME InOrder, CacheInv, GivenInv, NEW c \in calls, c.by \in Slots, MayAnswer,
           calls' = calls \ {c}, UNCHANGED <<lookups, sync, collected, fetched>>,
           \A i \in Items : rows'[i] = rows[i] \/ ~Dirty(rows'[i]),
           \A i \in Items : Acked(i)
    PROVE  GivenStep
<1>1. lookups = <<>>
  BY DEF MayAnswer, InOrder
<1>2. c.by # User
  BY DEF User, Slots
<1>3. \A d \in calls : d.by # User
  BY <1>2 DEF GivenInv, UserAlone
<1>4. UserAlone' /\ ModifyAlone'
  BY <1>1, <1>3, NothingMarked DEF UserAlone
<1>5. \A i \in Items : Changed(i)' => Changed(i) /\ rows'[i] = rows[i]
  BY <1>1, NothingMarked DEF Changed
<1>6. RefillClean'
  BY <1>5 DEF GivenInv, RefillClean, ToMerge
<1>7. ASSUME NEW i \in Items
      PROVE  OneContent(i)'
  <2>1. OneContent(i) /\ Given(i)' \subseteq Given(i)
    BY DEF GivenInv, Given
  <2>2. QED
    BY <1>5, <2>1, ContentKept
<1>8. QED
  BY <1>4, <1>6, <1>7 DEF GivenInv, GivenStep

\* What the server has taken is what the row has, if the row is dirty.
LEMMA SucceedsGiven ==
    ASSUME InOrder, CacheInv, GivenInv, NEW c \in calls, PlaybackSucceeds(c)
    PROVE  GivenStep
<1>1. PICK i : i = c.item
  OBVIOUS
<1>2. PICK row : row = IF c.op = "delete" THEN NoRow ELSE WithFlag(rows[i], "none")
  OBVIOUS
<1>3. /\ c.by \in Slots /\ MayAnswer /\ calls' = calls \ {c}
      /\ server' = [server EXCEPT ![i] = c.ver]
      /\ rows' = [rows EXCEPT ![i] = row]
      /\ UNCHANGED <<lookups, sync, collected, fetched>>
  BY <1>1, <1>2 DEF PlaybackSucceeds, Performed, Store
<1>4. /\ TypeOK /\ rows \in [Items -> Row] /\ server \in [Items -> 0 .. MaxVersion]
      /\ c \in ProviderCall
  BY DEF CacheInv, Types, CacheTypeOK, TypeOK
<1>5. i \in Items /\ rows[i] \in Row
  BY <1>1, <1>4 DEF ProviderCall
<1>6. rows'[i] = row /\ server'[i] = c.ver /\ \A j \in Items : j # i => rows'[j] = rows[j]
  BY <1>3, <1>4, <1>5
<1>7. row.flag = "none"
  BY <1>2, <1>5, NoRowFlag DEF WithFlag, Row
<1>8. Acked(i)
  <2>1. CASE c.op = "delete"
    <3>1. rows'[i].ver = 0
      BY <1>2, <1>6, <2>1, NoRowFlag
    <3>2. QED
      BY <1>4, <1>5, <3>1, FlagKeeps
  <2>2. CASE c.op # "delete"
    <3>1. SUFFICES ASSUME Dirty(rows[i])
                   PROVE  server'[i] = rows[i].ver
      BY DEF Acked, Dirty
    <3>2. c \in Given(i)
      BY <1>1, <1>3, <2>2 DEF Given, User, Slots
    <3>3. Has(i, c.ver)
      BY <1>5, <3>2 DEF GivenInv, OneContent
    <3>4. rows[i].ver # 0
      BY <1>5, <3>1 DEF Row, Dirty
    <3>5. rows[i].ver = c.ver
      BY <3>1, <3>3, <3>4 DEF Has, Changed
    <3>6. QED
      BY <1>6, <3>5
  <2>3. QED
    BY <2>1, <2>2
<1>9. \A j \in Items : Acked(j)
  BY <1>4, <1>6, <1>8, FlagKeeps
<1>10. \A j \in Items : rows'[j] = rows[j] \/ ~Dirty(rows'[j])
  BY <1>6, <1>7 DEF Dirty
<1>11. QED
  BY <1>3, <1>9, <1>10, AnswerGiven

LEMMA FailsGiven ==
    ASSUME InOrder, CacheInv, GivenInv, NEW c \in calls, PlaybackFails(c)
    PROVE  GivenStep
<1>1. /\ c.by \in Slots /\ MayAnswer /\ calls' = calls \ {c}
      /\ UNCHANGED <<rows, lookups, sync, collected, fetched>>
  BY DEF PlaybackFails, vars
<1>2. \A i \in Items : Acked(i)
  BY <1>1, FlagKeeps DEF CacheInv, Types
<1>3. QED
  BY <1>1, <1>2, AnswerGiven

-----------------------------------------------------------------------------
(* The user, the cache's callbacks, a restart, and what is acknowledged *)

\* The sync stands still, and no operation is left with the provider.
LEMMA QuietGiven ==
    ASSUME GivenInv, sync.phase = "idle", sync' = sync, calls' = {}, ModifyAlone',
           \A i \in Items : Acked(i)
    PROVE  GivenStep
<1>1. RefillClean'
  BY DEF GivenInv, RefillClean, ToMerge, Kinds
<1>2. UserAlone' /\ \A i \in Items : OneContent(i)'
  BY NothingGiven
<1>3. QED
  BY <1>1, <1>2 DEF GivenInv, GivenStep

\* A lookup posted while there is none.
LEMMA PostedAlone ==
    ASSUME TypeOK, NEW op \in {"modify", "mark", "remove"}, NEW i \in Items,
           NEW v \in 0 .. MaxVersion, NEW chain \in BOOLEAN, op = "modify" => v # 0,
           PostLookup(op, i, v, chain), lookups = <<>>, calls' = {}, sync'.phase = "idle",
           \A s \in Slots : tasks'[s] = NoTask
    PROVE  ModifyAlone'
<1>1. Len(lookups') = 1 /\ lookups'[1].seen = Unread
  BY MarkedPosted
<1>2. \A k \in 1 .. Len(lookups') : k = 1
  BY <1>1
<1>3. QED
  BY <1>1, <1>2 DEF ModifyAlone

LEMMA UserFailsGiven ==
    ASSUME CacheInv, GivenInv, NEW c \in calls, UserCallFails(c)
    PROVE  GivenStep
<1>1. c.by = User /\ calls' = calls \ {c} /\ UNCHANGED <<rows, lookups, sync>>
  BY DEF UserCallFails, vars, syncVars
<1>2. calls' = {} /\ sync.phase = "idle" /\ lookups = <<>>
  BY <1>1 DEF GivenInv, UserAlone
<1>3. ModifyAlone'
  BY <1>1, <1>2, NothingMarked
<1>4. \A i \in Items : Acked(i)
  BY <1>1, FlagKeeps DEF CacheInv, Types
<1>5. QED
  BY <1>1, <1>2, <1>3, <1>4, QuietGiven

LEMMA UserSucceedsGiven ==
    ASSUME CacheInv, GivenInv, NEW c \in calls, UserCallSucceeds(c)
    PROVE  GivenStep
<1>1. PICK i : i = c.item
  OBVIOUS
<1>2. /\ c.by = User /\ calls' = calls \ {c} /\ UNCHANGED <<sync, tasks>>
      /\ \/ c.op = "add" /\ Store(i, Flushed(c.ver), "none") /\ lookups' = lookups
         \/ /\ c.op = "modify" /\ PostLookup("modify", i, c.ver, FALSE) /\ rows' = rows
         \/ c.op = "delete" /\ Store(i, NoRow, "none") /\ lookups' = lookups
  BY <1>1 DEF UserCallSucceeds, syncVars
<1>3. /\ calls' = {} /\ sync.phase = "idle" /\ lookups = <<>>
      /\ c.op = "add" => ~Dirty(rows[i])
      /\ \A s \in Slots : tasks[s] = NoTask
  BY <1>1, <1>2 DEF GivenInv, UserAlone
<1>4. TypeOK /\ rows \in [Items -> Row] /\ c \in ProviderCall
  BY DEF CacheInv, Types, CacheTypeOK, TypeOK
<1>5. i \in Items /\ c.ver \in 0 .. MaxVersion /\ (c.op = "delete" <=> c.ver = 0)
  BY <1>1, <1>4 DEF ProviderCall
<1>6. CASE c.op = "modify" /\ PostLookup("modify", i, c.ver, FALSE) /\ rows' = rows
  <2>1. c.ver # 0
    BY <1>5, <1>6
  <2>2. ModifyAlone'
    BY <1>2, <1>3, <1>4, <1>5, <1>6, <2>1, PostedAlone
  <2>3. QED
    BY <1>2, <1>3, <1>4, <1>6, <2>2, FlagKeeps, QuietGiven
<1>7. ASSUME NEW row, Store(i, row, "none"), lookups' = lookups, ~Dirty(rows[i]) \/ row.ver = 0
      PROVE  GivenStep
  <2>1. rows'[i] = row /\ \A j \in Items : j # i => rows'[j] = rows[j]
    BY <1>4, <1>5, <1>7 DEF Store
  <2>2. Acked(i)
    <3>1. CASE ~Dirty(rows[i])
      BY <3>1 DEF Acked, Dirty
    <3>2. CASE row.ver = 0
      BY <1>4, <1>5, <2>1, <3>2, FlagKeeps
    <3>3. QED
      BY <1>7, <3>1, <3>2
  <2>3. \A j \in Items : Acked(j)
    BY <1>4, <2>1, <2>2, FlagKeeps
  <2>4. ModifyAlone'
    BY <1>3, <1>7, NothingMarked
  <2>5. QED
    BY <1>2, <1>3, <2>3, <2>4, QuietGiven
<1>8. QED
  BY <1>2, <1>3, <1>6, <1>7, NoRowFlag

LEMMA CalmGiven ==
    ASSUME Calm
    PROVE  /\ lookups = <<>> /\ calls = {} /\ sync.phase = "idle"
           /\ \A s \in Slots : tasks[s] = NoTask
BY DEF Calm, Idle

LEMMA SubmitGiven ==
    ASSUME InOrder, CacheInv, GivenInv, NEW op, NEW i \in Items, NEW v, Submit(op, i, v),
           op = "add" => ~Dirty(rows[i])
    PROVE  GivenStep
<1>1. PICK c : c = [op |-> op, item |-> i, ver |-> v, by |-> User]
  OBVIOUS
<1>2. /\ Calm /\ calls' = calls \cup {c}
      /\ UNCHANGED <<rows, lookups, sync, collected, tasks>>
  BY <1>1 DEF Submit, MayEdit, InOrder, syncVars, storageVars
<1>3. lookups = <<>> /\ calls = {} /\ sync.phase = "idle" /\ \A s \in Slots : tasks[s] = NoTask
  BY <1>2, CalmGiven
<1>4. calls' = {c} /\ c.by = User /\ c.op = op /\ c.item = i
  BY <1>1, <1>2, <1>3
<1>5. UserAlone'
  BY <1>2, <1>3, <1>4 DEF UserAlone
<1>6. ModifyAlone' /\ RefillClean'
  BY <1>2, <1>3, NothingMarked DEF GivenInv, RefillClean, ToMerge, Kinds
<1>7. \A j \in Items : OneContent(j)'
  BY <1>2, <1>3, <1>4 DEF OneContent, Given
<1>8. \A j \in Items : Acked(j)
  BY <1>2, FlagKeeps DEF CacheInv, Types
<1>9. QED
  BY <1>5, <1>6, <1>7, <1>8 DEF GivenInv, GivenStep

LEMMA EditGiven ==
    ASSUME InOrder, CacheInv, GivenInv, UserEdit
    PROVE  GivenStep
<1>1. PICK i \in Items : \/ AddOffline(i) \/ ModifyOffline(i) \/ DeleteOffline(i)
                         \/ AddOnline(i) \/ ModifyOnline(i) \/ DeleteOnline(i)
  BY DEF UserEdit
<1>2. TypeOK /\ rows \in [Items -> Row] /\ rows[i] \in Row
  BY DEF CacheInv, Types, TypeOK
<1>3. ~Visible(i) => ~Dirty(rows[i])
  BY <1>2 DEF Visible, Present, Dirty, Row
<1>4. CASE AddOffline(i)
  <2>1. /\ Calm /\ ~Dirty(rows[i])
        /\ rows' = [rows EXCEPT ![i] = WithFlag(Flushed(clock'), "created")]
        /\ UNCHANGED <<lookups, sync, calls>>
    BY <1>3, <1>4 DEF AddOffline, MayEdit, Addable, InOrder, Store, syncVars
  <2>2. lookups = <<>> /\ calls = {} /\ sync.phase = "idle"
    BY <2>1, CalmGiven
  <2>3. ModifyAlone'
    BY <2>1, <2>2, NothingMarked
  <2>4. \A j \in Items : j # i => rows'[j] = rows[j]
    BY <1>2, <2>1
  <2>5. Acked(i)
    BY <2>1 DEF Acked, Dirty
  <2>6. \A j \in Items : Acked(j)
    BY <1>2, <2>4, <2>5, FlagKeeps
  <2>7. QED
    BY <2>1, <2>2, <2>3, <2>6, QuietGiven
<1>5. ASSUME NEW op \in {"modify", "mark", "remove"}, NEW v \in 0 .. MaxVersion,
             NEW chain \in BOOLEAN, op = "modify" => v # 0, Calm,
             PostLookup(op, i, v, chain), UNCHANGED <<rows, sync, tasks, calls>>
      PROVE  GivenStep
  <2>1. lookups = <<>> /\ calls = {} /\ sync.phase = "idle" /\ \A s \in Slots : tasks[s] = NoTask
    BY <1>5, CalmGiven
  <2>2. ModifyAlone'
    BY <1>2, <1>5, <2>1, PostedAlone
  <2>3. \A j \in Items : Acked(j)
    BY <1>2, <1>5, FlagKeeps
  <2>4. QED
    BY <1>5, <2>1, <2>2, <2>3, QuietGiven
<1>6. CASE ModifyOffline(i)
  <2>1. /\ Calm /\ NewVersion /\ PostLookup("modify", i, clock', TRUE)
        /\ UNCHANGED <<rows, sync, tasks, calls>>
    BY <1>6 DEF ModifyOffline, MayEdit, InOrder, syncVars
  <2>2. PICK v \in 0 .. MaxVersion : v = clock' /\ v # 0
    BY <1>2, <2>1, Ticked
  <2>3. QED
    BY <1>5, <2>1, <2>2
<1>7. CASE DeleteOffline(i)
  <2>1. Calm /\ PostLookup("remove", i, 0, FALSE)
        /\ UNCHANGED <<rows, sync, tasks, calls>>
    BY <1>7 DEF DeleteOffline, MayEdit, InOrder, syncVars
  <2>2. 0 \in 0 .. MaxVersion
    BY StorageConstants
  <2>3. QED
    BY <1>5, <2>1, <2>2
<1>8. CASE AddOnline(i)
  BY <1>3, <1>8, SubmitGiven DEF AddOnline, Addable
<1>9. CASE ModifyOnline(i) \/ DeleteOnline(i)
  BY <1>9, SubmitGiven DEF ModifyOnline, DeleteOnline
<1>10. QED
  BY <1>1, <1>4, <1>6, <1>7, <1>8, <1>9

\* The callback that marks a row, or deletes it, keeps its content.
LEMMA AnsweredGiven ==
    ASSUME CacheInv, GivenInv, NEW op \in {"mark", "remove"}, Answered(op),
           NEW i \in Items, i = Head(lookups).item, lookups' = Tail(lookups),
           NEW row, rows' = [rows EXCEPT ![i] = row], row.ver \in {0, rows[i].ver},
           Dirty(row) => Dirty(rows[i]) \/ op = "mark",
           row.flag = rows[i].flag \/ row.flag # "none" \/ row.ver = 0,
           UNCHANGED <<sync, collected, fetched, tasks, calls>>
    PROVE  GivenStep
<1>1. TypeOK /\ rows \in [Items -> Row] /\ lookups # <<>> /\ Len(lookups) \in Nat
  BY LenProperties DEF CacheInv, Types, TypeOK, Answered
<1>2. rows'[i] = row /\ \A j \in Items : j # i => rows'[j] = rows[j]
  BY <1>1
<1>3. /\ \A j : Marked(j)' => Marked(j)
      /\ \A k \in 1 .. Len(lookups') : k + 1 \in 1 .. Len(lookups)
                                       /\ lookups'[k] = lookups[k + 1]
  BY <1>1, MarkedAnswered
<1>4. op = "mark" => Marked(i)
  <2>1. 1 \in 1 .. Len(lookups) /\ lookups[1].item = i /\ lookups[1].op = op
    BY <1>1, AnsweredHead, LookupPopped DEF TypeOK
  <2>2. QED
    BY <2>1 DEF Marked
<1>5. \A j \in Items : Changed(j)' => Changed(j) /\ rows'[j].ver \in {0, rows[j].ver}
  BY <1>2, <1>3, <1>4 DEF Changed
<1>6. UserAlone'
  BY <1>1 DEF GivenInv, UserAlone
<1>7. ModifyAlone'
  <2>1. ASSUME NEW k \in 1 .. Len(lookups'), lookups'[k].op = "modify"
        PROVE  FALSE
    <3>1. k + 1 \in 1 .. Len(lookups) /\ lookups[k + 1].op = "modify"
      BY <1>3, <2>1
    <3>2. Len(lookups) = 1
      BY <3>1 DEF GivenInv, ModifyAlone
    <3>3. QED
      BY <3>1, <3>2
  <2>2. QED
    BY <2>1 DEF ModifyAlone
<1>8. RefillClean'
  <2>1. sync.phase \in {"idle", "merge"} /\ ~sync.renewed
    BY <1>1 DEF GivenInv, RefillClean
  <2>2. ASSUME NEW j \in Items, ToMerge(j)'
        PROVE  Changed(j)' => fetched[j] = 0
    <3>1. ToMerge(j)
      BY <2>2 DEF ToMerge
    <3>2. QED
      BY <1>5, <3>1 DEF GivenInv, RefillClean
  <2>3. QED
    BY <2>1, <2>2 DEF GivenInv, RefillClean, Kinds
<1>9. ASSUME NEW j \in Items
      PROVE  OneContent(j)' /\ Acked(j)
  <2>1. OneContent(j) /\ Given(j)' \subseteq Given(j)
    BY DEF GivenInv, Given
  <2>2. OneContent(j)'
    BY <1>5, <2>1, ContentKept
  <2>3. Acked(j)
    BY <1>1, <1>2, FlagKeeps
  <2>4. QED
    BY <2>2, <2>3
<1>10. QED
  BY <1>6, <1>7, <1>8, <1>9 DEF GivenInv, GivenStep

LEMMA ReadGiven ==
    ASSUME CacheInv, GivenInv, ReadFlag, UNCHANGED <<sync, collected, fetched, tasks, calls>>
    PROVE  GivenStep
<1>1. TypeOK /\ rows' = rows
  BY DEF CacheInv, Types, ReadFlag
<1>2. PICK k \in 1 .. Len(lookups) :
          /\ Len(lookups') = Len(lookups)
          /\ \A j \in 1 .. Len(lookups) :
                 lookups'[j] = IF j = k
                                 THEN [lookups[k] EXCEPT !.seen = rows[lookups[k].item].flag]
                                 ELSE lookups[j]
  BY <1>1, LookupRead
<1>3. lookups[k] \in Lookup /\ lookups # <<>>
  BY <1>1, ElementOfSeq DEF TypeOK
<1>4. /\ lookups'[k].item = lookups[k].item /\ lookups'[k].op = lookups[k].op
      /\ lookups'[k].seen = rows[lookups[k].item].flag
  BY <1>2, <1>3 DEF Lookup
<1>5. \A j \in 1 .. Len(lookups) :
          /\ lookups'[j].item = lookups[j].item /\ lookups'[j].op = lookups[j].op
          /\ lookups'[j].seen = lookups[j].seen
               \/ lookups'[j].seen = rows[lookups[j].item].flag
  BY <1>2, <1>4
<1>6. UserAlone'
  BY <1>3 DEF GivenInv, UserAlone
<1>7. ModifyAlone'
  BY <1>1, <1>2, <1>5 DEF GivenInv, ModifyAlone
<1>8. \A i : Changed(i)' => Changed(i)
  BY <1>1, <1>2, <1>5 DEF Changed, Marked
<1>9. RefillClean'
  BY <1>3, <1>8 DEF GivenInv, RefillClean, ToMerge
<1>10. \A i \in Items : OneContent(i)' /\ Acked(i)
  BY <1>1, <1>8, ContentKept, FlagKeeps DEF GivenInv, Given
<1>11. QED
  BY <1>6, <1>7, <1>9, <1>10 DEF GivenInv, GivenStep

\* The modification is the only thing on its way, and keeps the flag.
LEMMA ModifyGiven ==
    ASSUME CacheInv, GivenInv, DoModifyItem, UNCHANGED <<sync, collected, fetched, tasks, calls>>
    PROVE  GivenStep
<1>1. PICK l : l = Head(lookups)
  OBVIOUS
<1>2. /\ TypeOK /\ rows \in [Items -> Row] /\ Answered("modify")
      /\ rows' = [rows EXCEPT ![l.item] = WithFlag(Flushed(l.ver), l.seen)]
      /\ lookups' = IF l.chain
                      THEN Append(Tail(lookups), [l EXCEPT !.op = "mark", !.seen = Unread])
                      ELSE Tail(lookups)
  BY <1>1 DEF DoModifyItem, CacheInv, Types, TypeOK
<1>3. /\ l \in Lookup /\ l.item \in Items /\ l.op = "modify" /\ l.seen \in Flags
      /\ l = lookups[1] /\ lookups # <<>> /\ Len(lookups) \in Nat
  BY <1>1, <1>2, AnsweredHead, LookupPopped, LenProperties DEF Answered, TypeOK
<1>4. 1 \in 1 .. Len(lookups) /\ l.seen # Unread /\ l.ver # 0
  BY <1>2, <1>3, LookupPopped DEF Flags, Unread, Lookup, TypeOK
<1>5. Len(lookups) = 1 /\ calls = {} /\ sync.phase = "idle" /\ l.seen = rows[l.item].flag
  BY <1>3, <1>4 DEF GivenInv, ModifyAlone
<1>6. PICK q : q = Tail(lookups)
  OBVIOUS
<1>7. q \in Seq(Lookup) /\ Len(q) = 0
  BY <1>2, <1>3, <1>5, <1>6, LookupPopped DEF TypeOK
<1>8. PICK m : m = [l EXCEPT !.op = "mark", !.seen = Unread]
  OBVIOUS
<1>9. m \in Lookup /\ m.op = "mark"
  BY <1>3, <1>8 DEF Lookup
<1>10. Len(Append(q, m)) = 1 /\ Append(q, m)[1] = m
  BY <1>7, <1>9
<1>11. lookups' = Append(q, m) \/ lookups' = q
  BY <1>2, <1>6, <1>8
<1>12. \A k \in 1 .. Len(lookups') : lookups'[k].op # "modify"
  <2>1. CASE lookups' = Append(q, m)
    <3>1. \A k \in 1 .. Len(lookups') : k = 1
      BY <1>10, <2>1
    <3>2. QED
      BY <1>9, <1>10, <2>1, <3>1
  <2>2. CASE lookups' = q
    BY <1>7, <2>2
  <2>3. QED
    BY <1>11, <2>1, <2>2
<1>13. ModifyAlone'
  BY <1>12 DEF ModifyAlone
<1>14. rows'[l.item].flag = rows[l.item].flag
       /\ \A j \in Items : j # l.item => rows'[j] = rows[j]
  <2>1. WithFlag(Flushed(l.ver), l.seen).flag = l.seen
    BY <1>4 DEF WithFlag, Flushed
  <2>2. QED
    BY <1>2, <1>3, <1>5, <2>1
<1>15. \A j \in Items : Acked(j)
  BY <1>2, <1>14, FlagKeeps
<1>16. QED
  BY <1>5, <1>13, <1>15, QuietGiven

LEMMA CallbackGiven ==
    ASSUME CacheInv, GivenInv, StorageCallback
    PROVE  GivenStep
<1>1. UNCHANGED <<sync, collected, fetched, tasks, calls>> /\ TypeOK
  BY DEF StorageCallback, cacheVars, syncVars, CacheInv, Types
<1>2. ASSUME NEW op, Answered(op)
      PROVE  \E i \in Items : i = Head(lookups).item /\ rows[i] \in Row
  BY <1>1, <1>2, AnsweredHead DEF TypeOK
<1>3. CASE FinishModifyOfflineItem
  <2>1. PICK i \in Items : i = Head(lookups).item /\ rows[i] \in Row
    BY <1>2, <1>3 DEF FinishModifyOfflineItem
  <2>2. PICK row : row = AfterModifyOffline(rows[i], Head(lookups).seen)
    OBVIOUS
  <2>3. Answered("mark") /\ rows' = [rows EXCEPT ![i] = row] /\ lookups' = Tail(lookups)
    BY <1>3, <2>1, <2>2 DEF FinishModifyOfflineItem
  <2>4. row = rows[i] \/ row = [rows[i] EXCEPT !.flag = "modified"]
    BY <2>2 DEF AfterModifyOffline, WithFlag
  <2>5. row.ver = rows[i].ver /\ (row.flag = rows[i].flag \/ row.flag # "none")
    BY <2>1, <2>4 DEF Row
  <2>6. QED
    BY <1>1, <2>1, <2>3, <2>5, AnsweredGiven
<1>4. CASE FinishDeleteOfflineItem
  <2>1. PICK i \in Items : i = Head(lookups).item /\ rows[i] \in Row
    BY <1>2, <1>4 DEF FinishDeleteOfflineItem
  <2>2. PICK row : row = AfterDeleteOffline(rows[i], Head(lookups).seen)
    OBVIOUS
  <2>3. Answered("remove") /\ rows' = [rows EXCEPT ![i] = row] /\ lookups' = Tail(lookups)
    BY <1>4, <2>1, <2>2 DEF FinishDeleteOfflineItem
  <2>4. row = NoRow \/ row = rows[i] \/ row = [rows[i] EXCEPT !.flag = "deleted"]
    BY <2>2 DEF AfterDeleteOffline, WithFlag
  <2>5. row.ver \in {0, rows[i].ver} /\ (Dirty(row) => Dirty(rows[i]))
        /\ (row.flag = rows[i].flag \/ row.flag # "none" \/ row.ver = 0)
    BY <2>1, <2>4, NoRowFlag DEF Row, Dirty
  <2>6. QED
    BY <1>1, <2>1, <2>3, <2>5, AnsweredGiven
<1>5. QED
  BY <1>1, <1>3, <1>4, ReadGiven, ModifyGiven DEF StorageCallback

\* Whatever was on its way is gone, the rows stay.
LEMMA RestartGiven ==
    ASSUME CacheInv, RestartCache
    PROVE  GivenStep
<1>1. lookups' = <<>> /\ calls' = {} /\ sync' = Idle /\ rows' = rows /\ TypeOK
  BY DEF RestartCache, CacheInv, Types
<1>2. sync'.phase = "idle" /\ ~sync'.renewed /\ sync'.loops = <<>>
  BY <1>1 DEF Idle
<1>3. RefillClean'
  BY <1>2 DEF RefillClean, ToMerge, Kinds
<1>4. \A i \in Items : Acked(i)
  BY <1>1, FlagKeeps
<1>5. QED
  BY <1>1, <1>2, <1>3, <1>4, NothingGiven, NothingMarked DEF GivenInv, GivenStep

LEMMA GivenInvStep ==
    ASSUME InOrder, CacheInv, GivenInv, [CacheNext]_allVars
    PROVE  GivenStep
<1>1. TypeOK
  BY DEF CacheInv, Types
<1>2. CASE Refresh
  <2>1. UNCHANGED <<rows, lookups, sync, collected, fetched, tasks, calls>>
    BY <1>2 DEF Refresh, RefreshOnline, Synchronize, vars, syncVars
  <2>2. QED
    BY <1>1, <2>1, GivenSame
<1>3. CASE \/ GoOffline \/ GoOnline \/ UNCHANGED allVars
           \/ \E i \in Items : RemotePut(i) \/ RemoteDelete(i)
  <2>1. UNCHANGED <<rows, lookups, sync, collected, fetched, tasks, calls>>
    BY <1>3 DEF GoOffline, GoOnline, RefreshOnline, RemotePut, RemoteDelete, vars, storageVars,
                syncVars, allVars, cacheVars
  <2>2. QED
    BY <1>1, <2>1, GivenSame
<1>4. CASE GetAnswer
  BY <1>4, ResultGiven, CompletedGiven DEF GetAnswer
<1>5. CASE UserCallAnswer \/ PlaybackAnswer
  BY <1>5, UserSucceedsGiven, UserFailsGiven, SucceedsGiven, FailsGiven
     DEF UserCallAnswer, PlaybackAnswer
<1>6. CASE \E s \in Slots : PlaybackGet(s)
  BY <1>6, PlaybackGetGiven
<1>7. QED
  BY <1>2, <1>3, <1>4, <1>5, <1>6, LoadedGiven, CollectGiven, AddGiven, LoopGiven,
     MergeGivenStep, MergedGiven, EditGiven, CallbackGiven, RestartGiven DEF CacheNext

LEMMA GivenInvInit == CacheInit => GivenInv
<1> SUFFICES ASSUME CacheInit
             PROVE  GivenInv
  OBVIOUS
<1>1. lookups = <<>> /\ calls = {} /\ sync = Idle
  BY DEF CacheInit
<1>2. sync.phase = "idle" /\ ~sync.renewed /\ sync.loops = <<>> /\ Len(lookups) = 0
  BY <1>1 DEF Idle
<1>3. UserAlone /\ ModifyAlone /\ RefillClean
  BY <1>1, <1>2 DEF UserAlone, ModifyAlone, RefillClean, ToMerge, Kinds
<1>4. \A i \in Items : OneContent(i)
  BY <1>1, <1>2 DEF OneContent, Given
<1>5. QED
  BY <1>3, <1>4 DEF GivenInv

\* calCachedCalendar.js:482-612 (playback and resetItemOfflineFlag): as long as the user
\* edits, and the provider answers, one thing after the other, an acknowledgement clears
\* the flag of exactly the content the server has taken, whatever fails, whichever ids
\* come back and whenever the process dies.
THEOREM AcknowledgedIsCurrent == InOrder => (CacheSpec => AcksCurrent)
<1> SUFFICES ASSUME InOrder
             PROVE  CacheSpec => AcksCurrent
  OBVIOUS
<1>1. CacheInv /\ GivenInv /\ [CacheNext]_allVars
        => GivenInv' /\ [\A i \in Items :
                           /\ rows[i].flag \in {"created", "modified"}
                           /\ rows'[i] = WithFlag(rows[i], "none")
                           => server'[i] = rows[i].ver]_allVars
  BY GivenInvStep DEF GivenStep, Acked
<1>2. CacheInit => GivenInv
  BY GivenInvInit
<1>3. QED
  BY <1>1, <1>2, CacheInvInductive, PTL DEF CacheSpec, AcksCurrent

=============================================================================
