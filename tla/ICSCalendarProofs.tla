-------------------------- MODULE ICSCalendarProofs --------------------------
(***************************************************************************)
(* Theorems about ICSCalendar: the lock is held exactly while one request  *)
(* is under way, and nobody is told of a success that is not in the file,  *)
(* whatever the sizes and whatever else fails, as long as the turn of the  *)
(* queue is not left by an exception (Orderly).                            *)
(***************************************************************************)
EXTENDS ICSCalendar, SequenceTheorems, TLAPS

\* What throws in the middle of processQueue, or in the answer to PROPFIND, does not
\* happen.
Orderly == Disturbances \cap {"hasty", "disk", "nodav"} = {}

-----------------------------------------------------------------------------
(* The inductive invariant *)

\* The loop of processQueue runs only while the calendar is not locked, and it is the
\* only one to know that something is to be written.
Turned == (turn # "none" => ~locked) /\ (writing => turn # "none")

Uploading == {"backup", "read", "put", "etag"}

\* Answers that are due wait for the loop to end or for the upload.
PendingHeld ==
    pending # <<>> => writing \/ \E k \in DOMAIN requests : requests[k].step \in Uploading

\* What the memory calendar has accepted is on its way into the file, and there before
\* the tag is asked for.
Reached ==
    \A p \in ToSet(pending) : p.ok =>
        /\ writing => p.n \in applied
        /\ \A k \in DOMAIN requests :
               /\ requests[k].step \in {"backup", "read"} => p.n \in applied
               /\ requests[k].step = "put" => p.n \in requests[k].ops
               /\ requests[k].step = "etag" => p.n \in written

\* The item of a deletion that waits is still there when it is its turn.
DeletesLast ==
    \A k \in DOMAIN queue : queue[k].op = "delete" =>
        /\ memory[queue[k].id] # 0
        /\ \A j \in DOMAIN queue : j < k =>
               queue[j].op # "refresh" /\ (queue[j].op = "delete" => queue[j].id # queue[k].id)
        /\ \A r \in DOMAIN requests : requests[r].step \notin {"get", "parse"}

IInv ==
    TypeOK /\ LockHeld /\ Turned /\ PendingHeld /\ Reached /\ DeletesLast /\ SuccessWritten

-----------------------------------------------------------------------------
(* Sequences and types *)

LEMMA Appended ==
    ASSUME NEW S, NEW s \in Seq(S), NEW e \in S
    PROVE  /\ Append(s, e) \in Seq(S)
           /\ Len(s) \in Nat /\ Len(Append(s, e)) = Len(s) + 1
           /\ DOMAIN Append(s, e) = 1 .. Len(s) + 1 /\ DOMAIN s = 1 .. Len(s)
           /\ \A j \in 1 .. Len(s) : Append(s, e)[j] = s[j]
           /\ Append(s, e)[Len(s) + 1] = e
BY AppendProperties, LenProperties

LEMMA Tailed ==
    ASSUME NEW S, NEW s \in Seq(S), s # <<>>
    PROVE  /\ Tail(s) \in Seq(S) /\ Head(s) \in S /\ Head(s) = s[1]
           /\ Len(s) \in Nat \ {0} /\ Len(Tail(s)) = Len(s) - 1
           /\ DOMAIN s = 1 .. Len(s) /\ DOMAIN Tail(s) = 1 .. Len(s) - 1
           /\ \A j \in 1 .. Len(s) - 1 : Tail(s)[j] = s[j + 1]
BY HeadTailProperties, LenProperties, EmptySeq

LEMMA OnlyRemoved ==
    ASSUME NEW S, NEW s \in Seq(S), Len(s) = 1
    PROVE  RemoveAt(s, 1) = <<>>
<1>1. SubSeq(s, 1, 0) = <<>> /\ SubSeq(s, 2, 1) = <<>>
  BY SubSeqProperties
<1>2. <<>> \o <<>> = <<>>
  BY EmptySeq, ConcatProperties
<1> QED
  BY <1>1, <1>2 DEF RemoveAt

\* Only one request is under way, and while one is, nothing else is.
LEMMA OnlyRequest ==
    ASSUME IInv, NEW k \in DOMAIN requests
    PROVE  /\ k = 1 /\ Len(requests) = 1 /\ DOMAIN requests = {1}
           /\ locked /\ turn = "none" /\ ~writing
           /\ requests \in Seq(Request) /\ requests[k] \in Request
           /\ Ends(k) => requests' = <<>>
<1>1. requests \in Seq(Request) /\ Len(requests) \in Nat /\ DOMAIN requests = 1 .. Len(requests)
  BY LenProperties DEF IInv, TypeOK
<1>2. Len(requests) = 1 /\ locked /\ k = 1
  BY <1>1 DEF IInv, LockHeld
<1>3. requests[k] \in Request
  BY <1>1, ElementOfSeq
<1>4. Ends(k) => requests' = <<>>
  BY <1>1, <1>2, OnlyRemoved DEF Ends
<1> QED
  BY <1>1, <1>2, <1>3, <1>4 DEF IInv, Turned

\* An answer that says "ok" is an old one or that of a change whose write was no failure.
LEMMA ToldRight ==
    ASSUME IInv, NEW failed \in BOOLEAN
    PROVE  /\ Told(failed) \in [Ops -> {"none", "waiting", "ok", "failed", "read"}]
           /\ \A n \in Ops : Told(failed)[n] = "ok" =>
                  \/ answers[n] = "ok"
                  \/ ~failed /\ \E p \in ToSet(pending) : p.n = n /\ p.ok
<1>1. answers \in [Ops -> {"none", "waiting", "ok", "failed", "read"}]
  BY DEF IInv, TypeOK
<1>2. ASSUME NEW n \in Ops
      PROVE  /\ Told(failed)[n] \in {"none", "waiting", "ok", "failed", "read"}
             /\ Told(failed)[n] = "ok" =>
                  \/ answers[n] = "ok"
                  \/ ~failed /\ \E p \in ToSet(pending) : p.n = n /\ p.ok
  <2>1. CASE \E p \in ToSet(pending) : p.n = n
    <3> DEFINE q == CHOOSE p \in ToSet(pending) : p.n = n
    <3>1. q \in ToSet(pending) /\ q.n = n
      BY <2>1
    <3>2. Told(failed)[n] = Result(q, failed)
      BY <2>1 DEF Told
    <3> QED
      BY <3>1, <3>2 DEF Result
  <2>2. CASE ~\E p \in ToSet(pending) : p.n = n
    BY <1>1, <2>2 DEF Told
  <2> QED
    BY <2>1, <2>2
<1>3. Told(failed) = [n \in Ops |-> Told(failed)[n]]
  BY DEF Told
<1> QED
  BY <1>2, <1>3

-----------------------------------------------------------------------------
(* Steps that several actions have in common *)

\* The types of what the queue, the lock and the requests do not touch.
DataTyped ==
    /\ scheme \in Schemes
    /\ file \in [items : Contents, tag : Nat] /\ base \in Nat
    /\ known \in Nat \cup {NoTag}
    /\ memory \in Contents
    /\ readOnly \in BOOLEAN
    /\ clock \in 0 .. MaxOps
    /\ applied \in SUBSET Ops /\ written \in SUBSET Ops

\* A request ends and the lock is given back.
LEMMA EndsFree ==
    ASSUME IInv, NEW k \in DOMAIN requests, Ends(k), DataTyped',
           NEW failed \in BOOLEAN, NEW next \in Turns \ {"none"}, Unlock(failed, next),
           UNCHANGED writing, queue' \in Seq(Action), DeletesLast', written \subseteq written',
           failed \/ \A p \in ToSet(pending) : p.ok => p.n \in written'
    PROVE  IInv'
<1>1. ~writing /\ requests' = <<>>
  BY OnlyRequest
<1>2. pending' = <<>> /\ locked' = FALSE /\ turn' = next /\ answers' = Told(failed)
  BY DEF Unlock
<1>3. <<>> \in Seq(Request) /\ <<>> \in Seq([n : Ops, ok : BOOLEAN]) /\ Len(<<>>) = 0
      /\ DOMAIN <<>> = {}
  BY EmptySeq, LenProperties
<1>4. TypeOK'
  <2>1. writing' \in BOOLEAN
    BY DEF IInv, TypeOK
  <2> QED
    BY <1>1, <1>2, <1>3, <2>1, ToldRight DEF TypeOK, DataTyped
<1>5. LockHeld' /\ Turned' /\ PendingHeld'
  BY <1>1, <1>2, <1>3 DEF LockHeld, Turned, PendingHeld
<1>6. Reached'
  BY <1>2, <1>3 DEF Reached, ToSet
<1>7. SuccessWritten'
  BY <1>2, ToldRight DEF IInv, SuccessWritten
<1> QED
  BY <1>4, <1>5, <1>6, <1>7 DEF IInv

\* A request goes on as another.
LEMMA GoesOn ==
    ASSUME IInv, NEW k \in DOMAIN requests, NEW r \in Request, Becomes(k, r), DataTyped',
           UNCHANGED <<memory, queue, locked, turn, writing, pending, answers>>,
           written \subseteq written',
           requests[k].step \in Uploading => r.step \in Uploading,
           r.step \in {"get", "parse"} => requests[k].step \in {"get", "parse"},
           \A p \in ToSet(pending) : p.ok =>
               /\ r.step \in {"backup", "read"} => p.n \in applied'
               /\ r.step = "put" => p.n \in r.ops
               /\ r.step = "etag" => p.n \in written'
    PROVE  IInv'
<1>1. /\ k = 1 /\ Len(requests) = 1 /\ DOMAIN requests = {1} /\ locked /\ ~writing
      /\ requests \in Seq(Request)
  BY OnlyRequest
<1>2. /\ requests' \in Seq(Request) /\ Len(requests') = 1 /\ DOMAIN requests' = {1}
      /\ requests'[1] = r
  BY <1>1, ExceptSeq DEF Becomes
<1>3. TypeOK'
  BY <1>2 DEF IInv, TypeOK, DataTyped
<1>4. LockHeld' /\ Turned'
  BY <1>1, <1>2 DEF IInv, LockHeld, Turned
<1>5. PendingHeld'
  BY <1>1, <1>2 DEF IInv, PendingHeld
<1>6. Reached'
  BY <1>1, <1>2 DEF IInv, Reached
<1>7. DeletesLast'
  BY <1>1, <1>2 DEF IInv, DeletesLast
<1>8. SuccessWritten'
  BY DEF IInv, SuccessWritten
<1> QED
  BY <1>3, <1>4, <1>5, <1>6, <1>7, <1>8 DEF IInv

LEMMA DataTypes ==
    ASSUME IInv
    PROVE  DataTyped
BY DEF IInv, TypeOK, DataTyped

-----------------------------------------------------------------------------
(* What is asked *)

LEMMA Enqueued ==
    ASSUME IInv, NEW a \in Action, Enqueue(a), UNCHANGED <<memory, requests, locked, writing>>,
           a.op = "delete" => memory[a.id] # 0 /\ Lasting(a.id)
    PROVE  queue' \in Seq(Action) /\ turn' \in Turns /\ Turned' /\ DeletesLast'
<1>1. queue \in Seq(Action) /\ queue' = Append(queue, a) /\ turn = "none"
      /\ turn' = IF locked THEN "none" ELSE "process"
  BY DEF IInv, TypeOK, Enqueue
<1>2. queue' \in Seq(Action) /\ turn' \in Turns
  BY <1>1, Appended DEF Turns
<1>3. Turned'
  BY <1>1 DEF IInv, Turned
<1>4. DeletesLast'
  <2>1. /\ Len(queue) \in Nat /\ DOMAIN queue = 1 .. Len(queue)
        /\ DOMAIN queue' = 1 .. Len(queue) + 1 /\ queue'[Len(queue) + 1] = a
        /\ \A j \in DOMAIN queue : queue'[j] = queue[j]
    BY <1>1, Appended
  <2>2. ASSUME NEW k \in DOMAIN queue', queue'[k].op = "delete"
        PROVE  /\ memory'[queue'[k].id] # 0
               /\ \A j \in DOMAIN queue' : j < k =>
                      queue'[j].op # "refresh"
                      /\ (queue'[j].op = "delete" => queue'[j].id # queue'[k].id)
               /\ \A r \in DOMAIN requests' : requests'[r].step \notin {"get", "parse"}
    <3>1. CASE k \in DOMAIN queue
      <4>1. \A j \in DOMAIN queue' : j < k => j \in DOMAIN queue
        BY <2>1, <3>1
      <4> QED
        BY <2>1, <2>2, <3>1, <4>1 DEF IInv, DeletesLast
    <3>2. CASE k = Len(queue) + 1
      <4>1. \A j \in DOMAIN queue' : j < k => j \in DOMAIN queue
        BY <2>1, <3>2
      <4> QED
        BY <2>1, <2>2, <3>2, <4>1 DEF Lasting
    <3> QED
      BY <2>1, <3>1, <3>2
  <2> QED
    BY <2>2 DEF DeletesLast
<1> QED
  BY <1>2, <1>3, <1>4

LEMMA Asked ==
    ASSUME IInv, NEW a \in Action, Ask(a),
           a.op = "delete" => memory[a.id] # 0 /\ Lasting(a.id)
    PROVE  IInv'
<1>1. Number \in Ops /\ clock' = Number /\ Enqueue(a)
      /\ answers' = [answers EXCEPT ![Number] = "waiting"]
      /\ UNCHANGED <<scheme, memory, locked, writing, pending, requests, readOnly, applied, fileVars>>
  BY ICSConstants DEF Ask, Number, Ops, IInv, TypeOK
<1>2. queue' \in Seq(Action) /\ turn' \in Turns /\ Turned' /\ DeletesLast'
  BY <1>1, Enqueued
<1>3. answers' \in [Ops -> {"none", "waiting", "ok", "failed", "read"}]
      /\ \A n \in Ops : answers'[n] = "ok" => answers[n] = "ok"
  BY <1>1 DEF IInv, TypeOK
<1>4. clock' \in 0 .. MaxOps
  BY <1>1, ICSConstants DEF Ops
<1>5. TypeOK'
  BY <1>1, <1>2, <1>3, <1>4 DEF IInv, TypeOK, fileVars
<1>6. LockHeld' /\ PendingHeld' /\ Reached'
  BY <1>1, <1>2 DEF IInv, LockHeld, PendingHeld, Reached, fileVars, Enqueue, Turned
<1>7. SuccessWritten'
  BY <1>1, <1>3 DEF IInv, SuccessWritten, fileVars
<1> QED
  BY <1>2, <1>5, <1>6, <1>7 DEF IInv

LEMMA ChangesTyped ==
    ASSUME IInv, NEW i \in Items, NEW op \in {"add", "modify", "delete"}, clock < MaxOps
    PROVE  Change(op, i) \in Action /\ Change(op, i).op = op /\ Change(op, i).id = i
BY ICSConstants DEF Change, Action, IInv, TypeOK, Contents, Number, Ops

LEMMA UserStep ==
    ASSUME IInv, Orderly, UserAsks
    PROVE  IInv'
<1>1. ASSUME NEW i \in Items, AdoptItem(i) \/ ModifyItem(i) \/ DeleteItem(i)
      PROVE  IInv'
  <2>1. CASE AdoptItem(i) \/ ModifyItem(i)
    <3>1. PICK op \in {"add", "modify"} : Ask(Change(op, i))
      BY <2>1 DEF AdoptItem, ModifyItem
    <3>2. clock < MaxOps
      BY <3>1 DEF Ask
    <3> QED
      BY <3>1, <3>2, ChangesTyped, Asked
  <2>2. CASE DeleteItem(i)
    <3>1. Ask(Change("delete", i)) /\ memory[i] # 0 /\ Lasting(i) /\ clock < MaxOps
      BY <2>2 DEF DeleteItem, Orderly, Ask
    <3> QED
      BY <3>1, ChangesTyped, Asked
  <2> QED
    BY <1>1, <2>1, <2>2
<1>2. CASE GetItems
  <2>1. clock < MaxOps
    BY <1>2 DEF GetItems, Ask
  <2>2. [op |-> "get", n |-> Number] \in Action
    BY <2>1, ICSConstants DEF Action, IInv, TypeOK, Number, Ops
  <2>3. Ask([op |-> "get", n |-> Number])
    BY <1>2 DEF GetItems
  <2> QED
    BY <2>2, <2>3, Asked
<1>3. CASE AskRefresh
  <2>1. Refresh(FALSE) \in Action /\ Refresh(FALSE).op # "delete" /\ Enqueue(Refresh(FALSE))
        /\ UNCHANGED <<scheme, memory, locked, writing, pending, requests, readOnly, clock, answers,
                       applied, fileVars>>
    BY <1>3 DEF Action, Refresh, AskRefresh
  <2>2. queue' \in Seq(Action) /\ turn' \in Turns /\ Turned' /\ DeletesLast'
    BY <2>1, Enqueued
  <2>3. TypeOK'
    BY <2>1, <2>2 DEF IInv, TypeOK, fileVars
  <2> QED
    BY <2>1, <2>2, <2>3
    DEF IInv, LockHeld, PendingHeld, Reached, SuccessWritten, fileVars, Enqueue, Turned
<1>4. CASE MakeWritable
  <2>1. readOnly' = FALSE
        /\ UNCHANGED <<scheme, memory, queue, locked, turn, writing, pending, requests, clock,
                       answers, applied, file, known, base, written>>
    BY <1>4 DEF MakeWritable, fileVars
  <2>2. TypeOK'
    BY <2>1 DEF IInv, TypeOK
  <2>3. LockHeld' /\ Turned' /\ PendingHeld' /\ SuccessWritten'
    BY <2>1 DEF IInv, LockHeld, Turned, PendingHeld, SuccessWritten
  <2>4. Reached' /\ DeletesLast'
    BY <2>1 DEF IInv, Reached, DeletesLast
  <2> QED
    BY <2>2, <2>3, <2>4 DEF IInv
<1> QED
  BY <1>1, <1>2, <1>3, <1>4 DEF UserAsks

-----------------------------------------------------------------------------
(* processQueue *)

\* While the loop runs nothing is under way, and it owes the answers it writes for.
LEMMA InLoop ==
    ASSUME IInv, turn # "none"
    PROVE  /\ ~locked /\ requests = <<>> /\ DOMAIN requests = {}
           /\ ~writing => pending = <<>>
<1>1. requests \in Seq(Request) /\ ~locked /\ Len(requests) = 0
  BY DEF IInv, TypeOK, Turned, LockHeld
<1>2. requests = <<>> /\ DOMAIN requests = {}
  BY <1>1, EmptySeq, LenProperties
<1> QED
  BY <1>1, <1>2 DEF IInv, PendingHeld

\* The head of the queue goes, and its item may.
LEMMA QueueRest ==
    ASSUME IInv, turn # "none", queue # <<>>
    PROVE  /\ Head(queue) \in Action /\ Tail(queue) \in Seq(Action)
           /\ queue' = Tail(queue) /\ requests' = <<>>
              /\ (\A i \in Items : memory[i] # 0 =>
                     memory'[i] # 0 \/ (Head(queue).op = "delete" /\ Head(queue).id = i))
              => DeletesLast'
           /\ Head(queue).op = "delete" => memory[Head(queue).id] # 0
           /\ Head(queue).op = "refresh" =>
                  \A k \in DOMAIN Tail(queue) : Tail(queue)[k].op # "delete"
<1>1. queue \in Seq(Action)
  BY DEF IInv, TypeOK
<1>2. /\ Tail(queue) \in Seq(Action) /\ Head(queue) \in Action /\ Head(queue) = queue[1]
      /\ Len(queue) \in Nat \ {0} /\ DOMAIN queue = 1 .. Len(queue)
      /\ DOMAIN Tail(queue) = 1 .. Len(queue) - 1
      /\ \A j \in 1 .. Len(queue) - 1 : Tail(queue)[j] = queue[j + 1]
  BY <1>1, Tailed
<1>3. \A k \in DOMAIN Tail(queue) :
          /\ k + 1 \in DOMAIN queue /\ 1 \in DOMAIN queue /\ 1 < k + 1
          /\ Tail(queue)[k] = queue[k + 1] /\ Tail(queue)[k] \in Action
  BY <1>1, <1>2, ElementOfSeq
<1>4. ASSUME queue' = Tail(queue), requests' = <<>>,
             \A i \in Items : memory[i] # 0 =>
                 memory'[i] # 0 \/ (Head(queue).op = "delete" /\ Head(queue).id = i)
      PROVE  DeletesLast'
  <2>1. DOMAIN requests' = {}
    BY <1>4, EmptySeq, LenProperties
  <2>2. ASSUME NEW k \in DOMAIN queue', queue'[k].op = "delete"
        PROVE  /\ memory'[queue'[k].id] # 0
               /\ \A j \in DOMAIN queue' : j < k =>
                      queue'[j].op # "refresh"
                      /\ (queue'[j].op = "delete" => queue'[j].id # queue'[k].id)
    <3>1. /\ memory[queue[k + 1].id] # 0
          /\ \A j \in DOMAIN queue : j < k + 1 =>
                 queue[j].op # "refresh" /\ (queue[j].op = "delete" => queue[j].id # queue[k + 1].id)
      BY <1>3, <1>4, <2>2 DEF IInv, DeletesLast
    <3>2. queue'[k].id \in Items
      BY <1>3, <1>4, <2>2 DEF Action
    <3>3. memory'[queue'[k].id] # 0
      BY <1>2, <1>3, <1>4, <3>1, <3>2
    <3>4. \A j \in DOMAIN queue' : j < k => j + 1 < k + 1
      BY <1>2, <1>4
    <3> QED
      BY <1>3, <1>4, <3>1, <3>3, <3>4
  <2> QED
    BY <2>1, <2>2 DEF DeletesLast
<1>5. Head(queue).op = "delete" => memory[Head(queue).id] # 0
  BY <1>2 DEF IInv, DeletesLast
<1>6. Head(queue).op = "refresh" => \A k \in DOMAIN Tail(queue) : Tail(queue)[k].op # "delete"
  BY <1>2, <1>3 DEF IInv, DeletesLast
<1> QED
  BY <1>2, <1>4, <1>5, <1>6

LEMMA PerformStep ==
    ASSUME IInv, turn # "none", Perform, UNCHANGED <<scheme, readOnly, clock, fileVars>>
    PROVE  IInv'
<1> DEFINE a == Head(queue)
           e == [n |-> a.n, ok |-> Accepts(a)]
<1>1. /\ a.op \in {"add", "modify", "delete"} /\ queue # <<>> /\ queue' = Tail(queue)
      /\ UNCHANGED <<locked, answers>>
  BY DEF Perform
<1>2. a \in Action /\ Tail(queue) \in Seq(Action) /\ (a.op = "delete" => memory[a.id] # 0)
  BY <1>1, QueueRest
<1>3. /\ memory' = IF ~Accepts(a) THEN memory
                   ELSE [memory EXCEPT ![a.id] = IF a.op = "delete" THEN 0 ELSE a.n + 1]
      /\ applied' = IF Accepts(a) THEN applied \cup {a.n} ELSE applied
      /\ pending' = Append(pending, e)
      /\ writing' = TRUE /\ UNCHANGED <<turn, requests>>
  BY <1>2 DEF Perform
<1>4. a.id \in Items /\ a.n \in Ops
  BY <1>1, <1>2 DEF Action
<1>5. memory' \in Contents
      /\ \A i \in Items : memory[i] # 0 => memory'[i] # 0 \/ (a.op = "delete" /\ a.id = i)
  <2>1. memory \in [Items -> Versions] /\ a.n + 1 \in Versions /\ 0 \in Versions /\ a.n + 1 # 0
    BY <1>4, ICSConstants DEF IInv, TypeOK, Contents, Versions, Ops
  <2> QED
    BY <1>1, <1>3, <1>4, <2>1 DEF Contents
<1>6. e \in [n : Ops, ok : BOOLEAN]
  BY <1>4 DEF Accepts
<1>7. /\ pending \in Seq([n : Ops, ok : BOOLEAN]) /\ pending' \in Seq([n : Ops, ok : BOOLEAN])
      /\ ToSet(pending') = ToSet(pending) \cup {e}
  <2>1. pending \in Seq([n : Ops, ok : BOOLEAN])
    BY DEF IInv, TypeOK
  <2>2. /\ pending' \in Seq([n : Ops, ok : BOOLEAN]) /\ Len(pending) \in Nat
        /\ DOMAIN pending' = 1 .. Len(pending) + 1 /\ DOMAIN pending = 1 .. Len(pending)
        /\ \A j \in 1 .. Len(pending) : pending'[j] = pending[j]
        /\ pending'[Len(pending) + 1] = e
    BY <1>3, <1>6, <2>1, Appended
  <2> QED
    BY <2>1, <2>2 DEF ToSet
<1> HIDE DEF a, e
<1>8. ~locked /\ requests = <<>> /\ DOMAIN requests = {} /\ (~writing => pending = <<>>)
  BY InLoop
<1>9. DeletesLast'
  BY <1>1, <1>3, <1>5, <1>8, QueueRest DEF a
<1>10. applied' \in SUBSET Ops
  BY <1>3, <1>4 DEF IInv, TypeOK
<1>11. TypeOK'
  BY <1>1, <1>2, <1>3, <1>5, <1>7, <1>10 DEF IInv, TypeOK, fileVars
<1>12. LockHeld' /\ Turned' /\ PendingHeld'
  BY <1>1, <1>3 DEF IInv, LockHeld, Turned, PendingHeld
<1>13. Reached'
  <2>1. ASSUME NEW p \in ToSet(pending'), p.ok
        PROVE  p.n \in applied'
    <3>1. CASE p = e
      BY <1>3, <2>1, <3>1 DEF e
    <3>2. CASE p \in ToSet(pending)
      <4>1. pending # <<>>
        BY <3>2, EmptySeq, LenProperties DEF ToSet
      <4>2. p.n \in applied
        BY <1>8, <2>1, <3>2, <4>1 DEF IInv, Reached
      <4> QED
        BY <1>3, <4>2
    <3> QED
      BY <1>7, <3>1, <3>2
  <2> QED
    BY <1>3, <1>8, <2>1 DEF Reached
<1>14. SuccessWritten'
  BY <1>1 DEF IInv, SuccessWritten, fileVars
<1> QED
  BY <1>9, <1>11, <1>12, <1>13, <1>14 DEF IInv

LEMMA ReadStep ==
    ASSUME IInv, turn # "none", Read, UNCHANGED <<scheme, readOnly, clock, fileVars>>
    PROVE  IInv'
<1>1. /\ queue # <<>> /\ Head(queue).op = "get" /\ queue' = Tail(queue)
      /\ answers' = [answers EXCEPT ![Head(queue).n] = "read"]
      /\ UNCHANGED <<memory, applied, pending, writing, locked, turn, requests>>
  BY DEF Read
<1>2. Tail(queue) \in Seq(Action) /\ requests = <<>>
  BY <1>1, QueueRest, InLoop
<1>3. DeletesLast'
  BY <1>1, <1>2, QueueRest
<1>4. answers' \in [Ops -> {"none", "waiting", "ok", "failed", "read"}]
      /\ \A n \in Ops : answers'[n] = "ok" => answers[n] = "ok"
  BY <1>1 DEF IInv, TypeOK
<1>5. TypeOK'
  BY <1>1, <1>2, <1>4 DEF IInv, TypeOK, fileVars
<1>6. LockHeld' /\ Turned' /\ PendingHeld'
  BY <1>1 DEF IInv, LockHeld, Turned, PendingHeld
<1>7. Reached'
  BY <1>1 DEF IInv, Reached, fileVars
<1>8. SuccessWritten'
  BY <1>4 DEF IInv, SuccessWritten, fileVars
<1> QED
  BY <1>3, <1>5, <1>6, <1>7, <1>8 DEF IInv

\* The queue begins with a refresh or is empty when the loop ends: no deletion waits.
LEMMA NoDeletions ==
    ASSUME IInv, turn # "none", queue # <<>> => Head(queue).op = "refresh"
    PROVE  \A k \in DOMAIN queue : queue[k].op # "delete"
<1>1. queue \in Seq(Action)
  BY DEF IInv, TypeOK
<1>2. CASE queue = <<>>
  BY <1>2, EmptySeq, LenProperties
<1>3. CASE queue # <<>>
  <2>1. Head(queue) = queue[1] /\ Len(queue) \in Nat \ {0} /\ DOMAIN queue = 1 .. Len(queue)
    BY <1>1, <1>3, Tailed
  <2> QED
    BY <1>3, <2>1 DEF IInv, DeletesLast
<1> QED
  BY <1>2, <1>3

LEMMA TurnEnds ==
    ASSUME IInv, NEW rest \in Seq(Action), NEW lock \in BOOLEAN, EndTurn(rest, lock),
           turn # "none", \A k \in DOMAIN rest : rest[k].op # "delete"
    PROVE  /\ queue' \in Seq(Action) /\ turn' \in Turns /\ Turned' /\ DeletesLast'
           /\ writing' = FALSE /\ locked' = lock
<1>1. writing' = FALSE /\ locked' = lock
  BY DEF EndTurn
<1>2. turn' \in Turns /\ Turned'
  <2>1. turn' = "none" \/ (turn' = "process" /\ lock = FALSE)
    BY DEF EndTurn
  <2> QED
    BY <1>1, <2>1 DEF Turns, Turned
<1>3. Refresh(TRUE) \in Action /\ Refresh(TRUE).op = "refresh"
  BY DEF Refresh, Action
<1>4. queue' = rest \/ queue' = Append(rest, Refresh(TRUE))
  BY DEF EndTurn
<1>5. queue' \in Seq(Action) /\ \A k \in DOMAIN queue' : queue'[k].op # "delete"
  <2> DEFINE r == Refresh(TRUE)
  <2>0. r \in Action /\ r.op # "delete" /\ (queue' = rest \/ queue' = Append(rest, r))
    BY <1>3, <1>4
  <2> HIDE DEF r
  <2>1. /\ Append(rest, r) \in Seq(Action)
        /\ Len(rest) \in Nat /\ DOMAIN rest = 1 .. Len(rest)
        /\ DOMAIN Append(rest, r) = 1 .. Len(rest) + 1
        /\ \A j \in 1 .. Len(rest) : Append(rest, r)[j] = rest[j]
        /\ Append(rest, r)[Len(rest) + 1] = r
    BY <2>0, Appended
  <2>2. CASE queue' = rest
    BY <2>2
  <2>3. CASE queue' = Append(rest, r)
    BY <2>0, <2>1, <2>3
  <2> QED
    BY <2>0, <2>2, <2>3
<1> QED
  BY <1>1, <1>2, <1>5 DEF DeletesLast

LEMMA Begun ==
    ASSUME IInv, NEW step \in {"get", "read", "backup"}, NEW force \in BOOLEAN, requests = <<>>,
           requests' = Append(requests, Begin(step, force))
    PROVE  /\ requests' \in Seq(Request) /\ Len(requests') = 1 /\ DOMAIN requests' = {1}
           /\ requests'[1].step = step
<1>1. Begin(step, force) \in Request /\ Begin(step, force).step = step
  BY ICSConstants DEF Begin, Request, Contents, Empty, Versions, Ops
<1>2. requests \in Seq(Request) /\ Len(requests) = 0
  BY LenProperties, EmptySeq DEF IInv, TypeOK
<1> QED
  BY <1>1, <1>2, Appended

LEMMA EndLoopStep ==
    ASSUME IInv, Orderly, turn # "none", EndLoop,
           UNCHANGED <<scheme, readOnly, clock, fileVars>>
    PROVE  IInv'
<1>1. /\ ~locked /\ requests = <<>> /\ DOMAIN requests = {} /\ (~writing => pending = <<>>)
      /\ queue \in Seq(Action)
  BY InLoop DEF IInv, TypeOK
<1>2. \A k \in DOMAIN queue : queue[k].op # "delete"
  BY NoDeletions DEF EndLoop
<1>3. UNCHANGED <<memory, applied>> /\ (queue # <<>> => Head(queue).op = "refresh")
  BY DEF EndLoop
<1>4. CASE writing
  <2>1. EndTurn(queue, TRUE) /\ UNCHANGED <<pending, answers>>
        /\ \E step \in {"read", "backup"} : requests' = Append(requests, Begin(step, FALSE))
    BY <1>4 DEF EndLoop, WriteICS, Orderly
  <2>2. /\ queue' \in Seq(Action) /\ turn' \in Turns /\ Turned' /\ DeletesLast'
        /\ writing' = FALSE /\ locked' = TRUE
    BY <1>1, <1>2, <2>1, TurnEnds
  <2>3. PICK step \in {"read", "backup"} :
            /\ requests' \in Seq(Request) /\ Len(requests') = 1 /\ DOMAIN requests' = {1}
            /\ requests'[1].step = step
    BY <1>1, <2>1, Begun
  <2>4. TypeOK'
    BY <1>3, <2>1, <2>2, <2>3 DEF IInv, TypeOK, fileVars
  <2>5. LockHeld' /\ PendingHeld'
    BY <2>2, <2>3 DEF LockHeld, PendingHeld, Uploading
  <2>6. Reached'
    BY <1>3, <1>4, <2>1, <2>2, <2>3 DEF IInv, Reached
  <2>7. SuccessWritten'
    BY <2>1 DEF IInv, SuccessWritten, fileVars
  <2> QED
    BY <2>2, <2>4, <2>5, <2>6, <2>7 DEF IInv
<1>5. CASE ~writing /\ queue # <<>>
  <2>1. DoRefresh /\ Head(queue) \in Action /\ Head(queue).op = "refresh"
        /\ Tail(queue) \in Seq(Action) /\ \A k \in DOMAIN Tail(queue) : Tail(queue)[k].op # "delete"
    BY <1>3, <1>5, QueueRest DEF EndLoop
  <2>2. CASE NoFile
    <3>1. /\ Unlock(FALSE, turn) /\ queue' = Tail(queue) /\ UNCHANGED <<writing, requests>>
      BY <2>1, <2>2 DEF DoRefresh
    <3>2. pending' = <<>> /\ pending = <<>> /\ locked' = FALSE /\ turn' = turn
          /\ answers' = Told(FALSE)
      BY <1>1, <1>5, <3>1 DEF Unlock
    <3>3. <<>> \in Seq([n : Ops, ok : BOOLEAN]) /\ DOMAIN <<>> = {}
      BY EmptySeq, LenProperties
    <3>4. TypeOK'
      BY <1>3, <2>1, <3>1, <3>2, <3>3, ToldRight DEF IInv, TypeOK, fileVars
    <3>5. LockHeld' /\ PendingHeld' /\ Turned'
      BY <1>1, <3>1, <3>2 DEF IInv, LockHeld, PendingHeld, Turned
    <3>6. Reached' /\ DeletesLast'
      BY <2>1, <3>1, <3>2, <3>3 DEF Reached, DeletesLast, ToSet
    <3>7. SuccessWritten'
      BY <3>2, <3>3, ToldRight DEF IInv, SuccessWritten, fileVars, ToSet
    <3> QED
      BY <3>4, <3>5, <3>6, <3>7 DEF IInv
  <2>3. CASE ~NoFile
    <3>1. /\ EndTurn(Tail(queue), TRUE) /\ UNCHANGED <<pending, answers>>
          /\ requests' = Append(requests, Begin("get", Head(queue).force))
          /\ Head(queue).force \in BOOLEAN
      BY <2>1, <2>3 DEF DoRefresh, Action
    <3>2. /\ queue' \in Seq(Action) /\ turn' \in Turns /\ Turned' /\ DeletesLast'
          /\ writing' = FALSE /\ locked' = TRUE
      BY <1>1, <2>1, <3>1, TurnEnds
    <3>3. /\ requests' \in Seq(Request) /\ Len(requests') = 1 /\ DOMAIN requests' = {1}
          /\ requests'[1].step = "get"
      BY <1>1, <3>1, Begun
    <3>4. TypeOK'
      BY <1>3, <3>1, <3>2, <3>3 DEF IInv, TypeOK, fileVars
    <3>5. LockHeld' /\ PendingHeld'
      BY <1>1, <1>5, <3>1, <3>2, <3>3 DEF LockHeld, PendingHeld
    <3>6. Reached'
      BY <3>1, <3>2, <3>3 DEF IInv, Reached
    <3>7. SuccessWritten'
      BY <3>1 DEF IInv, SuccessWritten, fileVars
    <3> QED
      BY <3>2, <3>4, <3>5, <3>6, <3>7 DEF IInv
  <2> QED
    BY <2>2, <2>3
<1>6. CASE ~writing /\ queue = <<>>
  <2>1. EndTurn(queue, locked) /\ UNCHANGED <<requests, pending, answers>>
    BY <1>6 DEF EndLoop
  <2>2. locked \in BOOLEAN
    BY DEF IInv, TypeOK
  <2>3. /\ queue' \in Seq(Action) /\ turn' \in Turns /\ Turned' /\ DeletesLast'
        /\ writing' = FALSE /\ locked' = locked
    BY <1>1, <1>2, <2>1, <2>2, TurnEnds
  <2>4. TypeOK'
    BY <1>3, <2>1, <2>2, <2>3 DEF IInv, TypeOK, fileVars
  <2>5. LockHeld' /\ PendingHeld' /\ Reached'
    BY <1>1, <1>3, <1>6, <2>1, <2>3 DEF IInv, LockHeld, PendingHeld, Reached
  <2>6. SuccessWritten'
    BY <2>1 DEF IInv, SuccessWritten, fileVars
  <2> QED
    BY <2>3, <2>4, <2>5, <2>6 DEF IInv
<1> QED
  BY <1>4, <1>5, <1>6

-----------------------------------------------------------------------------
(* Loading *)

\* No answer is due and no deletion waits while the file is read.
LEMMA WhileLoading ==
    ASSUME IInv, NEW k \in DOMAIN requests, requests[k].step \in {"get", "parse"}
    PROVE  pending = <<>> /\ \A j \in DOMAIN queue : queue[j].op # "delete"
BY OnlyRequest DEF IInv, PendingHeld, DeletesLast, Uploading

LEMMA LoadEnds ==
    ASSUME IInv, NEW k \in DOMAIN requests, requests[k].step \in {"get", "parse"},
           Ends(k), Unlock(FALSE, "process"), DataTyped', UNCHANGED <<queue, writing, written>>
    PROVE  IInv'
<1>1. pending = <<>> /\ \A j \in DOMAIN queue : queue[j].op # "delete"
  BY WhileLoading
<1>2. DeletesLast'
  BY <1>1 DEF DeletesLast
<1>3. \A p \in ToSet(pending) : p.ok => p.n \in written'
  BY <1>1, EmptySeq, LenProperties DEF ToSet
<1>4. queue' \in Seq(Action)
  BY DEF IInv, TypeOK
<1> QED
  BY <1>2, <1>3, <1>4, EndsFree DEF Turns

LEMMA LoadStep ==
    ASSUME IInv, NEW k \in DOMAIN requests,
           \/ KeepOldData(k) \/ LoadEmpty(k) \/ Undecodable(k) \/ Downloaded(k) \/ ParsingComplete(k)
    PROVE  IInv'
<1>1. DataTyped /\ requests[k] \in Request
  BY DataTypes, OnlyRequest
<1>2. CASE KeepOldData(k)
  BY <1>1, <1>2, LoadEnds DEF KeepOldData, At, DataTyped, fileVars
<1>3. CASE LoadEmpty(k)
  <2>1. Empty \in Contents
    BY ICSConstants DEF Empty, Contents, Versions
  <2> QED
    BY <1>1, <1>3, <2>1, LoadEnds DEF LoadEmpty, At, DataTyped
<1>4. CASE Undecodable(k)
  <2>1. known' \in Nat /\ readOnly' = TRUE
    BY <1>1, <1>4 DEF Undecodable, PageTags, DataTyped
  <2>2. DataTyped'
    BY <1>1, <1>4, <2>1 DEF Undecodable, DataTyped
  <2> QED
    BY <1>1, <1>4, <2>2, LoadEnds DEF Undecodable, At
<1>5. CASE Downloaded(k)
  <2>1. \E r \in Request : Becomes(k, r) /\ r.step = "parse"
    <3> DEFINE a == [requests[k] EXCEPT !.step = "parse", !.items = file.items, !.tag = file.tag]
               b == [requests[k] EXCEPT !.step = "parse"]
    <3>1. a \in Request /\ a.step = "parse" /\ b \in Request /\ b.step = "parse"
      BY <1>1 DEF Request, DataTyped
    <3>2. Becomes(k, a) \/ Becomes(k, b)
      BY <1>5 DEF Downloaded
    <3> HIDE DEF a, b
    <3> QED
      BY <3>1, <3>2
  <2> PICK r \in Request : Becomes(k, r) /\ r.step = "parse"
    BY <2>1
  <2>2. DataTyped' /\ requests[k].step = "get"
    BY <1>1, <1>5 DEF Downloaded, PageTags, DataTyped, At
  <2> QED
    BY <1>5, <2>2, GoesOn DEF Downloaded, Uploading
<1>6. CASE ParsingComplete(k)
  <2>1. DataTyped'
    BY <1>1, <1>6 DEF ParsingComplete, DataTyped, Request
  <2> QED
    BY <1>6, <2>1, LoadEnds DEF ParsingComplete, At
<1> QED
  BY <1>2, <1>3, <1>4, <1>5, <1>6

-----------------------------------------------------------------------------
(* Writing *)

\* Deletions that wait lose nothing by a request that ends, nor by a refresh behind them.
LEMMA DeletionsStay ==
    ASSUME IInv, requests' = <<>>, UNCHANGED memory,
           queue' = queue \/ queue' = Append(queue, Refresh(TRUE))
    PROVE  queue' \in Seq(Action) /\ DeletesLast'
<1> DEFINE r == Refresh(TRUE)
<1>1. r \in Action /\ r.op # "delete" /\ (queue' = queue \/ queue' = Append(queue, r))
  BY DEF Action, Refresh
<1> HIDE DEF r
<1>2. queue \in Seq(Action) /\ DOMAIN requests' = {}
  BY EmptySeq, LenProperties DEF IInv, TypeOK
<1>3. CASE queue' = queue
  BY <1>2, <1>3 DEF IInv, DeletesLast
<1>4. CASE queue' = Append(queue, r)
  <2>1. /\ queue' \in Seq(Action) /\ Len(queue) \in Nat /\ DOMAIN queue = 1 .. Len(queue)
        /\ DOMAIN queue' = 1 .. Len(queue) + 1 /\ queue'[Len(queue) + 1] = r
        /\ \A j \in DOMAIN queue : queue'[j] = queue[j]
    BY <1>1, <1>2, <1>4, Appended
  <2>2. ASSUME NEW k \in DOMAIN queue', queue'[k].op = "delete"
        PROVE  k \in DOMAIN queue /\ \A j \in DOMAIN queue' : j < k => j \in DOMAIN queue
    BY <1>1, <2>1, <2>2
  <2>3. DeletesLast'
    BY <1>2, <2>1, <2>2 DEF IInv, DeletesLast
  <2> QED
    BY <2>1, <2>3
<1> QED
  BY <1>1, <1>3, <1>4

LEMMA StoredTyped ==
    ASSUME IInv, NEW k \in DOMAIN requests, Store(k)
    PROVE  /\ file' \in [items : Contents, tag : Nat]
           /\ written' \in SUBSET Ops /\ written \subseteq written'
           /\ requests[k].ops \subseteq written'
<1>1. requests[k] \in Request /\ file \in [items : Contents, tag : Nat] /\ written \in SUBSET Ops
  BY OnlyRequest DEF IInv, TypeOK
<1> QED
  BY <1>1 DEF Store, Request

LEMMA UploadStep ==
    ASSUME IInv, NEW k \in DOMAIN requests, BackupComplete(k) \/ StartPut(k) \/ GiveUpPut(k)
    PROVE  IInv'
<1>1. DataTyped /\ requests[k] \in Request
  BY DataTypes, OnlyRequest
<1>2. CASE BackupComplete(k)
  <2> DEFINE r == [requests[k] EXCEPT !.step = "read"]
  <2>1. r \in Request /\ r.step = "read" /\ Becomes(k, r) /\ requests[k].step = "backup"
    BY <1>1, <1>2 DEF BackupComplete, Request, At
  <2> HIDE DEF r
  <2>2. DataTyped'
    BY <1>1, <1>2 DEF BackupComplete, DataTyped, fileVars
  <2>3. \A p \in ToSet(pending) : p.ok => p.n \in applied'
    BY <1>2, <2>1 DEF IInv, Reached, BackupComplete
  <2> QED
    BY <1>2, <2>1, <2>2, <2>3, GoesOn DEF BackupComplete, Uploading, fileVars
<1>3. CASE StartPut(k)
  <2> DEFINE r == [requests[k] EXCEPT !.step = "put", !.items = memory, !.ops = applied]
  <2>1. /\ r \in Request /\ r.step = "put" /\ r.ops = applied /\ Becomes(k, r)
        /\ requests[k].step = "read"
    BY <1>1, <1>3 DEF StartPut, Request, At, DataTyped
  <2> HIDE DEF r
  <2>2. DataTyped'
    BY <1>1, <1>3 DEF StartPut, DataTyped, fileVars
  <2>3. \A p \in ToSet(pending) : p.ok => p.n \in r.ops
    BY <2>1 DEF IInv, Reached
  <2> QED
    BY <1>3, <2>1, <2>2, <2>3, GoesOn DEF StartPut, Uploading, fileVars
<1>4. CASE GiveUpPut(k)
  <2>1. Ends(k) /\ UNCHANGED <<memory, queue, writing, written>> /\ requests' = <<>>
    BY <1>4, OnlyRequest DEF GiveUpPut, fileVars
  <2>2. PICK next \in {"process", "then refresh"} : Unlock(TRUE, next)
    BY <1>4 DEF GiveUpPut
  <2>3. DataTyped'
    BY <1>1, <1>4 DEF GiveUpPut, DataTyped, fileVars
  <2>4. queue' \in Seq(Action) /\ DeletesLast'
    BY <2>1, DeletionsStay
  <2> QED
    BY <2>1, <2>2, <2>3, <2>4, EndsFree DEF Turns
<1> QED
  BY <1>2, <1>3, <1>4

LEMMA PutStep ==
    ASSUME IInv, NEW k \in DOMAIN requests, PutSucceeds(k) \/ PutFails(k)
    PROVE  IInv'
<1>1. DataTyped /\ requests[k].step = "put"
  BY DataTypes DEF PutSucceeds, PutFails, At
<1>2. CASE PutSucceeds(k)
  <2>1. /\ file' \in [items : Contents, tag : Nat]
        /\ written' \in SUBSET Ops /\ written \subseteq written'
        /\ requests[k].ops \subseteq written'
    BY <1>2, StoredTyped DEF PutSucceeds
  <2>2. DataTyped'
    BY <1>1, <1>2, <2>1 DEF PutSucceeds, DataTyped
  <2>3. \A p \in ToSet(pending) : p.ok => p.n \in written'
    BY <1>1, <2>1 DEF IInv, Reached
  <2>4. CASE Ends(k) /\ Unlock(FALSE, IF scheme = "http" THEN "try" ELSE "process")
    <3>1. requests' = <<>> /\ UNCHANGED <<memory, queue, writing>>
      BY <1>2, <2>4, OnlyRequest DEF PutSucceeds
    <3>2. queue' \in Seq(Action) /\ DeletesLast'
      BY <3>1, DeletionsStay
    <3>3. PICK next \in {"try", "process"} : Unlock(FALSE, next)
      BY <2>4
    <3> QED
      BY <2>1, <2>2, <2>3, <2>4, <3>1, <3>2, <3>3, EndsFree DEF Turns
  <2>5. CASE Becomes(k, Begin("etag", FALSE)) /\ UNCHANGED <<known, locked, turn, pending, answers>>
    <3> DEFINE r == Begin("etag", FALSE)
    <3>1. r \in Request /\ r.step = "etag" /\ Becomes(k, r)
      BY <2>5, ICSConstants DEF Begin, Request, Contents, Empty, Versions
    <3> HIDE DEF r
    <3> QED
      BY <1>1, <1>2, <2>1, <2>2, <2>3, <2>5, <3>1, GoesOn DEF PutSucceeds, Uploading
  <2> QED
    BY <1>2, <2>4, <2>5 DEF PutSucceeds
<1>3. CASE PutFails(k)
  <2>1. /\ Ends(k) /\ Unlock(TRUE, "process") /\ queue' = Append(queue, Refresh(TRUE))
        /\ UNCHANGED <<scheme, known, memory, writing, clock, applied>> /\ readOnly' = TRUE
        /\ requests' = <<>>
    BY <1>3, OnlyRequest DEF PutFails
  <2>2. DataTyped' /\ written \subseteq written'
    <3>1. CASE UNCHANGED <<file, base, written>>
      BY <1>1, <2>1, <3>1 DEF DataTyped
    <3>2. CASE Store(k) /\ base' = file'.tag
      <4>1. /\ file' \in [items : Contents, tag : Nat]
            /\ written' \in SUBSET Ops /\ written \subseteq written'
        BY <3>2, StoredTyped
      <4> QED
        BY <1>1, <2>1, <3>2, <4>1 DEF DataTyped
    <3> QED
      BY <1>3, <3>1, <3>2 DEF PutFails
  <2>3. queue' \in Seq(Action) /\ DeletesLast'
    BY <2>1, DeletionsStay
  <2> QED
    BY <2>1, <2>2, <2>3, EndsFree DEF Turns
<1> QED
  BY <1>2, <1>3

LEMMA EtagStep ==
    ASSUME IInv, Orderly, NEW k \in DOMAIN requests, EtagAnswered(k)
    PROVE  IInv'
<1>1. /\ requests[k].step = "etag" /\ Ends(k) /\ requests' = <<>>
      /\ known' \in {file.tag, NoTag} /\ Unlock(FALSE, "process")
      /\ UNCHANGED <<scheme, file, memory, queue, writing, readOnly, clock, applied, base, written>>
  BY OnlyRequest DEF EtagAnswered, At, Orderly
<1>2. DataTyped'
  BY <1>1, DataTypes DEF DataTyped
<1>3. queue' \in Seq(Action) /\ DeletesLast'
  BY <1>1, DeletionsStay
<1>4. \A p \in ToSet(pending) : p.ok => p.n \in written'
  BY <1>1 DEF IInv, Reached
<1> QED
  BY <1>1, <1>2, <1>3, <1>4, EndsFree DEF Turns

LEMMA OthersStep ==
    ASSUME IInv, NEW i \in Items, OtherWrites(i)
    PROVE  IInv'
<1>1. /\ clock' = Number /\ clock < MaxOps
      /\ UNCHANGED <<scheme, known, memory, queue, locked, turn, writing, pending, requests,
                     readOnly, answers, applied, base, written>>
  BY DEF OtherWrites
<1>2. PICK v \in {0, Number + 1} :
          file' = [items |-> [file.items EXCEPT ![i] = v], tag |-> file.tag + 1]
  BY DEF OtherWrites
<1>3. clock' \in 0 .. MaxOps /\ v \in Versions
  BY <1>1, <1>2, ICSConstants DEF IInv, TypeOK, Number, Versions
<1>4. file' \in [items : Contents, tag : Nat]
  BY <1>2, <1>3 DEF IInv, TypeOK, Contents
<1>5. TypeOK'
  BY <1>1, <1>3, <1>4 DEF IInv, TypeOK
<1> QED
  BY <1>1, <1>5
  DEF IInv, LockHeld, Turned, PendingHeld, Reached, DeletesLast, SuccessWritten

-----------------------------------------------------------------------------
(* The theorems *)

LEMMA IInvInit ==
    ASSUME Init
    PROVE  IInv
<1>1. TypeOK
  <2>1. Empty \in Contents /\ [Items -> {0, 1}] \subseteq Contents
    BY ICSConstants DEF Empty, Contents, Versions
  <2>2. <<Refresh(FALSE)>> \in Seq(Action)
    BY DEF Refresh, Action
  <2>3. <<>> \in Seq([n : Ops, ok : BOOLEAN]) /\ <<>> \in Seq(Request)
    BY EmptySeq
  <2>4. file \in [items : Contents, tag : Nat]
    BY <2>1 DEF Init
  <2>5. answers \in [Ops -> {"none", "waiting", "ok", "failed", "read"}]
    BY DEF Init
  <2>6. scheme \in Schemes /\ base \in Nat /\ known \in Nat \cup {NoTag} /\ memory \in Contents
    BY <2>1 DEF Init
  <2>7. queue \in Seq(Action) /\ pending \in Seq([n : Ops, ok : BOOLEAN]) /\ requests \in Seq(Request)
    BY <2>2, <2>3 DEF Init
  <2>8. turn \in Turns /\ applied \in SUBSET Ops /\ written \in SUBSET Ops
    BY DEF Init, Turns
  <2>9. locked \in BOOLEAN /\ writing \in BOOLEAN /\ readOnly \in BOOLEAN
    BY DEF Init
  <2>10. clock \in 0 .. MaxOps
    BY ICSConstants DEF Init
  <2> QED
    BY <2>4, <2>5, <2>6, <2>7, <2>8, <2>9, <2>10 DEF TypeOK
<1>2. LockHeld /\ Turned /\ PendingHeld /\ SuccessWritten
  BY EmptySeq, LenProperties DEF Init, LockHeld, Turned, PendingHeld, SuccessWritten
<1>3. Reached
  BY EmptySeq, LenProperties DEF Init, Reached, ToSet
<1>4. DeletesLast
  BY DEF Init, DeletesLast, Refresh
<1> QED
  BY <1>1, <1>2, <1>3, <1>4 DEF IInv

LEMMA IInvNext ==
    ASSUME IInv, Orderly, [Next]_vars
    PROVE  IInv'
<1>1. CASE UserAsks
  BY <1>1, UserStep
<1>2. CASE ProcessQueue
  BY <1>2, PerformStep, ReadStep, EndLoopStep DEF ProcessQueue
<1>3. CASE Progress
  BY <1>3, LoadStep, UploadStep, PutStep, EtagStep DEF Progress
<1>4. CASE \E i \in Items : OtherWrites(i)
  BY <1>4, OthersStep
<1>5. CASE UNCHANGED vars
  <2>1. TypeOK'
    BY <1>5 DEF vars, IInv, TypeOK
  <2> QED
    BY <1>5, <2>1
    DEF vars, IInv, LockHeld, Turned, PendingHeld, Reached, DeletesLast, SuccessWritten
<1> QED
  BY <1>1, <1>2, <1>3, <1>4, <1>5 DEF Next

\* The queue, the requests and the answers stay well typed (calICSCalendar.js:519-612).
THEOREM CalendarTyped == Orderly => (Spec => []TypeOK)
<1>1. ASSUME IInv PROVE TypeOK
  BY <1>1 DEF IInv
<1>2. ASSUME Orderly PROVE Spec => []TypeOK
  BY <1>1, <1>2, IInvInit, IInvNext, PTL DEF Spec
<1> QED
  BY <1>2

\* Every path of the loading and the writing gives the lock back once, at its end
\* (calICSCalendar.js:220, 253, 262, 279, 315, 331, 378, 388, 462, 471).
THEOREM LockAlwaysHeld == Orderly => (Spec => []LockHeld)
<1>1. ASSUME IInv PROVE LockHeld
  BY <1>1 DEF IInv
<1>2. ASSUME Orderly PROVE Spec => []LockHeld
  BY <1>1, <1>2, IInvInit, IInvNext, PTL DEF Spec
<1> QED
  BY <1>2

\* unlock tells no listener of a success that has not been part of the file (594-608).
THEOREM SuccessAlwaysWritten == Orderly => (Spec => []SuccessWritten)
<1>1. ASSUME IInv PROVE SuccessWritten
  BY <1>1 DEF IInv
<1>2. ASSUME Orderly PROVE Spec => []SuccessWritten
  BY <1>1, <1>2, IInvInit, IInvNext, PTL DEF Spec
<1> QED
  BY <1>2

-----------------------------------------------------------------------------
(* What other clients write is kept *)

\* Other clients write only while a tag is known, and only requests that write may fail.
Tagged == Disturbances \subseteq {"others", "failures"}

\* The file is about to be read for the first time, or is being read.
Unread ==
    \/ turn = "process" /\ ~writing /\ queue # <<>> /\ Head(queue).op = "refresh"
    \/ \E k \in DOMAIN requests : requests[k].step = "get"

Parsing == \E k \in DOMAIN requests : requests[k].step = "parse"

\* The tag that is known, and none other than the file's own, stands for a file that the
\* memory calendar has been made from; and before there is one, there are no others.
TagTrue ==
    /\ known <= file.tag
    /\ file.tag = 0 => base = 0
    /\ known = file.tag => base = file.tag \/ Parsing
    /\ known = 0 => base = file.tag \/ Unread
    /\ \A k \in DOMAIN requests :
           /\ requests[k].step = "parse" => requests[k].tag = known /\ known # 0
           /\ requests[k].step = "etag" => base = file.tag
           /\ requests[k].step = "put" /\ scheme = "file" => known \in {0, file.tag}

KInv == IInv /\ TagTrue

LEMMA TagTypes ==
    ASSUME IInv
    PROVE  /\ file.tag \in Nat /\ base \in Nat /\ known \in Int /\ NoTag = -1
           /\ \A k \in DOMAIN requests : requests[k].tag \in Nat
BY OnlyRequest DEF IInv, TypeOK, NoTag, Request

LEMMA TagAsked ==
    ASSUME KInv, UserAsks
    PROVE  TagTrue'
<1>1. turn = "none" /\ UNCHANGED <<scheme, requests, file, known, base>>
  BY DEF UserAsks, AdoptItem, ModifyItem, DeleteItem, GetItems, AskRefresh, MakeWritable, Ask,
         Enqueue, fileVars
<1> QED
  BY <1>1 DEF KInv, TagTrue, Unread, Parsing

\* In the loop the file is not touched; at its end it may begin to be read.
LEMMA TagQueue ==
    ASSUME KInv, Orderly, ProcessQueue
    PROVE  TagTrue'
<1>1. /\ turn # "none" /\ ~locked /\ requests = <<>> /\ DOMAIN requests = {}
      /\ UNCHANGED <<scheme, file, known, base>>
  BY InLoop DEF KInv, ProcessQueue, fileVars
<1>2. CASE Perform \/ Read
  <2>1. ~Unread /\ queue # <<>>
    BY <1>1, <1>2 DEF Perform, Read, Unread
  <2>2. requests' = <<>>
    <3>1. CASE Perform
      BY <1>1, <3>1, QueueRest DEF Perform, KInv
    <3>2. CASE Read
      BY <1>1, <3>2 DEF Read
    <3> QED
      BY <1>2, <3>1, <3>2
  <2> QED
    BY <1>1, <2>1, <2>2 DEF KInv, TagTrue, Parsing
<1>3. CASE EndLoop
  <2>1. CASE writing
    <3>1. \E step \in {"read", "backup"} : requests' = Append(requests, Begin(step, FALSE))
      BY <1>3, <2>1 DEF EndLoop, WriteICS, Orderly
    <3>2. DOMAIN requests' = {1} /\ requests'[1].step \in {"read", "backup"}
      BY <1>1, <3>1, Begun DEF KInv
    <3>3. ~Unread
      BY <1>1, <2>1 DEF Unread
    <3> QED
      BY <1>1, <3>2, <3>3 DEF KInv, TagTrue, Parsing
  <2>2. CASE ~writing /\ queue # <<>> /\ NoFile
    <3>1. requests' = requests /\ file.tag = 0
      BY <1>3, <2>2 DEF EndLoop, DoRefresh, NoFile
    <3> QED
      BY <1>1, <3>1 DEF KInv, TagTrue, Parsing
  <2>3. CASE ~writing /\ queue # <<>> /\ ~NoFile
    <3>1. requests' = Append(requests, Begin("get", Head(queue).force)) /\ Head(queue).force \in BOOLEAN
      BY <1>1, <1>3, <2>3, QueueRest DEF EndLoop, DoRefresh, KInv, Action
    <3>2. DOMAIN requests' = {1} /\ requests'[1].step = "get"
      BY <1>1, <3>1, Begun DEF KInv
    <3> QED
      BY <1>1, <3>2 DEF KInv, TagTrue, Parsing, Unread
  <2>4. CASE ~writing /\ queue = <<>>
    <3>1. requests' = requests /\ ~Unread
      BY <1>1, <1>3, <2>4 DEF EndLoop, Unread
    <3> QED
      BY <1>1, <3>1 DEF KInv, TagTrue, Parsing
  <2> QED
    BY <2>1, <2>2, <2>3, <2>4
<1> QED
  BY <1>2, <1>3 DEF ProcessQueue

LEMMA TagLoaded ==
    ASSUME KInv, Tagged, NEW k \in DOMAIN requests,
           \/ KeepOldData(k) \/ LoadEmpty(k) \/ Undecodable(k) \/ Downloaded(k) \/ ParsingComplete(k)
    PROVE  TagTrue'
<1>1. /\ k = 1 /\ DOMAIN requests = {1} /\ turn = "none" /\ requests \in Seq(Request)
      /\ requests[k] \in Request /\ Len(requests) = 1 /\ (Ends(k) => requests' = <<>>)
  BY OnlyRequest DEF KInv
<1>2. DOMAIN <<>> = {}
  BY EmptySeq, LenProperties
<1>3. file.tag \in Nat /\ base \in Nat /\ known \in Int /\ requests[k].tag \in Nat
  BY TagTypes DEF KInv
<1>4. CASE KeepOldData(k)
  <2>1. /\ requests[k].step = "get" /\ requests' = <<>> /\ UNCHANGED <<scheme, file, known, base>>
        /\ file.tag = 0 \/ known = file.tag \/ known # 0
    BY <1>1, <1>4 DEF KeepOldData, At, NothingNew, Tagged, fileVars
  <2> QED
    BY <1>1, <1>2, <1>3, <2>1 DEF KInv, TagTrue, Parsing, Unread
<1>5. CASE LoadEmpty(k)
  <2>1. requests' = <<>> /\ known' = file.tag /\ base' = file.tag /\ file' = file /\ file.tag # 0
    BY <1>1, <1>5 DEF LoadEmpty, NothingNew
  <2> QED
    BY <1>2, <1>3, <2>1 DEF TagTrue
<1>6. CASE Undecodable(k)
  BY <1>6 DEF Undecodable, Tagged
<1>7. CASE Downloaded(k)
  <2> DEFINE r == [requests[k] EXCEPT !.step = "parse", !.items = file.items, !.tag = file.tag]
  <2>1. /\ requests' = [requests EXCEPT ![1] = r] /\ known' = file.tag /\ file.tag # 0
        /\ UNCHANGED <<scheme, file, base>>
    BY <1>1, <1>7 DEF Downloaded, NothingNew, Tagged, Becomes
  <2>2. r.step = "parse" /\ r.tag = file.tag
    BY <1>1 DEF Request
  <2> HIDE DEF r
  <2>3. DOMAIN requests' = {1} /\ requests'[1] = r
    BY <1>1, <2>1
  <2> QED
    BY <1>3, <2>1, <2>2, <2>3 DEF KInv, TagTrue, Parsing
<1>8. CASE ParsingComplete(k)
  <2>1. /\ requests[k].step = "parse" /\ requests' = <<>> /\ UNCHANGED <<file, known>>
        /\ base' = IF requests[k].tag = 0 THEN base ELSE requests[k].tag
    BY <1>1, <1>8 DEF ParsingComplete, At
  <2>2. requests[k].tag = known /\ known # 0 /\ known <= file.tag
    BY <2>1 DEF KInv, TagTrue
  <2>3. base' = known /\ file.tag # 0
    BY <1>3, <2>1, <2>2
  <2> QED
    BY <1>2, <1>3, <2>1, <2>2, <2>3 DEF TagTrue
<1> QED
  BY <1>4, <1>5, <1>6, <1>7, <1>8

\* An upload under way: what it would replace is what the memory calendar was made from.
LEMMA ReplacesOwn ==
    ASSUME KInv, NEW k \in DOMAIN requests, requests[k].step = "put", Accepted
    PROVE  base = file.tag
<1>1. DOMAIN requests = {k} /\ turn = "none" /\ ~Unread /\ ~Parsing
  BY OnlyRequest DEF KInv, Unread, Parsing
<1>2. known \in {0, file.tag}
  BY ICSConstants DEF KInv, IInv, TypeOK, TagTrue, Accepted
<1> QED
  BY <1>1, <1>2 DEF KInv, TagTrue

LEMMA TagWritten ==
    ASSUME KInv, Orderly, NEW k \in DOMAIN requests,
           \/ BackupComplete(k) \/ StartPut(k) \/ GiveUpPut(k)
           \/ PutSucceeds(k) \/ PutFails(k) \/ EtagAnswered(k)
    PROVE  TagTrue'
<1>1. /\ k = 1 /\ DOMAIN requests = {1} /\ turn = "none" /\ requests \in Seq(Request)
      /\ requests[k] \in Request /\ Len(requests) = 1 /\ (Ends(k) => requests' = <<>>)
  BY OnlyRequest DEF KInv
<1>2. DOMAIN <<>> = {}
  BY EmptySeq, LenProperties
<1>3. file.tag \in Nat /\ base \in Nat /\ known \in Int /\ NoTag = -1
  BY TagTypes DEF KInv
<1>4. ~Unread /\ ~Parsing
  BY <1>1 DEF BackupComplete, StartPut, GiveUpPut, PutSucceeds, PutFails, EtagAnswered, At,
              Unread, Parsing
<1>5. ASSUME NEW r, Becomes(k, r)
      PROVE  DOMAIN requests' = {1} /\ requests'[1] = r
  BY <1>1, <1>5 DEF Becomes
<1>6. CASE BackupComplete(k)
  <2> DEFINE r == [requests[k] EXCEPT !.step = "read"]
  <2>1. Becomes(k, r) /\ r.step = "read" /\ UNCHANGED <<scheme, file, known, base>>
    BY <1>1, <1>6 DEF BackupComplete, fileVars, Request
  <2> HIDE DEF r
  <2> QED
    BY <1>4, <1>5, <2>1 DEF KInv, TagTrue, Parsing
<1>7. CASE StartPut(k)
  <2> DEFINE r == [requests[k] EXCEPT !.step = "put", !.items = memory, !.ops = applied]
  <2>1. Becomes(k, r) /\ r.step = "put" /\ UNCHANGED <<scheme, file, known, base>> /\ NotChanged
    BY <1>1, <1>7 DEF StartPut, fileVars, Request
  <2> HIDE DEF r
  <2> QED
    BY <1>4, <1>5, <2>1 DEF KInv, TagTrue, Parsing, NotChanged
<1>8. CASE GiveUpPut(k)
  <2>1. requests' = <<>> /\ UNCHANGED <<scheme, file, known, base>>
    BY <1>1, <1>8 DEF GiveUpPut, fileVars
  <2> QED
    BY <1>2, <1>4, <2>1 DEF KInv, TagTrue
<1>9. CASE PutSucceeds(k)
  <2>1. file'.tag = file.tag + 1 /\ base' = file'.tag
    BY <1>9 DEF PutSucceeds, Store
  <2>2. CASE known' = file'.tag /\ Ends(k)
    BY <1>1, <1>2, <1>3, <2>1, <2>2 DEF TagTrue
  <2>3. CASE known' = known /\ Becomes(k, Begin("etag", FALSE))
    <3>1. DOMAIN requests' = {1} /\ requests'[1].step = "etag"
      BY <1>5, <2>3 DEF Begin
    <3> QED
      BY <1>3, <2>1, <2>3, <3>1 DEF KInv, TagTrue
  <2> QED
    BY <1>9, <2>2, <2>3 DEF PutSucceeds
<1>10. CASE PutFails(k)
  <2>1. requests' = <<>> /\ known' = known
    BY <1>1, <1>10 DEF PutFails
  <2>2. CASE UNCHANGED <<file, base>>
    BY <1>2, <1>4, <2>1, <2>2 DEF KInv, TagTrue
  <2>3. CASE Store(k) /\ base' = file'.tag
    <3>1. file'.tag = file.tag + 1
      BY <2>3 DEF Store
    <3> QED
      BY <1>2, <1>3, <2>1, <2>3, <3>1 DEF KInv, TagTrue
  <2> QED
    BY <1>10, <2>2, <2>3 DEF PutFails
<1>11. CASE EtagAnswered(k)
  <2>1. requests' = <<>> /\ known' \in {file.tag, NoTag} /\ UNCHANGED <<file, base>>
        /\ requests[k].step = "etag"
    BY <1>1, <1>11 DEF EtagAnswered, At, Orderly
  <2> QED
    BY <1>2, <1>3, <2>1 DEF KInv, TagTrue
<1> QED
  BY <1>6, <1>7, <1>8, <1>9, <1>10, <1>11

LEMMA TagOthers ==
    ASSUME KInv, Tagged, NEW i \in Items, OtherWrites(i)
    PROVE  TagTrue'
<1>1. /\ known # 0 /\ ~TagUnknown /\ file'.tag = file.tag + 1
      /\ UNCHANGED <<scheme, known, requests, base>>
  BY DEF OtherWrites, Tagged
<1>2. file.tag \in Nat /\ base \in Nat /\ known \in Int
  BY TagTypes DEF KInv
<1> QED
  BY <1>1, <1>2 DEF KInv, TagTrue, TagUnknown

LEMMA TaggedOrderly == Tagged => Orderly
BY DEF Tagged, Orderly

LEMMA KInvInit ==
    ASSUME Init
    PROVE  KInv
<1>1. DOMAIN requests = {} /\ Unread
  BY EmptySeq, LenProperties, HeadTailProperties DEF Init, Unread, Refresh
<1>2. known = 0 /\ base = 0 /\ file.tag \in {0, 1}
  BY DEF Init
<1> QED
  BY <1>1, <1>2, IInvInit DEF KInv, TagTrue

LEMMA KInvNext ==
    ASSUME Tagged, KInv, [Next]_vars
    PROVE  KInv'
<1>0. Orderly
  BY TaggedOrderly
<1>1. IInv'
  BY <1>0, IInvNext DEF KInv
<1>2. TagTrue'
  <2>1. CASE UserAsks
    BY <2>1, TagAsked
  <2>2. CASE ProcessQueue
    BY <1>0, <2>2, TagQueue
  <2>3. CASE Progress
    BY <1>0, <2>3, TagLoaded, TagWritten DEF Progress
  <2>4. CASE \E i \in Items : OtherWrites(i)
    BY <2>4, TagOthers
  <2>5. CASE UNCHANGED vars
    BY <2>5 DEF vars, KInv, TagTrue, Unread, Parsing
  <2> QED
    BY <2>1, <2>2, <2>3, <2>4, <2>5 DEF Next
<1> QED
  BY <1>1, <1>2 DEF KInv

\* OthersKept: what another client has written is not overwritten unseen, for any number
\* of items, requests and other clients' writes, whatever uploads fail or lose their answer.
THEOREM OthersAlwaysKept == Tagged => (Spec => OthersKept)
<1>1. ASSUME Tagged, KInv, [Next]_vars PROVE [file' # file /\ clock' = clock => base = file.tag]_vars
  <2>1. SUFFICES ASSUME Next, file' # file, clock' = clock
                 PROVE  base = file.tag
    BY <1>1 DEF vars
  <2>2. clock \in Nat
    BY <1>1, ICSConstants DEF KInv, IInv, TypeOK
  <2>3. CASE UserAsks
    BY <2>1, <2>3 DEF UserAsks, AdoptItem, ModifyItem, DeleteItem, GetItems, AskRefresh,
                      MakeWritable, Ask, fileVars
  <2>4. CASE ProcessQueue
    BY <2>1, <2>4 DEF ProcessQueue, fileVars
  <2>5. CASE \E i \in Items : OtherWrites(i)
    BY <2>1, <2>2, <2>5 DEF OtherWrites, Number
  <2>6. CASE Progress
    <3>1. PICK k \in DOMAIN requests : PutSucceeds(k) \/ PutFails(k)
      BY <2>1, <2>6 DEF Progress, KeepOldData, LoadEmpty, Undecodable, Downloaded, ParsingComplete,
                        BackupComplete, StartPut, GiveUpPut, EtagAnswered, fileVars
    <3>2. requests[k].step = "put" /\ Accepted
      BY <2>1, <3>1 DEF PutSucceeds, PutFails, At
    <3> QED
      BY <1>1, <3>2, ReplacesOwn
  <2> QED
    BY <2>1, <2>3, <2>4, <2>5, <2>6 DEF Next
<1>2. ASSUME Tagged PROVE Spec => OthersKept
  BY <1>1, <1>2, KInvInit, KInvNext, PTL DEF Spec, OthersKept
<1> QED
  BY <1>2
-----------------------------------------------------------------------------
(* What is shown is what the file holds *)

\* The file will be read again before the calendar is idle.
Corrected ==
    \/ turn = "then refresh"
    \/ \E j \in DOMAIN queue : queue[j] = Refresh(TRUE)
    \/ \E k \in DOMAIN requests : requests[k].step = "get" /\ requests[k].force

\* Nothing waits in an idle calendar.
Served == turn = "none" /\ ~locked => queue = <<>>

\* The memory calendar holds what the known file holds, unless it is on its way into the
\* file or is to be read from it; and what is on its way is what will be compared.
Mirrored ==
    /\ known = file.tag /\ file.tag # 0 =>
           \/ memory = file.items \/ Corrected \/ writing
           \/ \E k \in DOMAIN requests : requests[k].step \in {"parse", "backup", "read", "put"}
    /\ \A k \in DOMAIN requests :
           /\ requests[k].step = "parse" /\ requests[k].tag = file.tag
                  => requests[k].items = file.items
           /\ requests[k].step = "put" => requests[k].items = memory
           /\ requests[k].step = "etag" => memory = file.items

MInv == KInv /\ Served /\ Mirrored

\* Only its head leaves a queue.
LEMMA BehindHead ==
    ASSUME NEW S, NEW s \in Seq(S), NEW r, s # <<>>, Head(s) # r, NEW j \in DOMAIN s, s[j] = r
    PROVE  j - 1 \in DOMAIN Tail(s) /\ Tail(s)[j - 1] = r
<1>1. /\ Len(s) \in Nat \ {0} /\ DOMAIN s = 1 .. Len(s) /\ DOMAIN Tail(s) = 1 .. Len(s) - 1
      /\ Head(s) = s[1] /\ \A i \in 1 .. Len(s) - 1 : Tail(s)[i] = s[i + 1]
  BY Tailed
<1>2. j - 1 \in 1 .. Len(s) - 1 /\ (j - 1) + 1 = j
  BY <1>1
<1> QED
  BY <1>1, <1>2

LEMMA MirrorAsked ==
    ASSUME MInv, UserAsks
    PROVE  Served' /\ Mirrored'
<1> DEFINE Put(a) == queue' = Append(queue, a) /\ turn' = IF locked THEN "none" ELSE "process"
<1>1. /\ turn = "none" /\ UNCHANGED <<memory, requests, file, known, writing, locked>>
      /\ (queue' = queue /\ turn' = turn) \/ \E a : Put(a)
  <2>1. ASSUME NEW a, Ask(a) \/ (Enqueue(a) /\ AskRefresh)
        PROVE  /\ turn = "none" /\ UNCHANGED <<memory, requests, file, known, writing, locked>>
               /\ Put(a)
    BY <2>1 DEF Ask, Enqueue, AskRefresh, fileVars
  <2>2. CASE MakeWritable
    BY <2>2 DEF MakeWritable, fileVars
  <2>3. CASE AskRefresh
    BY <2>1, <2>3 DEF AskRefresh
  <2>4. CASE GetItems
    BY <2>1, <2>4 DEF GetItems
  <2>5. CASE \E i \in Items : AdoptItem(i) \/ ModifyItem(i) \/ DeleteItem(i)
    BY <2>1, <2>5 DEF AdoptItem, ModifyItem, DeleteItem
  <2> QED
    BY <2>2, <2>3, <2>4, <2>5 DEF UserAsks
<1>2. Served'
  BY <1>1 DEF MInv, Served
<1>3. queue \in Seq(Action)
  BY DEF MInv, KInv, IInv, TypeOK
<1>4. Corrected => Corrected'
  <2>1. ASSUME NEW j \in DOMAIN queue
        PROVE  j \in DOMAIN queue' /\ queue'[j] = queue[j]
    BY <1>1, <1>3, <2>1 DEF Put
  <2> QED
    BY <1>1, <2>1 DEF Corrected, Refresh
<1>5. Mirrored'
  BY <1>1, <1>4 DEF MInv, Mirrored
<1> QED
  BY <1>2, <1>5

\* What is appended stands last.
LEMMA LastAppended ==
    ASSUME NEW S, NEW s \in Seq(S), NEW e \in S, NEW t, t = Append(s, e)
    PROVE  Len(s) + 1 \in DOMAIN t /\ t[Len(s) + 1] = e
BY Appended

\* The turn that ends with a refresh to come leaves it in the queue.
LEMMA CorrectedAfter ==
    ASSUME NEW rest, rest \in Seq(Action), NEW lock \in BOOLEAN, EndTurn(rest, lock),
           turn = "then refresh" \/ \E j \in DOMAIN rest : rest[j] = Refresh(TRUE)
    PROVE  Corrected'
<1>1. PICK r : r \in Action /\ r = Refresh(TRUE)
  BY DEF Refresh, Action
<1>2. CASE turn = "then refresh"
  <2>1. queue' = Append(rest, r)
    BY <1>1, <1>2 DEF EndTurn
  <2>2. Len(rest) + 1 \in DOMAIN queue' /\ queue'[Len(rest) + 1] = r
    <3>1. /\ Len(rest) + 1 \in DOMAIN Append(rest, r)
          /\ Append(rest, r)[Len(rest) + 1] = r
      <4>1. rest \in Seq(Action) /\ r \in Action
        BY <1>1
      <4> QED
        BY <4>1, LastAppended
    <3> QED
      BY <2>1, <3>1, Zenon
  <2> QED
    BY <1>1, <2>2 DEF Corrected, Refresh
<1>3. CASE turn # "then refresh"
  <2>1. queue' = rest
    BY <1>3 DEF EndTurn
  <2> QED
    BY <1>3, <2>1 DEF Corrected, Refresh
<1> QED
  BY <1>2, <1>3

\* The loop takes nothing from the queue but the refresh that it starts.
LEMMA MirrorQueue ==
    ASSUME MInv, Orderly, ProcessQueue
    PROVE  Served' /\ Mirrored'
<1>1. /\ turn # "none" /\ ~locked /\ requests = <<>> /\ DOMAIN requests = {}
      /\ UNCHANGED <<scheme, file, known>> /\ queue \in Seq(Action)
  BY InLoop DEF MInv, KInv, ProcessQueue, fileVars, IInv, TypeOK
<1>2. CASE Perform \/ Read
  <2>1. /\ queue # <<>> /\ Head(queue).op # "refresh" /\ queue' = Tail(queue)
        /\ requests' = <<>> /\ UNCHANGED <<locked, turn>>
        /\ writing' = TRUE \/ UNCHANGED <<memory, writing>>
    <3>1. CASE Perform
      BY <1>1, <3>1, QueueRest DEF Perform, MInv, KInv
    <3>2. CASE Read
      BY <1>1, <3>2 DEF Read
    <3> QED
      BY <1>2, <3>1, <3>2
  <2>2. Served'
    BY <1>1, <2>1 DEF Served
  <2>3. Corrected => Corrected'
    <3>1. ASSUME NEW j \in DOMAIN queue, queue[j] = Refresh(TRUE)
          PROVE  j - 1 \in DOMAIN queue' /\ queue'[j - 1] = Refresh(TRUE)
      <4>1. Head(queue) # Refresh(TRUE)
        BY <2>1 DEF Refresh
      <4>2. j - 1 \in DOMAIN Tail(queue) /\ Tail(queue)[j - 1] = Refresh(TRUE)
        BY <1>1, <2>1, <3>1, <4>1, BehindHead
      <4> QED
        BY <2>1, <4>2
    <3> QED
      BY <1>1, <2>1, <3>1 DEF Corrected, Refresh
  <2> QED
    BY <1>1, <2>1, <2>2, <2>3 DEF MInv, Mirrored
<1>3. CASE EndLoop
  <2>0. memory' = memory
    BY <1>3 DEF EndLoop
  <2>1. CASE writing
    <3>1. /\ EndTurn(queue, TRUE)
          /\ \E step \in {"read", "backup"} : requests' = Append(requests, Begin(step, FALSE))
      BY <1>3, <2>1 DEF EndLoop, WriteICS, Orderly
    <3>2. DOMAIN requests' = {1} /\ requests'[1].step \in {"read", "backup"}
      BY <1>1, <3>1, Begun DEF KInv, MInv
    <3>3. locked'
      BY <3>1 DEF EndTurn
    <3> QED
      BY <1>1, <3>2, <3>3 DEF Mirrored, Served
  <2>2. CASE ~writing /\ queue # <<>> /\ NoFile
    <3>1. requests' = requests /\ file.tag = 0 /\ turn' = turn
      BY <1>3, <2>2 DEF EndLoop, DoRefresh, NoFile, Unlock
    <3> QED
      BY <1>1, <3>1 DEF Served, Mirrored
  <2>3. CASE ~writing /\ queue # <<>> /\ ~NoFile
    <3>1. /\ requests' = Append(requests, Begin("get", Head(queue).force))
          /\ EndTurn(Tail(queue), TRUE)
          /\ Head(queue).op = "refresh" /\ Head(queue) \in Action
      BY <1>1, <1>3, <2>3, QueueRest DEF EndLoop, DoRefresh, KInv, MInv
    <3>2. Head(queue).force \in BOOLEAN /\ Head(queue) = Refresh(Head(queue).force)
      BY <3>1 DEF Action, Refresh
    <3>3. Begin("get", Head(queue).force).step = "get" /\ Begin("get", Head(queue).force).force = Head(queue).force
      BY DEF Begin
    <3>4. DOMAIN requests' = {1} /\ requests'[1] = Begin("get", Head(queue).force)
      BY <1>1, <3>1
    <3>5. locked' /\ writing' = FALSE
      BY <3>1 DEF EndTurn
    <3>6. Corrected => Corrected'
      <4>1. CASE Head(queue).force
        BY <3>3, <3>4, <4>1 DEF Corrected
      <4>2. CASE ~Head(queue).force /\ Corrected
        <5>1. Tail(queue) \in Seq(Action)
          BY <1>1, <2>3, Tailed
        <5>2. ASSUME NEW j \in DOMAIN queue, queue[j] = Refresh(TRUE)
              PROVE  j - 1 \in DOMAIN Tail(queue) /\ Tail(queue)[j - 1] = Refresh(TRUE)
          <6>1. Head(queue) # Refresh(TRUE)
            BY <4>2 DEF Refresh
          <6> QED
            BY <1>1, <2>3, <5>2, <6>1, BehindHead
        <5>3. turn = "then refresh" \/ \E j \in DOMAIN Tail(queue) : Tail(queue)[j] = Refresh(TRUE)
          BY <1>1, <4>2, <5>2 DEF Corrected
        <5> QED
          BY <3>1, <5>1, <5>3, CorrectedAfter
      <4> QED
        BY <3>2, <4>1, <4>2
    <3>7. Served'
      BY <3>5 DEF Served
    <3> QED
      BY <1>1, <2>0, <2>3, <3>3, <3>4, <3>6, <3>7 DEF MInv, Mirrored
  <2>4. CASE ~writing /\ queue = <<>>
    <3>1. EndTurn(queue, locked) /\ requests' = requests
      BY <1>3, <2>4 DEF EndLoop
    <3>2. Served'
      BY <1>1, <2>4, <3>1 DEF EndTurn, Served
    <3>3. writing' = FALSE
      BY <3>1 DEF EndTurn
    <3>4. Corrected => Corrected'
      <4>1. Corrected => turn = "then refresh"
        BY <1>1, <2>4, EmptySeq, LenProperties DEF Corrected
      <4>2. locked \in BOOLEAN
        BY DEF MInv, KInv, IInv, TypeOK
      <4> QED
        BY <1>1, <3>1, <4>1, <4>2, CorrectedAfter
    <3> QED
      BY <1>1, <2>0, <2>4, <3>1, <3>2, <3>3, <3>4 DEF MInv, Mirrored
  <2> QED
    BY <2>1, <2>2, <2>3, <2>4
<1> QED
  BY <1>2, <1>3 DEF ProcessQueue

LEMMA MirrorLoaded ==
    ASSUME MInv, Tagged, NEW k \in DOMAIN requests,
           \/ KeepOldData(k) \/ LoadEmpty(k) \/ Undecodable(k) \/ Downloaded(k) \/ ParsingComplete(k)
    PROVE  Served' /\ Mirrored'
<1>1. /\ k = 1 /\ DOMAIN requests = {1} /\ turn = "none" /\ requests \in Seq(Request)
      /\ requests[k] \in Request /\ Len(requests) = 1 /\ (Ends(k) => requests' = <<>>)
      /\ locked /\ ~writing
  BY OnlyRequest DEF MInv, KInv
<1>2. DOMAIN <<>> = {}
  BY EmptySeq, LenProperties
<1>3. file.tag \in Nat /\ base \in Nat /\ known \in Int /\ requests[k].tag \in Nat
  BY TagTypes DEF MInv, KInv
<1>4. CASE KeepOldData(k)
  <2>1. /\ requests[k].step = "get" /\ requests' = <<>>
        /\ UNCHANGED <<file, known, memory, queue, writing>> /\ turn' = "process"
        /\ file.tag = 0 \/ ~requests[k].force
    BY <1>1, <1>4 DEF KeepOldData, At, NothingNew, Tagged, fileVars, Unlock
  <2>2. ~requests[k].force /\ Corrected => Corrected'
    BY <1>1, <2>1 DEF Corrected, Refresh
  <2>3. Mirrored'
    BY <1>1, <1>2, <2>1, <2>2 DEF MInv, Mirrored
  <2>4. Served'
    BY <2>1 DEF Served
  <2> QED
    BY <2>3, <2>4
<1>5. CASE LoadEmpty(k)
  <2>1. /\ requests' = <<>> /\ memory' = Empty /\ file' = file /\ file.items = Empty
        /\ turn' = "process"
    BY <1>1, <1>5 DEF LoadEmpty, Unlock
  <2> QED
    BY <1>2, <2>1 DEF Served, Mirrored
<1>6. CASE Undecodable(k)
  BY <1>6 DEF Undecodable, Tagged
<1>7. CASE Downloaded(k)
  <2> DEFINE r == [requests[k] EXCEPT !.step = "parse", !.items = file.items, !.tag = file.tag]
  <2>1. /\ requests' = [requests EXCEPT ![1] = r] /\ file' = file /\ UNCHANGED <<locked, turn>>
    BY <1>1, <1>7 DEF Downloaded, Tagged, Becomes
  <2>2. r.step = "parse" /\ r.items = file.items
    BY <1>1 DEF Request
  <2> HIDE DEF r
  <2>3. DOMAIN requests' = {1} /\ requests'[1] = r
    BY <1>1, <2>1
  <2> QED
    BY <1>1, <2>1, <2>2, <2>3 DEF Served, Mirrored
<1>8. CASE ParsingComplete(k)
  <2>1. /\ requests[k].step = "parse" /\ requests' = <<>> /\ UNCHANGED <<file, known>>
        /\ memory' = requests[k].items /\ turn' = "process"
    BY <1>1, <1>8 DEF ParsingComplete, At, Unlock
  <2>2. known = file.tag => memory' = file.items
    BY <1>1, <2>1 DEF MInv, KInv, TagTrue, Mirrored
  <2> QED
    BY <1>2, <2>1, <2>2 DEF Served, Mirrored
<1> QED
  BY <1>4, <1>5, <1>6, <1>7, <1>8

LEMMA MirrorWritten ==
    ASSUME MInv, Orderly, NEW k \in DOMAIN requests,
           \/ BackupComplete(k) \/ StartPut(k) \/ GiveUpPut(k)
           \/ PutSucceeds(k) \/ PutFails(k) \/ EtagAnswered(k)
    PROVE  Served' /\ Mirrored'
<1>1. /\ k = 1 /\ DOMAIN requests = {1} /\ turn = "none" /\ requests \in Seq(Request)
      /\ requests[k] \in Request /\ Len(requests) = 1 /\ (Ends(k) => requests' = <<>>)
      /\ locked /\ ~writing
  BY OnlyRequest DEF MInv, KInv
<1>2. DOMAIN <<>> = {}
  BY EmptySeq, LenProperties
<1>3. file.tag \in Nat /\ base \in Nat /\ known \in Int /\ NoTag = -1
  BY TagTypes DEF MInv, KInv
<1>5. ASSUME NEW r, Becomes(k, r)
      PROVE  DOMAIN requests' = {1} /\ requests'[1] = r
  BY <1>1, <1>5 DEF Becomes
<1>6. CASE BackupComplete(k)
  <2> DEFINE r == [requests[k] EXCEPT !.step = "read"]
  <2>1. Becomes(k, r) /\ r.step = "read" /\ UNCHANGED <<locked, turn>>
    BY <1>1, <1>6 DEF BackupComplete, Request
  <2> HIDE DEF r
  <2> QED
    BY <1>1, <1>5, <2>1 DEF Served, Mirrored
<1>7. CASE StartPut(k)
  <2> DEFINE r == [requests[k] EXCEPT !.step = "put", !.items = memory, !.ops = applied]
  <2>1. Becomes(k, r) /\ r.step = "put" /\ r.items = memory /\ UNCHANGED <<memory, locked, turn>>
    BY <1>1, <1>7 DEF StartPut, Request
  <2> HIDE DEF r
  <2> QED
    BY <1>1, <1>5, <2>1 DEF Served, Mirrored
<1>8. CASE GiveUpPut(k)
  <2>1. /\ requests' = <<>> /\ UNCHANGED <<file, known>> /\ turn' # "none"
        /\ ~NotChanged \/ turn' = "then refresh"
    BY <1>1, <1>8 DEF GiveUpPut, fileVars, Unlock
  <2>2. ~NotChanged => known # file.tag
    BY DEF NotChanged
  <2> QED
    BY <1>2, <2>1, <2>2 DEF Served, Mirrored, Corrected
<1>9. CASE PutSucceeds(k)
  <2>1. /\ file'.items = requests[k].items /\ requests[k].step = "put" /\ memory' = memory
    BY <1>9 DEF PutSucceeds, Store, At
  <2>2. memory' = file'.items
    BY <2>1 DEF MInv, Mirrored
  <2>3. CASE Ends(k) /\ turn' # "none"
    BY <1>1, <1>2, <2>2, <2>3 DEF Served, Mirrored
  <2>4. CASE Becomes(k, Begin("etag", FALSE)) /\ UNCHANGED <<locked, turn>>
    <3>1. DOMAIN requests' = {1} /\ requests'[1].step = "etag"
      BY <1>5, <2>4 DEF Begin
    <3> QED
      BY <1>1, <2>2, <2>4, <3>1 DEF Served, Mirrored
  <2> QED
    BY <1>9, <2>3, <2>4 DEF PutSucceeds, Unlock
<1>10. CASE PutFails(k)
  <2> DEFINE r == Refresh(TRUE)
  <2>1. /\ requests' = <<>> /\ queue' = Append(queue, r) /\ turn' = "process"
    BY <1>1, <1>10 DEF PutFails, Unlock
  <2>2. queue \in Seq(Action) /\ r' = r
    BY DEF MInv, KInv, IInv, TypeOK, Refresh
  <2> HIDE DEF r
  <2>3. Len(queue) + 1 \in DOMAIN queue' /\ queue'[Len(queue) + 1] = r
    BY <2>1, <2>2
  <2>4. Corrected'
    BY <2>2, <2>3 DEF Corrected, r
  <2> QED
    BY <1>2, <2>1, <2>4 DEF Served, Mirrored
<1>11. CASE EtagAnswered(k)
  <2>1. requests' = <<>> /\ UNCHANGED <<memory, file>> /\ requests[k].step = "etag" /\ turn' = "process"
    BY <1>1, <1>11 DEF EtagAnswered, At, Orderly, Unlock
  <2>2. memory = file.items
    BY <2>1 DEF MInv, Mirrored
  <2> QED
    BY <1>2, <2>1, <2>2 DEF Served, Mirrored
<1> QED
  BY <1>6, <1>7, <1>8, <1>9, <1>10, <1>11

\* Another client's file has a tag that is not known, whatever is under way.
LEMMA MirrorOthers ==
    ASSUME MInv, Tagged, NEW i \in Items, OtherWrites(i)
    PROVE  Served' /\ Mirrored'
<1>1. /\ ~TagUnknown /\ file'.tag = file.tag + 1
      /\ UNCHANGED <<known, memory, queue, locked, turn, requests>>
  BY DEF OtherWrites, Tagged
<1>2. file.tag \in Nat /\ base \in Nat /\ known \in Int /\ known <= file.tag
  BY TagTypes DEF MInv, KInv, TagTrue
<1>3. known' # file'.tag
  BY <1>1, <1>2
<1>4. ASSUME NEW k \in DOMAIN requests
      PROVE  /\ requests[k].step # "etag"
             /\ requests[k].step = "parse" => requests[k].tag # file'.tag
             /\ requests[k].step = "put" => requests[k].items = memory
  BY <1>1, <1>3, <1>4 DEF MInv, KInv, TagTrue, TagUnknown, Mirrored
<1> QED
  BY <1>1, <1>3, <1>4 DEF MInv, Served, Mirrored

\* The invariants hold together.
LEMMA MInvInit ==
    ASSUME Init
    PROVE  MInv
<1>1. KInv
  BY KInvInit
<1>2. DOMAIN requests = {} /\ turn = "process" /\ known = 0
  BY EmptySeq, LenProperties DEF Init
<1> QED
  BY <1>1, <1>2 DEF MInv, Served, Mirrored

LEMMA MInvNext ==
    ASSUME Tagged, MInv, [Next]_vars
    PROVE  MInv'
<1>1. Orderly
  BY TaggedOrderly
<1>2. KInv'
  BY KInvNext DEF MInv
<1>3. Served' /\ Mirrored'
  <2>1. CASE UserAsks
    BY <2>1, MirrorAsked
  <2>2. CASE ProcessQueue
    BY <1>1, <2>2, MirrorQueue
  <2>3. CASE Progress
    BY <1>1, <2>3, MirrorLoaded, MirrorWritten DEF Progress
  <2>4. CASE \E i \in Items : OtherWrites(i)
    BY <2>4, MirrorOthers
  <2>5. CASE UNCHANGED vars
    BY <2>5 DEF vars, MInv, Served, Mirrored, Corrected, Refresh
  <2> QED
    BY <2>1, <2>2, <2>3, <2>4, <2>5 DEF Next
<1> QED
  BY <1>2, <1>3 DEF MInv

\* InSync: an idle calendar whose tag is the file's shows what the file holds
\* (forceRefresh after a failure, 389 and 461), for any number of items, requests and
\* other clients' writes, whatever uploads fail or lose their answer.
THEOREM CalendarInSync == Tagged => (Spec => []InSync)
<1>1. ASSUME MInv PROVE InSync
  <2>1. SUFFICES ASSUME turn = "none", ~locked, known = file.tag, file.tag # 0
                 PROVE  memory = file.items
    BY DEF InSync
  <2>2. queue = <<>> /\ ~writing
    BY <1>1, <2>1 DEF MInv, Served, KInv, IInv, Turned
  <2>3. DOMAIN requests = {} /\ DOMAIN queue = {}
    BY <1>1, <2>1, <2>2, LenProperties, EmptySeq DEF MInv, KInv, IInv, LockHeld, TypeOK
  <2> QED
    BY <1>1, <2>1, <2>2, <2>3 DEF MInv, Mirrored, Corrected
<1>2. ASSUME Tagged PROVE Spec => []InSync
  <2>1. MInv /\ [Next]_vars => MInv'
    BY <1>2, MInvNext
  <2> QED
    BY <1>1, <2>1, MInvInit, PTL DEF Spec
<1> QED
  BY <1>2
=============================================================================
