-------------------------- MODULE CopyServiceProofs --------------------------
(***************************************************************************)
(* Theorems about CopyService: for any number of requests, folders and     *)
(* sources, and whatever fails, an ordinary set of requests (Ordinary) is  *)
(* copied one request at a time into each folder, no listener is answered  *)
(* while its copy is under way, and, when no folder is refused, no request *)
(* is left to wait for a folder that is free.                              *)
(***************************************************************************)
EXTENDS CopyService, SequenceTheorems, FiniteSetTheorems, TLAPS

-----------------------------------------------------------------------------
(* The inductive invariant *)

Copies == [req : Requests, source : Nat]
Frames == [call : {"next", "listener"}]
          \cup [call : {"notify"}, support : Folders, target : Targets, ok : BOOLEAN, left : Int]

Types ==
    /\ done \in [Requests -> SUBSET Nat]
    /\ copying \in [Targets -> {None} \cup Copies]
    /\ stack \in Seq(Frames)
    /\ heard \in [Requests -> {"nothing", "queued", "ok", "failed"}]

QueueOnce ==
    /\ queue \in Seq(Requests)
    /\ \A i, j \in DOMAIN queue : queue[i] = queue[j] => i = j
    /\ \A r \in Requests : heard[r] = "queued" <=> \E k \in DOMAIN queue : queue[k] = r

\* A request that was made has its one source to copy before it, or behind it.
Started ==
    \A r \in Requests :
        /\ done[r] \subseteq DOMAIN Plan[r].sources
        /\ heard[r] # "nothing" => done[r] = InPlace(r) \/ Processed(r)

\* A folder copies for a request in the queue that has no other source to start.
CopiesQueued ==
    \A t \in Targets : copying[t] # None =>
        /\ Plan[copying[t].req].target = t
        /\ copying[t].source \in DOMAIN Plan[copying[t].req].sources \ InPlace(copying[t].req)
        /\ Processed(copying[t].req)
        /\ \E k \in DOMAIN queue : queue[k] = copying[t].req

\* First in, first out: a request has been started only when all those ahead of it
\* for the same folder have been.
InOrder ==
    \A j, k \in DOMAIN queue :
        j < k /\ Plan[queue[j]].dst = Plan[queue[k]].dst /\ Processed(queue[k])
            => Processed(queue[j])

\* What NotifyCompletion is called for is over.
Due(frame) ==
    frame.call = "notify" =>
        \E r \in Requests :
            /\ frame.support = Plan[r].src /\ frame.target = Plan[r].target
            /\ heard[r] # "nothing" /\ Processed(r)
            /\ \A t \in Targets : copying[t] # None => copying[t].req # r

Notified == \A k \in DOMAIN stack : Due(stack[k])

IInv == Types /\ QueueOnce /\ Started /\ CopiesQueued /\ InOrder /\ Notified

-----------------------------------------------------------------------------
(* Sequences *)

LEMMA Pushed ==
    ASSUME NEW S, NEW e \in S, NEW s \in Seq(S)
    PROVE  /\ <<e>> \o s \in Seq(S)
           /\ Len(<<e>> \o s) = Len(s) + 1
           /\ (<<e>> \o s)[1] = e
           /\ \A k \in 1 .. Len(s) : (<<e>> \o s)[k + 1] = s[k]
<1>1. /\ <<e>> \in Seq(S) /\ Len(<<e>>) = 1 /\ <<e>>[1] = e
  OBVIOUS
<1>2. Len(s) \in Nat
  BY LenProperties
<1> QED
  BY <1>1, <1>2, ConcatProperties

LEMMA Removed ==
    ASSUME NEW S, NEW s \in Seq(S), NEW k \in 1 .. Len(s)
    PROVE  /\ RemoveAt(s, k) \in Seq(S)
           /\ Len(RemoveAt(s, k)) = Len(s) - 1
           /\ \A j \in 1 .. Len(s) - 1 : RemoveAt(s, k)[j] = s[IF j < k THEN j ELSE j + 1]
<1> DEFINE a == SubSeq(s, 1, k - 1)
           b == SubSeq(s, k + 1, Len(s))
<1>1. Len(s) \in Nat /\ \A j \in 1 .. Len(s) : s[j] \in S
  BY LenProperties, ElementOfSeq
<1>2. /\ a \in Seq(S) /\ Len(a) = k - 1
      /\ \A j \in 1 .. k - 1 : a[j] = s[j]
  <2>1. \A j \in 1 .. k - 1 : s[j] \in S
    BY <1>1
  <2>2. 1 \in Int /\ k - 1 \in Int /\ (1 <= k - 1 \/ k - 1 = 0)
    BY <1>1
  <2> QED
    BY <2>1, <2>2, SubSeqProperties
<1>3. /\ b \in Seq(S) /\ Len(b) = Len(s) - k
      /\ \A j \in 1 .. Len(s) - k : b[j] = s[k + j]
  <2>1. \A j \in k + 1 .. Len(s) : s[j] \in S
    BY <1>1
  <2>2. k + 1 \in Int /\ Len(s) \in Int /\ k <= Len(s) /\ k >= 1
    BY <1>1
  <2>3. /\ b \in Seq(S) /\ Len(b) = IF k + 1 <= Len(s) THEN Len(s) - (k + 1) + 1 ELSE 0
        /\ \A j \in 1 .. Len(s) - (k + 1) + 1 : b[j] = s[k + 1 + j - 1]
    BY <2>1, <2>2, SubSeqProperties
  <2> QED
    BY <2>2, <2>3
<1> HIDE DEF a, b
<1>4. /\ a \o b \in Seq(S) /\ Len(a \o b) = Len(s) - 1
      /\ \A j \in 1 .. Len(s) - 1 :
             (a \o b)[j] = IF j <= Len(a) THEN a[j] ELSE b[j - Len(a)]
  <2>1. Len(a) + Len(b) = Len(s) - 1
    BY <1>1, <1>2, <1>3
  <2>2. /\ a \o b \in Seq(S) /\ Len(a \o b) = Len(a) + Len(b)
        /\ \A j \in 1 .. Len(a) + Len(b) :
               (a \o b)[j] = IF j <= Len(a) THEN a[j] ELSE b[j - Len(a)]
    BY <1>2, <1>3, ConcatProperties
  <2> QED
    BY <2>1, <2>2
<1>5. ASSUME NEW j \in 1 .. Len(s) - 1
      PROVE  (a \o b)[j] = s[IF j < k THEN j ELSE j + 1]
  <2>1. CASE j < k
    BY <1>1, <1>2, <1>4, <2>1
  <2>2. CASE ~(j < k)
    <3>1. j - (k - 1) \in 1 .. Len(s) - k /\ k + (j - (k - 1)) = j + 1 /\ ~(j <= k - 1)
      BY <1>1, <2>2
    <3>2. (a \o b)[j] = b[j - (k - 1)]
      BY <1>2, <1>4, <3>1
    <3> QED
      BY <1>3, <2>2, <3>1, <3>2
  <2> QED
    BY <2>1, <2>2
<1>6. RemoveAt(s, k) = a \o b
  BY DEF RemoveAt, a, b
<1> QED
  BY <1>4, <1>5, <1>6

-----------------------------------------------------------------------------
(* What the steps have in common *)

LEMMA Typed ==
    ASSUME Types, QueueOnce
    PROVE  /\ Len(queue) \in Nat /\ DOMAIN queue = 1 .. Len(queue)
           /\ \A k \in DOMAIN queue : queue[k] \in Requests
           /\ Len(stack) \in Nat /\ DOMAIN stack = 1 .. Len(stack)
           /\ \A k \in DOMAIN stack : stack[k] \in Frames
           /\ \A t \in Targets : copying[t] # None => copying[t] \in Copies
<1>1. queue \in Seq(Requests) /\ stack \in Seq(Frames)
  BY DEF Types, QueueOnce
<1> QED
  BY <1>1, LenProperties, ElementOfSeq DEF Types

\* The calls that are left on the stack when the innermost one returns, or is
\* replaced by another.
LEMMA Returned ==
    ASSUME Types, QueueOnce, Notified, stack # <<>>
    PROVE  /\ Tail(stack) \in Seq(Frames)
           /\ \A k \in DOMAIN Tail(stack) : Due(Tail(stack)[k])
           /\ Head(stack) \in Frames /\ Due(Head(stack))
<1>1. stack \in Seq(Frames) /\ Len(stack) \in Nat /\ DOMAIN stack = 1 .. Len(stack)
  BY Typed DEF Types
<1>2. /\ Tail(stack) \in Seq(Frames) /\ Len(Tail(stack)) = Len(stack) - 1
      /\ \A k \in 1 .. Len(Tail(stack)) : Tail(stack)[k] = stack[k + 1]
      /\ Head(stack) \in Frames
  BY <1>1, HeadTailProperties
<1>3. DOMAIN Tail(stack) = 1 .. Len(Tail(stack))
  BY <1>2, LenProperties
<1>4. \A k \in DOMAIN Tail(stack) : k + 1 \in DOMAIN stack
  BY <1>1, <1>2, <1>3
<1>5. 1 \in DOMAIN stack /\ Head(stack) = stack[1]
  BY <1>1, EmptySeq
<1> QED
  BY <1>2, <1>3, <1>4, <1>5 DEF Notified

\* A stack of calls whose requests are over, after a step that undoes none of them.
LEMMA StackKept ==
    ASSUME NEW rest \in Seq(Frames), \A k \in DOMAIN rest : Due(rest[k]),
           \A frame \in Frames : Due(frame) => Due(frame)',
           \/ stack' = rest
           \/ \E new \in Frames : Due(new)' /\ stack' = <<new>> \o rest
    PROVE  stack' \in Seq(Frames) /\ Notified'
<1>1. Len(rest) \in Nat /\ DOMAIN rest = 1 .. Len(rest)
      /\ \A k \in DOMAIN rest : rest[k] \in Frames
  BY LenProperties, ElementOfSeq
<1>2. CASE stack' = rest
  BY <1>1, <1>2 DEF Notified
<1>3. ASSUME NEW new \in Frames, Due(new)', stack' = <<new>> \o rest
      PROVE  stack' \in Seq(Frames) /\ Notified'
  <2>1. /\ stack' \in Seq(Frames) /\ Len(stack') = Len(rest) + 1 /\ stack'[1] = new
        /\ \A k \in 1 .. Len(rest) : stack'[k + 1] = rest[k]
    BY <1>3, Pushed
  <2>2. DOMAIN stack' = 1 .. Len(rest) + 1
    BY <2>1, LenProperties
  <2>3. ASSUME NEW k \in DOMAIN stack'
        PROVE  Due(stack[k])'
    <3>1. CASE k = 1
      BY <1>3, <2>1, <3>1 DEF Due
    <3>2. CASE k # 1
      <4>1. k - 1 \in 1 .. Len(rest) /\ (k - 1) + 1 = k
        BY <1>1, <2>2, <3>2
      <4>2. stack'[k] = rest[k - 1]
        BY <2>1, <4>1
      <4>3. Due(rest[k - 1])'
        BY <1>1, <4>1
      <4> QED
        BY <4>2, <4>3 DEF Due
    <3> QED
      BY <3>1, <3>2
  <2> QED
    BY <2>1, <2>3 DEF Notified
<1> QED
  BY <1>2, <1>3

\* The start of a source of the request queue[k], which is then all started.
LEMMA SourceStarted ==
    ASSUME Ordinary, IInv, NEW k \in Startable, NEW r \in Requests, r = queue[k],
           NEW j \in DOMAIN Plan[r].sources, First(j, DOMAIN Plan[r].sources \ done[r]),
           done' = [done EXCEPT ![r] = @ \cup {j}]
    PROVE  /\ heard[r] = "queued"
           /\ ~Processed(r) /\ Processed(r)'
           /\ j \in DOMAIN Plan[r].sources \ InPlace(r)
           /\ Support(r, j) = Plan[r].src
           /\ done' \in [Requests -> SUBSET Nat]
           /\ \A s \in Requests : s # r => done'[s] = done[s]
           /\ \A s \in Requests : Processed(s) => Processed(s)'
<1>1. k \in DOMAIN queue /\ ~Processed(r)
  BY Typed DEF Startable, IInv
<1>2. heard[r] = "queued"
  BY <1>1 DEF IInv, QueueOnce
<1>3. done[r] = InPlace(r)
  BY <1>1, <1>2 DEF IInv, Started
<1>4. PICK j0 \in DOMAIN Plan[r].sources :
          InPlace(r) = DOMAIN Plan[r].sources \ {j0} /\ Support(r, j0) = Plan[r].src
  BY <1>1 DEF Ordinary
<1>5. j \in DOMAIN Plan[r].sources \ InPlace(r)
  BY <1>3 DEF First
<1>6. j = j0
  BY <1>4, <1>5
<1>7. done \in [Requests -> SUBSET Nat] /\ DOMAIN Plan[r].sources \subseteq Nat
  <2>1. Plan[r].sources \in Seq(Folders)
    BY <1>1, PlanOK
  <2> QED
    BY <2>1, LenProperties DEF IInv, Types
<1>8. done'[r] = DOMAIN Plan[r].sources
  BY <1>1, <1>3, <1>4, <1>6, <1>7
<1>9. done' \in [Requests -> SUBSET Nat] /\ \A s \in Requests : s # r => done'[s] = done[s]
  BY <1>1, <1>7
<1>10. \A s \in Requests : Processed(s) => Processed(s)'
  BY <1>8, <1>9 DEF Processed
<1> QED
  BY <1>1, <1>2, <1>4, <1>5, <1>6, <1>8, <1>9, <1>10 DEF Processed


\* A request that leaves the queue: the others keep their order.
LEMMA RequestCleared ==
    ASSUME Types, QueueOnce, NEW k \in DOMAIN queue, NEW ok \in BOOLEAN, NEW frames,
           ClearRequest(k, ok, frames)
    PROVE  /\ QueueOnce'
           /\ \A i \in DOMAIN queue' :
                  /\ (IF i < k THEN i ELSE i + 1) \in DOMAIN queue \ {k}
                  /\ queue'[i] = queue[IF i < k THEN i ELSE i + 1]
           /\ \A i \in DOMAIN queue : i # k =>
                  /\ (IF i < k THEN i ELSE i - 1) \in DOMAIN queue'
                  /\ queue'[IF i < k THEN i ELSE i - 1] = queue[i]
           /\ heard' \in [Requests -> {"nothing", "queued", "ok", "failed"}]
           /\ \A r \in Requests : heard'[r] # "nothing" <=> heard[r] # "nothing"
<1>1. /\ Len(queue) \in Nat /\ DOMAIN queue = 1 .. Len(queue)
      /\ \A i \in DOMAIN queue : queue[i] \in Requests
      /\ queue \in Seq(Requests)
  BY Typed DEF QueueOnce
<1>2. /\ queue' \in Seq(Requests) /\ Len(queue') = Len(queue) - 1
      /\ \A i \in 1 .. Len(queue) - 1 : queue'[i] = queue[IF i < k THEN i ELSE i + 1]
  BY <1>1, Removed DEF ClearRequest
<1>3. DOMAIN queue' = 1 .. Len(queue) - 1
  BY <1>2, LenProperties
<1>4. \A i \in DOMAIN queue' :
          /\ (IF i < k THEN i ELSE i + 1) \in DOMAIN queue \ {k}
          /\ queue'[i] = queue[IF i < k THEN i ELSE i + 1]
  BY <1>1, <1>2, <1>3
<1>5. \A i \in DOMAIN queue : i # k =>
          /\ (IF i < k THEN i ELSE i - 1) \in DOMAIN queue'
          /\ queue'[IF i < k THEN i ELSE i - 1] = queue[i]
  <2> SUFFICES ASSUME NEW i \in DOMAIN queue, i # k
               PROVE  /\ (IF i < k THEN i ELSE i - 1) \in DOMAIN queue'
                      /\ queue'[IF i < k THEN i ELSE i - 1] = queue[i]
    OBVIOUS
  <2>1. CASE i < k
    BY <1>1, <1>2, <1>3, <2>1
  <2>2. CASE i > k
    <3>1. i - 1 \in 1 .. Len(queue) - 1 /\ ~(i - 1 < k) /\ (i - 1) + 1 = i /\ ~(i < k)
      BY <1>1, <2>2
    <3>2. queue'[i - 1] = queue[i]
      BY <1>2, <3>1
    <3> QED
      BY <1>3, <3>1, <3>2
  <2> QED
    BY <1>1, <2>1, <2>2
<1>6. \A i, j \in DOMAIN queue' : queue'[i] = queue'[j] => i = j
  <2> SUFFICES ASSUME NEW i \in DOMAIN queue', NEW j \in DOMAIN queue', queue'[i] = queue'[j]
               PROVE  i = j
    OBVIOUS
  <2>1. (IF i < k THEN i ELSE i + 1) = (IF j < k THEN j ELSE j + 1)
    BY <1>4 DEF QueueOnce
  <2> QED
    BY <1>1, <1>3, <2>1
<1>7. /\ heard' = [heard EXCEPT ![queue[k]] = IF ok THEN "ok" ELSE "failed"]
      /\ heard[queue[k]] = "queued" /\ queue[k] \in Requests
      /\ heard \in [Requests -> {"nothing", "queued", "ok", "failed"}]
  BY <1>1 DEF ClearRequest, QueueOnce, Types
<1>8. /\ heard' \in [Requests -> {"nothing", "queued", "ok", "failed"}]
      /\ heard'[queue[k]] \in {"ok", "failed"}
      /\ \A r \in Requests : r # queue[k] => heard'[r] = heard[r]
  BY <1>7
<1>9. \A r \in Requests : heard'[r] = "queued" <=> \E i \in DOMAIN queue' : queue'[i] = r
  <2> SUFFICES ASSUME NEW r \in Requests
               PROVE  heard'[r] = "queued" <=> \E i \in DOMAIN queue' : queue'[i] = r
    OBVIOUS
  <2>1. CASE r = queue[k]
    <3>1. \A i \in DOMAIN queue' : queue'[i] # r
      BY <1>1, <1>4, <2>1 DEF QueueOnce
    <3> QED
      BY <1>8, <2>1, <3>1
  <2>2. CASE r # queue[k]
    <3>1. heard'[r] = "queued" <=> \E i \in DOMAIN queue : queue[i] = r
      BY <1>8, <2>2 DEF QueueOnce
    <3>2. (\E i \in DOMAIN queue : queue[i] = r) => \E i \in DOMAIN queue' : queue'[i] = r
      BY <1>5, <2>2
    <3>3. (\E i \in DOMAIN queue' : queue'[i] = r) => \E i \in DOMAIN queue : queue[i] = r
      BY <1>4
    <3> QED
      BY <3>1, <3>2, <3>3
  <2> QED
    BY <2>1, <2>2
<1> QED
  BY <1>2, <1>4, <1>5, <1>6, <1>7, <1>8, <1>9 DEF QueueOnce

\* What that leaves of the invariant, when no folder copies for the request.
LEMMA ClearedKeeps ==
    ASSUME IInv, NEW k \in DOMAIN queue, NEW r \in Requests, r = queue[k], NEW ok \in BOOLEAN,
           NEW frames \in Seq(Frames), \A f \in DOMAIN frames : Due(frames[f]),
           ClearRequest(k, ok, frames), copying' = copying,
           \A t \in Targets : copying[t] # None => copying[t].req # r,
           \A s \in Requests : s # r => done'[s] = done[s],
           done' \in [Requests -> SUBSET Nat],
           done'[r] = done[r] \/ Processed(r)',
           Processed(r) => Processed(r)'
    PROVE  IInv'
<1>1. /\ Len(queue) \in Nat /\ DOMAIN queue = 1 .. Len(queue)
      /\ \A i \in DOMAIN queue : queue[i] \in Requests
      /\ \A t \in Targets : copying[t] # None => copying[t] \in Copies
  BY Typed DEF IInv
<1>2. /\ QueueOnce'
      /\ \A i \in DOMAIN queue' :
             /\ (IF i < k THEN i ELSE i + 1) \in DOMAIN queue \ {k}
             /\ queue'[i] = queue[IF i < k THEN i ELSE i + 1]
      /\ \A i \in DOMAIN queue : i # k =>
             /\ (IF i < k THEN i ELSE i - 1) \in DOMAIN queue'
             /\ queue'[IF i < k THEN i ELSE i - 1] = queue[i]
      /\ heard' \in [Requests -> {"nothing", "queued", "ok", "failed"}]
      /\ \A s \in Requests : heard'[s] # "nothing" <=> heard[s] # "nothing"
  BY RequestCleared DEF IInv
<1>3. \A s \in Requests : s # r => (Processed(s) <=> Processed(s)')
  BY DEF Processed
<1>4. \A frame \in Frames : Due(frame) => Due(frame)'
  BY <1>2, <1>3 DEF Due
<1>5. stack' \in Seq(Frames) /\ Notified'
  <2>1. Call("listener") \in Frames /\ Due(Call("listener"))'
    BY DEF Call, Frames, Due
  <2>2. stack' = <<Call("listener")>> \o frames
    BY DEF ClearRequest
  <2> QED
    BY <1>4, <2>1, <2>2, StackKept
<1>6. Types'
  BY <1>2, <1>5 DEF IInv, Types
<1>7. Started'
  BY <1>2, <1>3 DEF IInv, Started, Processed
<1>8. CopiesQueued'
  <2> SUFFICES ASSUME NEW t \in Targets, copying[t] # None
               PROVE  /\ Plan[copying[t].req].target = t
                      /\ copying[t].source \in DOMAIN Plan[copying[t].req].sources
                                                 \ InPlace(copying[t].req)
                      /\ Processed(copying[t].req)'
                      /\ \E i \in DOMAIN queue' : queue'[i] = copying[t].req
    BY DEF CopiesQueued
  <2>1. copying[t].req \in Requests /\ copying[t].req # r
    BY <1>1 DEF Copies
  <2>2. PICK i \in DOMAIN queue : queue[i] = copying[t].req
    BY DEF IInv, CopiesQueued
  <2>3. i # k
    BY <2>1, <2>2
  <2> QED
    BY <1>2, <1>3, <2>1, <2>2, <2>3 DEF IInv, CopiesQueued
<1>9. InOrder'
  <2> SUFFICES ASSUME NEW i \in DOMAIN queue', NEW j \in DOMAIN queue', i < j,
                      Plan[queue'[i]].dst = Plan[queue'[j]].dst, Processed(queue[j])'
               PROVE  Processed(queue[i])'
    BY DEF InOrder
  <2> DEFINE i0 == IF i < k THEN i ELSE i + 1
             j0 == IF j < k THEN j ELSE j + 1
  <2>1. i \in Nat /\ j \in Nat
    BY <1>2, LenProperties DEF QueueOnce
  <2>2. /\ i0 \in DOMAIN queue /\ j0 \in DOMAIN queue /\ i0 < j0
        /\ queue'[i] = queue[i0] /\ queue'[j] = queue[j0]
        /\ i0 # k /\ j0 # k
    BY <1>1, <1>2, <2>1
  <2> HIDE DEF i0, j0
  <2>3. queue[i0] # r /\ queue[j0] # r
    BY <2>2 DEF IInv, QueueOnce
  <2>4. Processed(queue[j0])
    BY <1>1, <1>3, <2>2, <2>3 DEF Processed
  <2>5. Processed(queue[i0])
    BY <2>2, <2>4 DEF IInv, InOrder
  <2> QED
    BY <1>1, <2>2, <2>3, <2>5 DEF Processed
<1> QED
  BY <1>2, <1>5, <1>6, <1>7, <1>8, <1>9 DEF IInv

-----------------------------------------------------------------------------
(* The steps *)

LEMMA IInvInit == Init => IInv
<1> SUFFICES ASSUME Init PROVE IInv
  OBVIOUS
<1>1. Types
  BY EmptySeq DEF Init, Types
<1>2. QueueOnce
  BY EmptySeq DEF Init, QueueOnce
<1> QED
  BY <1>1, <1>2 DEF Init, IInv, Started, CopiesQueued, InOrder, Notified

LEMMA RequestKeeps ==
    ASSUME Ordinary, IInv, NEW r \in Requests, Request(r)
    PROVE  IInv'
<1>1. /\ Len(queue) \in Nat /\ DOMAIN queue = 1 .. Len(queue)
      /\ \A k \in DOMAIN queue : queue[k] \in Requests
      /\ \A t \in Targets : copying[t] # None => copying[t] \in Copies
  BY Typed DEF IInv
<1>2. /\ queue' \in Seq(Requests) /\ Len(queue') = Len(queue) + 1
      /\ \A k \in 1 .. Len(queue) : queue'[k] = queue[k]
      /\ queue'[Len(queue) + 1] = r
  BY AppendProperties DEF Request, IInv, QueueOnce
<1>3. DOMAIN queue' = 1 .. Len(queue) + 1
  BY <1>2, LenProperties
<1>4. \A k \in DOMAIN queue : queue[k] # r
  BY DEF Request, IInv, QueueOnce
<1>5. InPlace(r) # DOMAIN Plan[r].sources /\ InPlace(r) \in SUBSET Nat
  <2>1. Plan[r].sources \in Seq(Folders)
    BY PlanOK
  <2> QED
    BY <2>1, LenProperties DEF Ordinary, InPlace
<1>6. /\ done' \in [Requests -> SUBSET Nat] /\ done'[r] = InPlace(r)
      /\ heard' \in [Requests -> {"nothing", "queued", "ok", "failed"}] /\ heard'[r] = "queued"
      /\ copying' = copying
      /\ \A s \in Requests : s # r => done'[s] = done[s] /\ heard'[s] = heard[s]
  BY <1>5 DEF Request, IInv, Types
<1>7. /\ \A s \in Requests : s # r => (Processed(s) <=> Processed(s)')
      /\ ~Processed(r)'
  BY <1>5, <1>6 DEF Processed
<1>8. \A frame \in Frames : Due(frame) => Due(frame)'
  BY <1>6, <1>7 DEF Due, Request
<1>9. stack' \in Seq(Frames) /\ Notified'
  <2>1. stack \in Seq(Frames) /\ \A k \in DOMAIN stack : Due(stack[k])
    BY DEF IInv, Types, Notified
  <2>2. Call("next") \in Frames /\ Due(Call("next"))'
    BY DEF Call, Frames, Due
  <2>3. stack' = stack \/ stack' = <<Call("next")>> \o stack
    BY DEF Request
  <2> QED
    BY <1>8, <2>1, <2>2, <2>3, StackKept
<1>10. Types'
  BY <1>6, <1>9 DEF IInv, Types
<1>11. QueueOnce'
  <2>1. \A i, j \in DOMAIN queue' : queue'[i] = queue'[j] => i = j
    <3> SUFFICES ASSUME NEW i \in DOMAIN queue', NEW j \in DOMAIN queue', queue'[i] = queue'[j]
                 PROVE  i = j
      OBVIOUS
    <3>1. CASE i \in DOMAIN queue /\ j \in DOMAIN queue
      BY <1>1, <1>2, <3>1 DEF IInv, QueueOnce
    <3>2. CASE i = Len(queue) + 1 \/ j = Len(queue) + 1
      BY <1>1, <1>2, <1>3, <1>4, <3>2
    <3> QED
      BY <1>1, <1>3, <3>1, <3>2
  <2>2. \A s \in Requests : heard'[s] = "queued" <=> \E k \in DOMAIN queue' : queue'[k] = s
    <3> SUFFICES ASSUME NEW s \in Requests
                 PROVE  heard'[s] = "queued" <=> \E k \in DOMAIN queue' : queue'[k] = s
      OBVIOUS
    <3>1. CASE s = r
      <4>1. Len(queue) + 1 \in DOMAIN queue'
        BY <1>1, <1>3
      <4> QED
        BY <1>2, <1>6, <3>1, <4>1
    <3>2. CASE s # r
      <4>1. heard'[s] = "queued" <=> \E k \in DOMAIN queue : queue[k] = s
        BY <1>6, <3>2 DEF IInv, QueueOnce
      <4>2. (\E k \in DOMAIN queue : queue[k] = s) => \E k \in DOMAIN queue' : queue'[k] = s
        BY <1>1, <1>2, <1>3
      <4>3. (\E k \in DOMAIN queue' : queue'[k] = s) => \E k \in DOMAIN queue : queue[k] = s
        BY <1>1, <1>2, <1>3, <3>2
      <4> QED
        BY <4>1, <4>2, <4>3
    <3> QED
      BY <3>1, <3>2
  <2> QED
    BY <1>2, <2>1, <2>2 DEF QueueOnce
<1>12. Started'
  BY <1>6, <1>7 DEF IInv, Started, InPlace
<1>13. CopiesQueued'
  <2> SUFFICES ASSUME NEW t \in Targets, copying[t] # None
               PROVE  /\ Plan[copying[t].req].target = t
                      /\ copying[t].source \in DOMAIN Plan[copying[t].req].sources
                                                 \ InPlace(copying[t].req)
                      /\ Processed(copying[t].req)'
                      /\ \E k \in DOMAIN queue' : queue'[k] = copying[t].req
    BY <1>6 DEF CopiesQueued
  <2>1. PICK k \in DOMAIN queue : queue[k] = copying[t].req
    BY DEF IInv, CopiesQueued
  <2>2. copying[t].req \in Requests /\ copying[t].req # r
    BY <1>1, <1>4, <2>1
  <2>3. k \in DOMAIN queue' /\ queue'[k] = copying[t].req
    BY <1>1, <1>2, <1>3, <2>1
  <2>4. Processed(copying[t].req)'
    BY <1>6, <2>2 DEF Processed, IInv, CopiesQueued
  <2> QED
    BY <2>3, <2>4 DEF IInv, CopiesQueued
<1>14. InOrder'
  <2> SUFFICES ASSUME NEW i \in DOMAIN queue', NEW j \in DOMAIN queue', i < j,
                      Plan[queue'[i]].dst = Plan[queue'[j]].dst, Processed(queue[j])'
               PROVE  Processed(queue[i])'
    BY DEF InOrder
  <2>1. queue'[j] # r
    BY <1>7 DEF Processed
  <2>2. i \in DOMAIN queue /\ j \in DOMAIN queue /\ queue'[i] = queue[i] /\ queue'[j] = queue[j]
    BY <1>1, <1>2, <1>3, <2>1
  <2>3. Processed(queue[j])
    BY <1>1, <1>4, <1>6, <2>2 DEF Processed
  <2>4. Processed(queue[i])
    BY <2>2, <2>3 DEF IInv, InOrder
  <2> QED
    BY <1>1, <1>4, <1>6, <2>2, <2>4 DEF Processed
<1> QED
  BY <1>9, <1>10, <1>11, <1>12, <1>13, <1>14 DEF IInv

\* The notification of the end of a copy is due.
LEMMA NotifyDue ==
    ASSUME IInv, NEW r \in Requests, NEW j \in DOMAIN Plan[r].sources, NEW ok \in BOOLEAN,
           Support(r, j) = Plan[r].src, heard[r] # "nothing",
           Processed(r)', heard' = heard,
           \A t \in Targets : copying'[t] # None => copying'[t].req # r
    PROVE  \E new \in Frames : new = Notify(r, j, ok) /\ Due(new)'
<1>1. Plan[r].src \in Folders /\ Plan[r].target \in Targets /\ Len(queue) \in Int
  BY Typed DEF IInv, Folders, Targets
<1>2. PICK new : new = [call |-> "notify", support |-> Plan[r].src,
                        target |-> Plan[r].target, ok |-> ok, left |-> Len(queue)]
  OBVIOUS
<1>3. new = Notify(r, j, ok) /\ new \in Frames
  BY <1>1, <1>2 DEF Notify, Frames
<1>4. new.support = Plan[r].src /\ new.target = Plan[r].target
  BY <1>2
<1> QED
  BY <1>3, <1>4 DEF Due

LEMMA CopyEndsKeeps ==
    ASSUME Ordinary, IInv, NEW t \in Targets, NEW ok \in BOOLEAN, CopyEnds(t, ok)
    PROVE  IInv'
<1>1. copying[t].req \in Requests
  BY Typed DEF IInv, CopyEnds, Copies
<1>2. PICK r \in Requests : r = copying[t].req
  BY <1>1
<1> PICK j \in DOMAIN Plan[r].sources : j = copying[t].source
  BY <1>2 DEF IInv, CopiesQueued, CopyEnds
<1>3. /\ Plan[r].target = t /\ Processed(r) /\ j \notin InPlace(r)
      /\ heard[r] = "queued"
  BY <1>2 DEF IInv, CopiesQueued, CopyEnds, QueueOnce
<1>4. Support(r, j) = Plan[r].src
  BY <1>3 DEF Ordinary
<1>5. /\ copying' \in [Targets -> {None} \cup Copies] /\ copying'[t] = None
      /\ \A u \in Targets : u # t => copying'[u] = copying[u]
      /\ UNCHANGED <<queue, done, heard>>
  BY DEF CopyEnds, IInv, Types
<1>6. \A s \in Requests : Processed(s) <=> Processed(s)'
  BY <1>5 DEF Processed
<1>7. \A frame \in Frames : Due(frame) => Due(frame)'
  BY <1>5, <1>6 DEF Due
<1>8. PICK new \in Frames : new = Notify(r, j, ok) /\ Due(new)'
  <2>1. \A u \in Targets : copying'[u] # None => copying'[u].req # r
    BY <1>3, <1>5 DEF IInv, CopiesQueued
  <2> QED
    BY <1>3, <1>4, <1>5, <1>6, <2>1, NotifyDue
<1>9. stack' \in Seq(Frames) /\ Notified'
  <2>1. PICK none \in Seq(Frames) : none = <<>>
    BY EmptySeq
  <2>2. DOMAIN none = {}
    BY <2>1
  <2>3. stack' = <<new>> \o none
    BY <1>2, <1>8, <2>1 DEF CopyEnds
  <2> QED
    BY <1>7, <1>8, <2>2, <2>3, StackKept
<1>10. Types' /\ QueueOnce' /\ InOrder'
  BY <1>5, <1>9 DEF IInv, Types, QueueOnce, InOrder, Processed
<1>11. Started'
  BY <1>5 DEF IInv, Started, Processed
<1>12. CopiesQueued'
  BY <1>5 DEF IInv, CopiesQueued, Processed
<1> QED
  BY <1>9, <1>10, <1>11, <1>12 DEF IInv

LEMMA DoNextCopyKeeps ==
    ASSUME Ordinary, IInv, DoNextCopy
    PROVE  IInv'
<1>1. /\ stack # <<>> /\ Tail(stack) \in Seq(Frames)
      /\ \A k \in DOMAIN Tail(stack) : Due(Tail(stack)[k])
  BY Returned DEF DoNextCopy, Innermost, IInv
<1>2. CASE Startable = {} /\ stack' = Tail(stack) /\ UNCHANGED <<queue, done, copying, heard>>
  <2>1. \A frame \in Frames : Due(frame) => Due(frame)'
    BY <1>2 DEF Due, Processed
  <2>2. stack' \in Seq(Frames) /\ Notified'
    BY <1>1, <1>2, <2>1, StackKept
  <2> QED
    BY <1>2, <2>2 DEF IInv, Types, QueueOnce, Started, CopiesQueued, InOrder, Processed
<1>3. ASSUME NEW k \in Startable, NEW j \in DOMAIN Plan[queue[k]].sources,
             First(k, Startable), First(j, DOMAIN Plan[queue[k]].sources \ done[queue[k]]),
             done' = [done EXCEPT ![queue[k]] = @ \cup {j}],
             \/ CopyRuns(queue[k], j)
             \/ \E ok \in BOOLEAN : CopyAtOnce(queue[k], j, ok)
             \/ CopyRefused(k)
             \/ CopySilent(queue[k])
      PROVE  IInv'
  <2>1. /\ k \in DOMAIN queue /\ queue[k] \in Requests
        /\ \A t \in Targets : copying[t] # None => copying[t] \in Copies
        /\ \A i \in DOMAIN queue : queue[i] \in Requests
        /\ DOMAIN queue \subseteq Nat
    BY Typed DEF Startable, IInv
  <2>2. PICK r \in Requests : r = queue[k]
    BY <2>1
  <2> Plan[r].target \in Targets
    BY DEF Targets
  <2>3. /\ heard[r] = "queued" /\ ~Processed(r) /\ Processed(r)'
        /\ j \in DOMAIN Plan[r].sources \ InPlace(r)
        /\ Support(r, j) = Plan[r].src
        /\ done' \in [Requests -> SUBSET Nat]
        /\ \A s \in Requests : s # r => done'[s] = done[s]
        /\ \A s \in Requests : Processed(s) => Processed(s)'
    BY <1>3, <2>2, SourceStarted
  <2>4. \A t \in Targets : copying[t] # None => copying[t].req # r
    BY <2>3 DEF IInv, CopiesQueued
  <2>5. CASE CopyRefused(k)
    <3>1. ClearRequest(k, FALSE, Tail(stack)) /\ copying' = copying
      BY <2>5 DEF CopyRefused
    <3> QED
      BY <1>1, <2>1, <2>2, <2>3, <2>4, <3>1, ClearedKeeps
  <2>6. ASSUME CopyRuns(r, j) \/ (\E ok \in BOOLEAN : CopyAtOnce(r, j, ok)) \/ CopySilent(r)
        PROVE  IInv'
    <3>1. UNCHANGED <<queue, heard>>
      BY <2>6 DEF CopyRuns, CopyAtOnce, CopySilent
    <3>2. /\ copying' \in [Targets -> {None} \cup Copies]
          /\ \A t \in Targets : \/ copying'[t] = copying[t]
                              \/ /\ t = Plan[r].target
                                 /\ copying'[t] \in {None, [req |-> r, source |-> j]}
      <4>1. [req |-> r, source |-> j] \in Copies
        <5>1. Plan[r].sources \in Seq(Folders)
          BY PlanOK
        <5> QED
          BY <2>3, <5>1, LenProperties DEF Copies
      <4> QED
        BY <2>6, <4>1 DEF CopyRuns, CopyAtOnce, CopySilent, IInv, Types
    <3>3. \A frame \in Frames : Due(frame) => Due(frame)'
      <4> SUFFICES ASSUME NEW frame \in Frames, Due(frame), frame.call = "notify"
                   PROVE  Due(frame)'
        BY DEF Due
      <4>1. PICK s \in Requests :
                /\ frame.support = Plan[s].src /\ frame.target = Plan[s].target
                /\ heard[s] # "nothing" /\ Processed(s)
                /\ \A t \in Targets : copying[t] # None => copying[t].req # s
        BY DEF Due
      <4>2. s # r /\ Processed(s)' /\ heard'[s] # "nothing"
        BY <2>3, <3>1, <4>1
      <4>3. \A t \in Targets : copying'[t] # None => copying'[t].req # s
        BY <3>2, <4>1, <4>2
      <4> QED
        BY <4>1, <4>2, <4>3 DEF Due
    <3>4. stack' \in Seq(Frames) /\ Notified'
      <4>1. CASE CopyRuns(r, j) \/ CopySilent(r)
        <5>1. stack' = Tail(stack)
          BY <4>1 DEF CopyRuns, CopySilent
        <5> QED
          BY <1>1, <3>3, <5>1, StackKept
      <4>2. ASSUME NEW ok \in BOOLEAN, CopyAtOnce(r, j, ok)
            PROVE  stack' \in Seq(Frames) /\ Notified'
        <5>1. \A t \in Targets : copying'[t] # None => copying'[t].req # r
          BY <2>4, <4>2 DEF CopyAtOnce, IInv, Types
        <5>2. PICK new \in Frames : new = Notify(r, j, ok) /\ Due(new)'
          BY <2>3, <3>1, <5>1, NotifyDue
        <5>3. stack' = <<new>> \o Tail(stack)
          BY <4>2, <5>2 DEF CopyAtOnce
        <5> QED
          BY <1>1, <3>3, <5>2, <5>3, StackKept
      <4> QED
        BY <2>6, <4>1, <4>2
    <3>5. Types' /\ QueueOnce'
      BY <2>3, <3>1, <3>2, <3>4 DEF IInv, Types, QueueOnce
    <3>6. Started'
      BY <2>3, <3>1 DEF IInv, Started, Processed
    <3>7. CopiesQueued'
      <4> SUFFICES ASSUME NEW t \in Targets, copying'[t] # None
                   PROVE  /\ Plan[copying'[t].req].target = t
                          /\ copying'[t].source \in DOMAIN Plan[copying'[t].req].sources
                                                     \ InPlace(copying'[t].req)
                          /\ Processed(copying[t].req)'
                          /\ \E i \in DOMAIN queue' : queue'[i] = copying'[t].req
        BY DEF CopiesQueued
      <4>1. CASE copying'[t] # copying[t]
        <5>1. copying'[t].req = r /\ copying'[t].source = j
          BY <3>2, <4>1
        <5>2. Processed(copying[t].req)' /\ t = Plan[r].target
          BY <2>3, <3>2, <4>1, <5>1 DEF Processed
        <5> QED
          BY <2>1, <2>2, <2>3, <3>1, <5>1, <5>2
      <4>2. CASE copying'[t] = copying[t]
        <5>1. copying'[t] = copying[t] /\ copying[t].req \in Requests
          BY <2>1, <4>2 DEF Copies
        <5>2. Processed(copying[t].req)
          BY <5>1 DEF IInv, CopiesQueued
        <5>3. Processed(copying[t].req)'
          BY <2>3, <5>1, <5>2 DEF Processed
        <5> QED
          BY <3>1, <5>1, <5>3 DEF IInv, CopiesQueued
      <4> QED
        BY <4>1, <4>2
    <3>8. InOrder'
      <4> SUFFICES ASSUME NEW i \in DOMAIN queue, NEW n \in DOMAIN queue, i < n,
                          Plan[queue[i]].dst = Plan[queue[n]].dst, Processed(queue[n])'
                   PROVE  Processed(queue[i])'
        BY <3>1 DEF InOrder
      <4>1. queue[i] \in Requests /\ queue[n] \in Requests /\ queue' = queue
        BY <2>1, <3>1
      <4>2. CASE n # k
        <5>1. queue[n] # r
          BY <2>1, <2>2, <4>2 DEF IInv, QueueOnce
        <5>2. Processed(queue[n])
          BY <2>3, <4>1, <5>1 DEF Processed
        <5>3. Processed(queue[i])
          BY <5>2 DEF IInv, InOrder
        <5> QED
          BY <2>3, <4>1, <5>3 DEF Processed
      <4>3. CASE n = k
        <5>1. \A m \in 1 .. k - 1 :
                  Plan[queue[m]].dst = Plan[queue[k]].dst => ~Processed(queue[m])
          BY DEF Startable
        <5>2. i \in 1 .. k - 1 /\ k \in Nat
          BY <2>1, <4>3, Typed DEF IInv
        <5>3. i \in Startable
          <6> SUFFICES ASSUME NEW m \in 1 .. i - 1, Plan[queue[m]].dst = Plan[queue[i]].dst
                       PROVE  ~Processed(queue[m])
            BY <4>3, <5>1, <5>2 DEF Startable
          <6>1. m \in 1 .. k - 1
            BY <5>2
          <6> QED
            BY <4>3, <5>1, <6>1
        <5>4. k <= i
          BY <1>3, <5>3 DEF First
        <5> QED
          BY <2>1, <4>3, <5>2, <5>4
      <4> QED
        BY <4>2, <4>3
    <3> QED
      BY <3>4, <3>5, <3>6, <3>7, <3>8 DEF IInv
  <2> QED
    BY <1>3, <2>2, <2>5, <2>6
<1> QED
  BY <1>2, <1>3 DEF DoNextCopy

LEMMA NotifyCompletionKeeps ==
    ASSUME Ordinary, IInv, NotifyCompletion
    PROVE  IInv'
<1>1. /\ stack # <<>> /\ Tail(stack) \in Seq(Frames)
      /\ \A k \in DOMAIN Tail(stack) : Due(Tail(stack)[k])
      /\ Head(stack) \in Frames /\ Due(Head(stack)) /\ Head(stack).call = "notify"
  BY Returned DEF NotifyCompletion, Innermost, IInv
<1>2. PICK frame \in Frames : frame = Head(stack)
  BY <1>1
<1>3. /\ frame \in [call : {"notify"}, support : Folders, target : Targets,
                    ok : BOOLEAN, left : Int]
      /\ Due(frame) /\ frame.call = "notify"
  BY <1>1, <1>2 DEF Frames
<1>4. ASSUME NEW k \in DOMAIN queue, Clears(frame, k),
             ClearRequest(k, frame.ok, <<[frame EXCEPT !.left = @ - 1]>> \o Tail(stack))
      PROVE  IInv'
  <2>1. PICK less \in Frames : less = [frame EXCEPT !.left = @ - 1]
    <3>1. [frame EXCEPT !.left = @ - 1]
            \in [call : {"notify"}, support : Folders, target : Targets, ok : BOOLEAN, left : Int]
      BY <1>3
    <3> QED
      BY <3>1 DEF Frames
  <2>2. /\ less.call = "notify" /\ less.support = frame.support /\ less.target = frame.target
    BY <1>3, <2>1
  <2>3. PICK s \in Requests :
            /\ frame.support = Plan[s].src /\ frame.target = Plan[s].target
            /\ heard[s] # "nothing" /\ Processed(s)
            /\ \A t \in Targets : copying[t] # None => copying[t].req # s
    BY <1>3 DEF Due
  <2>4. PICK r \in Requests : r = queue[k]
    BY Typed DEF IInv
  <2>5. r = s
    BY <1>4, <2>3, <2>4 DEF Clears, First, Matching, Ordinary, SamePair
  <2>6. Due(less)
    BY <1>3, <2>2 DEF Due
  <2>7. PICK frames \in Seq(Frames) : frames = <<less>> \o Tail(stack)
    BY <1>1, Pushed
  <2>8. \A f \in DOMAIN frames : Due(frames[f])
    <3>1. /\ Len(frames) = Len(Tail(stack)) + 1 /\ frames[1] = less
          /\ \A f \in 1 .. Len(Tail(stack)) : frames[f + 1] = Tail(stack)[f]
      BY <1>1, <2>7, Pushed
    <3>2. /\ Len(Tail(stack)) \in Nat /\ DOMAIN Tail(stack) = 1 .. Len(Tail(stack))
          /\ DOMAIN frames = 1 .. Len(Tail(stack)) + 1
      BY <1>1, <2>7, <3>1, LenProperties
    <3>3. ASSUME NEW f \in DOMAIN frames, f # 1
          PROVE  f - 1 \in DOMAIN Tail(stack) /\ frames[f] = Tail(stack)[f - 1]
      <4>1. f - 1 \in 1 .. Len(Tail(stack)) /\ (f - 1) + 1 = f
        BY <3>2, <3>3
      <4> QED
        BY <3>1, <3>2, <4>1
    <3> QED
      BY <1>1, <2>6, <3>1, <3>3
  <2>9. /\ done' = done /\ copying' = copying /\ (Processed(r) => Processed(r)')
        /\ done' \in [Requests -> SUBSET Nat]
    BY DEF NotifyCompletion, Processed, IInv, Types
  <2>10. ClearRequest(k, frame.ok, frames) /\ frame.ok \in BOOLEAN
    BY <1>3, <1>4, <2>1, <2>7
  <2> QED
    BY <2>3, <2>4, <2>5, <2>8, <2>9, <2>10, ClearedKeeps
<1>5. ASSUME stack' = <<Call("next")>> \o Tail(stack), UNCHANGED <<queue, heard, done, copying>>
      PROVE  IInv'
  <2>1. Call("next") \in Frames /\ Due(Call("next"))'
    BY DEF Call, Frames, Due
  <2>2. \A f \in Frames : Due(f) => Due(f)'
    BY <1>5 DEF Due, Processed
  <2>3. stack' \in Seq(Frames) /\ Notified'
    BY <1>1, <1>5, <2>1, <2>2, StackKept
  <2> QED
    BY <1>5, <2>3 DEF IInv, Types, QueueOnce, Started, CopiesQueued, InOrder, Processed
<1> QED
  BY <1>2, <1>4, <1>5 DEF NotifyCompletion

LEMMA IInvStep == Ordinary /\ IInv /\ [Next]_vars => IInv'
<1> SUFFICES ASSUME Ordinary, IInv, [Next]_vars PROVE IInv'
  OBVIOUS
<1>1. ASSUME NEW r \in Requests, Request(r) PROVE IInv'
  BY <1>1, RequestKeeps
<1>2. ASSUME NEW t \in Targets, NEW ok \in BOOLEAN, CopyEnds(t, ok) PROVE IInv'
  BY <1>2, CopyEndsKeeps
<1>3. CASE DoNextCopy
  BY <1>3, DoNextCopyKeeps
<1>4. CASE NotifyCompletion
  BY <1>4, NotifyCompletionKeeps
<1>5. ASSUME \/ ListenerReturns
             \/ UNCHANGED vars
      PROVE  IInv'
  <2>1. UNCHANGED <<queue, done, copying, heard>>
    BY <1>5 DEF ListenerReturns, vars
  <2>2. \A f \in Frames : Due(f) => Due(f)'
    BY <2>1 DEF Due, Processed
  <2>3. stack' \in Seq(Frames) /\ Notified'
    <3>1. CASE ListenerReturns
      <4>1. /\ Tail(stack) \in Seq(Frames) /\ stack' = Tail(stack)
            /\ \A k \in DOMAIN Tail(stack) : Due(Tail(stack)[k])
        BY <3>1, Returned DEF ListenerReturns, Innermost, IInv
      <4> QED
        BY <2>2, <4>1, StackKept
    <3>2. CASE UNCHANGED vars
      <4>1. stack \in Seq(Frames) /\ stack' = stack /\ \A k \in DOMAIN stack : Due(stack[k])
        BY <3>2 DEF vars, IInv, Types, Notified
      <4> QED
        BY <2>2, <4>1, StackKept
    <3> QED
      BY <1>5, <3>1, <3>2
  <2> QED
    BY <2>1, <2>3 DEF IInv, Types, QueueOnce, Started, CopiesQueued, InOrder, Processed
<1> QED
  BY <1>1, <1>2, <1>3, <1>4, <1>5 DEF Next

-----------------------------------------------------------------------------
(* The theorems *)

\* CopyServiceTyped: a request is in m_copyRequests from the call that makes it to
\* its OnStopCopy, whatever the calls nest.
THEOREM CopyServiceTyped == Ordinary => (Spec => []TypeOK)
<1>1. ASSUME IInv PROVE TypeOK
  <2>1. \A r \in Requests : (\E k \in DOMAIN queue : queue[k] = r) <=> r \in ToSet(queue)
    BY DEF ToSet
  <2>2. IsInjective(queue)
    BY <1>1 DEF IInv, QueueOnce, IsInjective
  <2>3. \A r \in Requests : done[r] \subseteq DOMAIN Plan[r].sources
    BY <1>1 DEF IInv, Started
  <2>4. \A r \in Requests : heard[r] = "queued" <=> r \in ToSet(queue)
    BY <1>1, <2>1 DEF IInv, QueueOnce
  <2>5. \A t \in Targets : copying[t] # None =>
            /\ copying[t].req \in Requests
            /\ copying[t].source \in DOMAIN Plan[copying[t].req].sources
    BY <1>1, Typed DEF IInv, CopiesQueued, Copies
  <2>6. \A k \in DOMAIN stack : stack[k].call \in {"next", "notify", "listener"}
    BY <1>1, Typed DEF IInv, Frames
  <2>7. queue \in Seq(Requests) /\ heard \in [Requests -> {"nothing", "queued", "ok", "failed"}]
    BY <1>1 DEF IInv, Types, QueueOnce
  <2> QED
    BY <2>2, <2>3, <2>4, <2>5, <2>6, <2>7 DEF TypeOK
<1>2. ASSUME Ordinary PROVE Spec => []TypeOK
  BY <1>1, <1>2, IInvInit, IInvStep, PTL DEF Spec
<1> QED
  BY <1>2

\* CopyNotAnsweredEarly: no listener hears of the end of a copy that is under way, for
\* any number of ordinary requests.
THEOREM CopyNotAnsweredEarly == Ordinary => (Spec => []NotAnsweredEarly)
<1>1. ASSUME IInv PROVE NotAnsweredEarly
  BY <1>1 DEF IInv, CopiesQueued, NotAnsweredEarly, ToSet
<1>2. ASSUME Ordinary PROVE Spec => []NotAnsweredEarly
  BY <1>1, <1>2, IInvInit, IInvStep, PTL DEF Spec
<1> QED
  BY <1>2

\* OneAtATime: no copy is started in a folder that copies, for any number of ordinary
\* requests.
THEOREM OneAtATime == Ordinary => (Spec => OneCopyPerTarget)
<1> DEFINE Free == \A t \in Targets : copying[t] # None /\ copying'[t] # copying[t] => stack = <<>>
<1>1. ASSUME Ordinary, IInv, [Next]_vars PROVE [Free]_vars
  <2> SUFFICES ASSUME NEW t \in Targets, copying[t] # None, copying'[t] # copying[t], Next
               PROVE  stack = <<>>
    BY <1>1 DEF vars
  <2>1. CASE \E u \in Targets, ok \in BOOLEAN : CopyEnds(u, ok)
    BY <2>1 DEF CopyEnds
  <2>2. CASE DoNextCopy
    <3>1. PICK k \in Startable :
              \E j \in DOMAIN Plan[queue[k]].sources :
                  CopyRuns(queue[k], j) \/ \E ok \in BOOLEAN : CopyAtOnce(queue[k], j, ok)
      <4>1. /\ \A k : ~CopyRefused(k)
            /\ \A r : ~CopySilent(r)
        BY DEF CopyRefused, CopySilent
      <4> QED
        BY <2>2, <4>1 DEF DoNextCopy
    <3>2. copying' = [copying EXCEPT ![Plan[queue[k]].target] = copying'[Plan[queue[k]].target]]
      BY <1>1, <3>1 DEF CopyRuns, CopyAtOnce, IInv, Types
    <3>3. t = Plan[queue[k]].target
      BY <1>1, <3>2 DEF IInv, Types
    <3>4. PICK i \in DOMAIN queue : queue[i] = copying[t].req
      BY <1>1 DEF IInv, CopiesQueued
    <3>5. Processed(queue[i]) /\ Plan[queue[i]].target = Plan[queue[k]].target
      BY <1>1, <3>3, <3>4 DEF IInv, CopiesQueued
    <3>6. /\ queue[i] \in Requests /\ queue[k] \in Requests /\ k \in DOMAIN queue
          /\ DOMAIN queue = 1 .. Len(queue) /\ Len(queue) \in Nat
      BY <1>1, Typed DEF IInv, Startable
    <3>7. Plan[queue[i]].dst = Plan[queue[k]].dst
      BY <1>1, <3>5, <3>6 DEF Ordinary
    <3>8. ~Processed(queue[k])
      BY DEF Startable
    <3>9. CASE i < k
      BY <3>5, <3>6, <3>7, <3>9 DEF Startable
    <3>10. CASE k < i
      BY <1>1, <3>5, <3>6, <3>7, <3>8, <3>10 DEF IInv, InOrder
    <3> QED
      BY <3>5, <3>6, <3>8, <3>9, <3>10
  <2>3. CASE (\E r \in Requests : Request(r)) \/ NotifyCompletion \/ ListenerReturns
    BY <2>3 DEF Request, NotifyCompletion, ListenerReturns
  <2> QED
    BY <2>1, <2>2, <2>3 DEF Next
<1>2. ASSUME Ordinary PROVE Spec => [][Free]_vars
  BY <1>1, <1>2, IInvInit, IInvStep, PTL DEF Spec
<1> QED
  BY <1>2 DEF OneCopyPerTarget

-----------------------------------------------------------------------------
(* Every end of a copy starts the next *)

\* A folder that is refused leaves the queue without a call of NotifyCompletion: no
\* copy is started in its place.
NoneRefused == "refusals" \notin Disturbances

\* The folders that could begin a copy, and the calls that will make one begin, by their
\* place from the bottom of the stack: those of DoNextCopy, and those of
\* NotifyCompletion that have nothing to clear any more.
Waiting == {Plan[queue[k]].dst : k \in Startable}
Waking ==
    {frame \in Frames : \/ frame.call = "next"
                        \/ frame.call = "notify" /\ Matching(frame) = {}}
Rising(s, W) == {p \in 1 .. Len(s) : s[Len(s) + 1 - p] \in W}
Wakers == Rising(stack, Waking)

Enough == Cardinality(Waiting) <= Cardinality(Wakers)

\* A call of NotifyCompletion is about a request that was made before it, and that it
\* therefore reaches (numOrigRequests).
Settled ==
    {frame \in Frames : frame.call = "notify" =>
        /\ \E r \in Requests : /\ frame.support = Plan[r].src /\ frame.target = Plan[r].target
                               /\ heard[r] # "nothing"
        /\ \A k \in Matching(frame) : k <= frame.left}

NInv == IInv /\ stack \in Seq(Settled) /\ Enough

LEMMA RisingPopped ==
    ASSUME NEW S, NEW s \in Seq(S), s # <<>>, NEW W
    PROVE  /\ Rising(Tail(s), W) = Rising(s, W) \ {Len(s)}
           /\ Len(s) \in Rising(s, W) <=> Head(s) \in W
           /\ Head(s) \in S /\ Tail(s) \in Seq(S)
           /\ Len(s) \in Nat /\ Len(Tail(s)) + 1 = Len(s)
<1>1. /\ Tail(s) \in Seq(S) /\ Len(Tail(s)) = Len(s) - 1 /\ Head(s) \in S
      /\ \A k \in 1 .. Len(Tail(s)) : Tail(s)[k] = s[k + 1]
  BY HeadTailProperties
<1>2. Len(s) \in Nat \ {0} /\ Head(s) = s[1]
  BY LenProperties, EmptySeq
<1>3. \A p \in 1 .. Len(s) - 1 : Tail(s)[Len(Tail(s)) + 1 - p] = s[Len(s) + 1 - p]
  <2> SUFFICES ASSUME NEW p \in 1 .. Len(s) - 1
               PROVE  Tail(s)[Len(Tail(s)) + 1 - p] = s[Len(s) + 1 - p]
    OBVIOUS
  <2>1. Len(s) - p \in 1 .. Len(Tail(s)) /\ (Len(s) - p) + 1 = Len(s) + 1 - p
        /\ Len(Tail(s)) + 1 - p = Len(s) - p
    BY <1>1, <1>2
  <2> QED
    BY <1>1, <2>1
<1>4. Rising(Tail(s), W) = Rising(s, W) \ {Len(s)}
  BY <1>1, <1>2, <1>3 DEF Rising
<1>5. Len(s) \in Rising(s, W) <=> Head(s) \in W
  <2>1. Len(s) + 1 - Len(s) = 1 /\ Len(s) \in 1 .. Len(s)
    BY <1>2
  <2> QED
    BY <1>2, <2>1 DEF Rising
<1> QED
  BY <1>1, <1>2, <1>4, <1>5

LEMMA RisingPushed ==
    ASSUME NEW S, NEW s \in Seq(S), NEW e \in S, NEW W
    PROVE  /\ Rising(s, W) \subseteq Rising(<<e>> \o s, W)
           /\ e \in W => Len(s) + 1 \in Rising(<<e>> \o s, W)
<1>1. /\ Len(<<e>> \o s) = Len(s) + 1 /\ (<<e>> \o s)[1] = e /\ Len(s) \in Nat
      /\ \A k \in 1 .. Len(s) : (<<e>> \o s)[k + 1] = s[k]
  BY Pushed, LenProperties
<1> DEFINE t == <<e>> \o s
<1> HIDE DEF t
<1>2. Len(t) = Len(s) + 1 /\ t[1] = e /\ \A k \in 1 .. Len(s) : t[k + 1] = s[k]
  BY <1>1 DEF t
<1>3. ASSUME NEW p \in Rising(s, W)
      PROVE  p \in Rising(t, W)
  <2>1. p \in 1 .. Len(s) /\ s[Len(s) + 1 - p] \in W
    BY DEF Rising
  <2>2. /\ Len(s) + 1 - p \in 1 .. Len(s) /\ (Len(s) + 1 - p) + 1 = Len(t) + 1 - p
        /\ p \in 1 .. Len(t)
    BY <1>1, <1>2, <2>1
  <2> QED
    BY <1>2, <2>1, <2>2 DEF Rising
<1>4. e \in W => Len(s) + 1 \in Rising(t, W)
  <2>1. Len(t) + 1 - (Len(s) + 1) = 1 /\ Len(s) + 1 \in 1 .. Len(t)
    BY <1>1, <1>2
  <2> QED
    BY <1>2, <2>1 DEF Rising
<1> QED
  BY <1>3, <1>4 DEF t

LEMMA RisingFinite ==
    ASSUME NEW S, NEW s \in Seq(S), NEW W
    PROVE  IsFiniteSet(Rising(s, W)) /\ Len(s) + 1 \notin Rising(s, W)
<1>1. Len(s) \in Nat
  BY LenProperties
<1>2. IsFiniteSet(1 .. Len(s)) /\ Rising(s, W) \in SUBSET (1 .. Len(s))
  BY <1>1, FS_Interval DEF Rising
<1> QED
  BY <1>1, <1>2, FS_Subset

LEMMA RisingWidens ==
    ASSUME NEW S, NEW s \in Seq(S), NEW W, NEW V, \A e \in S : e \in W => e \in V
    PROVE  Rising(s, W) \subseteq Rising(s, V)
<1>1. Len(s) \in Nat /\ \A k \in 1 .. Len(s) : s[k] \in S
  BY LenProperties, ElementOfSeq
<1> QED
  BY <1>1 DEF Rising

\* One member more, or one less.
LEMMA Counted ==
    ASSUME NEW A, NEW B, IsFiniteSet(A), IsFiniteSet(B)
    PROVE  /\ Cardinality(A) \in Nat
           /\ B \subseteq A => Cardinality(B) <= Cardinality(A)
           /\ \A x : B \subseteq A \cup {x} => Cardinality(B) <= Cardinality(A) + 1
           /\ \A x \in A : B \subseteq A \ {x} => Cardinality(B) <= Cardinality(A) - 1
           /\ \A x : A \ {x} \subseteq B => Cardinality(A) - 1 <= Cardinality(B)
           /\ \A x : x \notin A /\ A \cup {x} \subseteq B => Cardinality(A) + 1 <= Cardinality(B)
<1>1. Cardinality(A) \in Nat /\ Cardinality(B) \in Nat
  BY FS_CardinalityType
<1>2. B \subseteq A => Cardinality(B) <= Cardinality(A)
  BY FS_Subset
<1>3. ASSUME NEW x, B \subseteq A \cup {x}
      PROVE  Cardinality(B) <= Cardinality(A) + 1
  <2>1. /\ IsFiniteSet(A \cup {x})
        /\ Cardinality(A \cup {x}) = IF x \in A THEN Cardinality(A) ELSE Cardinality(A) + 1
    BY FS_AddElement
  <2>2. Cardinality(B) <= Cardinality(A \cup {x})
    BY <1>3, <2>1, FS_Subset
  <2> QED
    BY <1>1, <2>1, <2>2
<1>4. ASSUME NEW x \in A, B \subseteq A \ {x}
      PROVE  Cardinality(B) <= Cardinality(A) - 1
  <2>1. IsFiniteSet(A \ {x}) /\ Cardinality(A \ {x}) = Cardinality(A) - 1
    BY FS_RemoveElement
  <2> QED
    BY <1>4, <2>1, FS_Subset
<1>5. ASSUME NEW x, A \ {x} \subseteq B
      PROVE  Cardinality(A) - 1 <= Cardinality(B)
  <2>1. /\ IsFiniteSet(A \ {x})
        /\ Cardinality(A \ {x}) = IF x \in A THEN Cardinality(A) - 1 ELSE Cardinality(A)
    BY FS_RemoveElement
  <2>2. Cardinality(A \ {x}) <= Cardinality(B)
    BY <1>5, FS_Subset
  <2> QED
    BY <1>1, <2>1, <2>2
<1>6. ASSUME NEW x, x \notin A, A \cup {x} \subseteq B
      PROVE  Cardinality(A) + 1 <= Cardinality(B)
  <2>1. IsFiniteSet(A \cup {x}) /\ Cardinality(A \cup {x}) = Cardinality(A) + 1
    BY <1>6, FS_AddElement
  <2> QED
    BY <1>6, <2>1, FS_Subset
<1> QED
  BY <1>1, <1>2, <1>3, <1>4, <1>5, <1>6

LEMMA WaitingFinite ==
    ASSUME Types, QueueOnce
    PROVE  IsFiniteSet(Waiting)
<1>1. IsFiniteSet(Startable)
  <2>1. Len(queue) \in Nat /\ DOMAIN queue = 1 .. Len(queue)
    BY Typed
  <2>2. Startable \in SUBSET (1 .. Len(queue)) /\ IsFiniteSet(1 .. Len(queue))
    BY <2>1, FS_Interval DEF Startable
  <2> QED
    BY <2>2, FS_Subset
<1> DEFINE f == [k \in Startable |-> Plan[queue[k]].dst]
<1>2. f \in Surjection(Startable, Waiting)
  BY DEF Surjection, Waiting
<1> HIDE DEF f
<1> QED
  BY <1>1, <1>2, FS_Surjection

\* What a step does to the queue: a request that was never made joins it, or requests
\* leave it and the others move up.
Moved ==
    /\ \A m \in DOMAIN queue' :
           \/ \E i \in DOMAIN queue : m <= i /\ queue'[m] = queue[i]
           \/ queue'[m] \in Requests /\ heard[queue'[m]] = "nothing"
    /\ \A r \in Requests : heard[r] # "nothing" => heard'[r] # "nothing"

\* What waits to be cleared is reached, and what is over stays over.
LEMMA FramesSettled ==
    ASSUME Ordinary, QueueOnce, QueueOnce', Types, Moved, NEW frame \in Settled
    PROVE  frame \in Settled' /\ (frame \in Waking => frame \in Waking')
<1>1. CASE frame.call # "notify"
  BY <1>1 DEF Settled, Waking
<1>2. CASE frame.call = "notify"
  <2>1. /\ frame \in Frames
        /\ \A k \in Matching(frame) : k <= frame.left
    BY <1>2 DEF Settled
  <2>2. PICK r \in Requests : /\ frame.support = Plan[r].src /\ frame.target = Plan[r].target
                              /\ heard[r] # "nothing"
    BY <1>2 DEF Settled
  <2>3. ASSUME NEW m \in Matching(frame)'
        PROVE  \E i \in Matching(frame) : m <= i
    <3>1. /\ m \in DOMAIN queue' /\ Plan[queue'[m]].src = frame.support
          /\ Plan[queue'[m]].target = frame.target
      BY DEF Matching
    <3>2. queue'[m] \in Requests => queue'[m] = r
      BY <2>2, <3>1 DEF Ordinary, SamePair
    <3>3. PICK i \in DOMAIN queue : m <= i /\ queue'[m] = queue[i]
      BY <2>2, <3>1, <3>2 DEF Moved
    <3> QED
      BY <3>1, <3>3 DEF Matching
  <2>4. frame.left \in Int /\ \A i \in DOMAIN queue : i \in Int
    BY <1>2, <2>1, Typed DEF Frames
  <2>5. DOMAIN queue' \subseteq Int
    BY LenProperties DEF QueueOnce
  <2>6. \A m \in Matching(frame)' : m <= frame.left
    BY <2>1, <2>3, <2>4, <2>5 DEF Matching
  <2>7. heard'[r] # "nothing"
    BY <2>2 DEF Moved
  <2>8. frame \in Settled'
    BY <2>1, <2>2, <2>6, <2>7 DEF Settled
  <2>9. Matching(frame) = {} => Matching(frame)' = {}
    BY <2>3
  <2> QED
    BY <1>2, <2>1, <2>8, <2>9 DEF Waking
<1> QED
  BY <1>1, <1>2
LEMMA NInvInit == Init => NInv
<1> SUFFICES ASSUME Init PROVE NInv
  OBVIOUS
<1>1. Startable = {} /\ stack = <<>> /\ DOMAIN queue = {}
  BY EmptySeq DEF Init, Startable
<1>2. Waiting = {} /\ Wakers = {} /\ stack \in Seq(Settled)
  <2>1. Len(stack) = 0 /\ stack \in Seq(Settled)
    BY <1>1, EmptySeq
  <2> QED
    BY <1>1, <2>1 DEF Waiting, Wakers, Rising
<1>3. Enough
  BY <1>2, FS_EmptySet DEF Enough
<1> QED
  BY <1>2, <1>3, IInvInit DEF NInv

\* The frames of a stack, all settled, after a step that moves the queue.
LEMMA StackSettled ==
    ASSUME Ordinary, QueueOnce, QueueOnce', Types, Moved, NEW rest \in Seq(Settled)
    PROVE  /\ rest \in Seq(Settled') /\ rest \in Seq(Frames)
           /\ Rising(rest, Waking) \subseteq Rising(rest, Waking')
           /\ IsFiniteSet(Rising(rest, Waking)) /\ Len(rest) + 1 \notin Rising(rest, Waking)
<1>1. \A frame \in Settled : frame \in Settled' /\ (frame \in Waking => frame \in Waking')
  BY FramesSettled
<1>2. Settled \subseteq Frames
  BY DEF Settled
<1>3. /\ Len(rest) \in Nat /\ rest \in [1 .. Len(rest) -> Settled]
  BY LenProperties, ElementOfSeq
<1>4. rest \in [1 .. Len(rest) -> Settled'] /\ rest \in [1 .. Len(rest) -> Frames]
  BY <1>1, <1>2, <1>3
<1> QED
  BY <1>1, <1>3, <1>4, IsASeq, RisingWidens, RisingFinite

\* How the count comes out: enough calls are left, one more folder waits and one more
\* call wakes, or one folder and one call are done with.
LEMMA EnoughKept ==
    ASSUME IsFiniteSet(Waiting), IsFiniteSet(Waiting'), IsFiniteSet(Wakers),
           IsFiniteSet(Wakers'), Enough,
           \/ Waiting' \subseteq Waiting /\ Wakers \subseteq Wakers'
           \/ \E d, p : /\ Waiting' \subseteq Waiting \cup {d}
                        /\ p \notin Wakers /\ Wakers \cup {p} \subseteq Wakers'
           \/ \E d \in Waiting : \E p : /\ Waiting' \subseteq Waiting \ {d}
                                       /\ Wakers \ {p} \subseteq Wakers'
           \/ Waiting' = {}
    PROVE  Enough'
<1>1. /\ Cardinality(Waiting) \in Nat /\ Cardinality(Waiting') \in Nat
      /\ Cardinality(Wakers) \in Nat /\ Cardinality(Wakers') \in Nat
  BY FS_CardinalityType
<1>2. CASE Waiting' \subseteq Waiting /\ Wakers \subseteq Wakers'
  <2>1. Cardinality(Waiting') <= Cardinality(Waiting)
    BY <1>2, FS_Subset
  <2>2. Cardinality(Wakers) <= Cardinality(Wakers')
    BY <1>2, FS_Subset
  <2> QED
    BY <1>1, <2>1, <2>2 DEF Enough
<1>3. ASSUME NEW d, NEW p, Waiting' \subseteq Waiting \cup {d},
             p \notin Wakers, Wakers \cup {p} \subseteq Wakers'
      PROVE  Enough'
  <2>1. Cardinality(Waiting') <= Cardinality(Waiting) + 1
    BY <1>3, Counted
  <2>2. Cardinality(Wakers) + 1 <= Cardinality(Wakers')
    BY <1>3, Counted
  <2> QED
    BY <1>1, <2>1, <2>2 DEF Enough
<1>4. ASSUME NEW d \in Waiting, NEW p, Waiting' \subseteq Waiting \ {d},
             Wakers \ {p} \subseteq Wakers'
      PROVE  Enough'
  <2>1. Cardinality(Waiting') <= Cardinality(Waiting) - 1
    BY <1>4, Counted
  <2>2. Cardinality(Wakers) - 1 <= Cardinality(Wakers')
    BY <1>4, Counted
  <2> QED
    BY <1>1, <2>1, <2>2 DEF Enough
<1>5. CASE Waiting' = {}
  <2>1. Cardinality(Waiting') = 0
    BY <1>5, FS_EmptySet
  <2> QED
    BY <1>1, <2>1 DEF Enough
<1> QED
  BY <1>2, <1>3, <1>4, <1>5

\* Finite before and after.
LEMMA AllFinite ==
    ASSUME IInv, IInv'
    PROVE  /\ IsFiniteSet(Waiting) /\ IsFiniteSet(Waiting')
           /\ IsFiniteSet(Wakers) /\ IsFiniteSet(Wakers')
<1>1. IsFiniteSet(Waiting)
  BY WaitingFinite DEF IInv
<1>2. Types' /\ QueueOnce'
  BY DEF IInv
<1>3. IsFiniteSet(Waiting)'
  <2>1. (Types /\ QueueOnce => IsFiniteSet(Waiting))'
    BY WaitingFinite, PTL
  <2> QED
    BY <1>2, <2>1
<1>4. stack \in Seq(Frames) /\ stack' \in Seq(Frames)
  BY <1>2 DEF IInv, Types
<1> QED
  BY <1>1, <1>3, <1>4, RisingFinite DEF Wakers

\* Where the queue is as it was, a folder that can begin could begin before.
LEMMA MovedTrivially ==
    ASSUME Types, QueueOnce, UNCHANGED <<queue, heard>>
    PROVE  Moved
BY Typed DEF Moved

\* A new request waits for a folder, unless an earlier one for the folder does: then
\* that one, or one before it, waits for it already.
LEMMA RequestWaiting ==
    ASSUME IInv, NEW r \in Requests, Request(r), Ordinary
    PROVE  /\ Waiting' \subseteq Waiting \cup {Plan[r].dst}
           /\ MustWait(r) => Waiting' \subseteq Waiting
           /\ Moved
<1>1. /\ Len(queue) \in Nat /\ DOMAIN queue = 1 .. Len(queue)
      /\ \A k \in DOMAIN queue : queue[k] \in Requests
  BY Typed DEF IInv
<1>2. /\ queue' \in Seq(Requests) /\ Len(queue') = Len(queue) + 1
      /\ \A k \in 1 .. Len(queue) : queue'[k] = queue[k]
      /\ queue'[Len(queue) + 1] = r
  BY AppendProperties DEF Request, IInv, QueueOnce
<1>3. DOMAIN queue' = 1 .. Len(queue) + 1
  BY <1>2, LenProperties
<1>4. \A k \in DOMAIN queue : queue[k] # r
  BY DEF Request, IInv, QueueOnce
<1>5. \A k \in DOMAIN queue : Processed(queue[k]) <=> Processed(queue[k])'
  <2>1. \A s \in Requests : s # r => done'[s] = done[s]
    BY DEF Request, IInv, Types
  <2> QED
    BY <1>1, <1>2, <1>4, <2>1 DEF Processed
<1>6. ASSUME NEW k \in Startable'
      PROVE  /\ k \in 1 .. Len(queue) + 1 /\ ~Processed(queue[k])'
             /\ \A m \in 1 .. k - 1 :
                    Plan[queue'[m]].dst = Plan[queue'[k]].dst => ~Processed(queue[m])'
  BY <1>3 DEF Startable
<1>7. ASSUME NEW k \in Startable', k # Len(queue) + 1
      PROVE  k \in Startable
  <2>1. k \in 1 .. Len(queue) /\ k \in Nat
    BY <1>1, <1>6, <1>7
  <2>2. \A m \in 1 .. k - 1 : m \in 1 .. Len(queue) /\ queue'[m] = queue[m]
    BY <1>1, <1>2, <2>1
  <2>3. ~Processed(queue[k])
    BY <1>1, <1>5, <1>6, <2>1
  <2>4. ASSUME NEW m \in 1 .. k - 1, Plan[queue[m]].dst = Plan[queue[k]].dst
        PROVE  ~Processed(queue[m])
    BY <1>1, <1>2, <1>5, <1>6, <2>1, <2>2, <2>4
  <2> QED
    BY <1>1, <2>1, <2>3, <2>4 DEF Startable
<1>8. Waiting' \subseteq Waiting \cup {Plan[r].dst}
  <2> SUFFICES ASSUME NEW k \in Startable'
               PROVE  Plan[queue'[k]].dst \in Waiting \cup {Plan[r].dst}
    BY DEF Waiting
  <2>1. CASE k = Len(queue) + 1
    BY <1>2, <2>1
  <2>2. CASE k # Len(queue) + 1
    <3>1. k \in Startable /\ queue'[k] = queue[k]
      BY <1>1, <1>2, <1>6, <1>7, <2>2
    <3> QED
      BY <3>1 DEF Waiting
  <2> QED
    BY <2>1, <2>2
<1>9. ASSUME MustWait(r)
      PROVE  Waiting' \subseteq Waiting
  <2> SUFFICES ASSUME NEW k \in Startable', k = Len(queue) + 1
               PROVE  Plan[queue'[k]].dst \in Waiting
    <3>1. ASSUME NEW k \in Startable', k # Len(queue) + 1
          PROVE  Plan[queue'[k]].dst \in Waiting
      <4>1. k \in Startable /\ queue'[k] = queue[k]
        BY <1>1, <1>2, <1>6, <1>7, <3>1
      <4> QED
        BY <4>1 DEF Waiting
    <3> QED
      BY <3>1 DEF Waiting
  <2>1. PICK i \in 1 .. Len(queue) : Plan[queue[i]].dst = Plan[r].dst
    BY <1>1, <1>9 DEF MustWait, ToSet, Ordinary
  <2>2. \A m \in 1 .. Len(queue) : Plan[queue[m]].dst = Plan[r].dst => ~Processed(queue[m])
    <3> SUFFICES ASSUME NEW m \in 1 .. Len(queue), Plan[queue[m]].dst = Plan[r].dst
                 PROVE  ~Processed(queue[m])
      OBVIOUS
    <3>1. m \in 1 .. k - 1 /\ queue'[m] = queue[m] /\ queue'[k] = r
      BY <1>1, <1>2
    <3>2. ~Processed(queue[m])'
      BY <1>6, <3>1
    <3> QED
      BY <1>1, <1>5, <3>2
  <2>3. i \in Startable
    <3>1. \A m \in 1 .. i - 1 : m \in 1 .. Len(queue)
      BY <1>1
    <3> QED
      BY <1>1, <2>1, <2>2, <3>1 DEF Startable
  <2> QED
    BY <1>2, <2>1, <2>3 DEF Waiting
<1>10. Moved
  <2>1. \A m \in DOMAIN queue' : \/ m \in DOMAIN queue /\ queue'[m] = queue[m] /\ m <= m
                                 \/ queue'[m] = r
    BY <1>1, <1>2, <1>3
  <2>2. heard[r] = "nothing" /\ \A s \in Requests : heard[s] # "nothing" => heard'[s] # "nothing"
    BY DEF Request, IInv, Types
  <2> QED
    BY <2>1, <2>2 DEF Moved
<1> QED
  BY <1>8, <1>9, <1>10

\* Once its first request has been started, nothing waits for a folder.
LEMMA StartedWaiting ==
    ASSUME IInv, NEW k \in Startable, First(k, Startable), queue' = queue,
           \A s \in Requests : Processed(s) => Processed(s)',
           NEW r \in Requests, r = queue[k], Processed(r)'
    PROVE  Plan[r].dst \in Waiting /\ Waiting' \subseteq Waiting \ {Plan[r].dst}
<1>1. /\ Len(queue) \in Nat /\ DOMAIN queue = 1 .. Len(queue)
      /\ \A i \in DOMAIN queue : queue[i] \in Requests
      /\ k \in 1 .. Len(queue)
  BY Typed DEF IInv, Startable
<1>2. \A i \in DOMAIN queue : Processed(queue[i]) => Processed(queue[i])'
  BY <1>1 DEF Processed
<1>3. Processed(queue[k])'
  BY DEF Processed
<1>4. ASSUME NEW i \in Startable'
      PROVE  i \in Startable /\ Plan[queue[i]].dst # Plan[r].dst
  <2>1. /\ i \in 1 .. Len(queue) /\ ~Processed(queue[i])'
        /\ \A m \in 1 .. i - 1 :
               Plan[queue[m]].dst = Plan[queue[i]].dst => ~Processed(queue[m])'
    BY <1>1 DEF Startable
  <2>2. \A m \in 1 .. i - 1 : m \in DOMAIN queue
    BY <1>1, <2>1
  <2>3. i \in Startable
    BY <1>1, <1>2, <2>1, <2>2 DEF Startable
  <2>4. k <= i
    BY <2>3 DEF First
  <2>5. k # i
    BY <1>3, <2>1
  <2>6. k \in 1 .. i - 1
    BY <1>1, <2>1, <2>4, <2>5
  <2> QED
    BY <1>3, <2>1, <2>3, <2>6
<1> QED
  BY <1>4 DEF Waiting

\* A request that leaves the queue lets at most one more folder begin: its own.
LEMMA ClearedWaiting ==
    ASSUME IInv, NEW k \in DOMAIN queue, NEW ok \in BOOLEAN, NEW frames,
           ClearRequest(k, ok, frames), done' = done
    PROVE  /\ Waiting' \subseteq Waiting \cup {Plan[queue[k]].dst}
           /\ Moved
           /\ \A m \in DOMAIN queue' : queue'[m] # queue[k]
<1>1. /\ Len(queue) \in Nat /\ DOMAIN queue = 1 .. Len(queue)
      /\ \A i \in DOMAIN queue : queue[i] \in Requests
  BY Typed DEF IInv
<1>2. /\ \A i \in DOMAIN queue' :
             /\ (IF i < k THEN i ELSE i + 1) \in DOMAIN queue \ {k}
             /\ queue'[i] = queue[IF i < k THEN i ELSE i + 1]
      /\ \A i \in DOMAIN queue : i # k =>
             /\ (IF i < k THEN i ELSE i - 1) \in DOMAIN queue'
             /\ queue'[IF i < k THEN i ELSE i - 1] = queue[i]
      /\ \A r \in Requests : heard'[r] # "nothing" <=> heard[r] # "nothing"
      /\ DOMAIN queue' \subseteq Nat
  <2>1. QueueOnce'
    BY RequestCleared DEF IInv
  <2>2. DOMAIN queue' \subseteq Nat
    BY <2>1, LenProperties DEF QueueOnce
  <2> QED
    BY <2>2, RequestCleared DEF IInv
<1>3. \A i \in DOMAIN queue : Processed(queue[i]) <=> done[queue[i]] = DOMAIN Plan[queue[i]].sources
  BY DEF Processed
<1>4. \A i \in DOMAIN queue' :
          Processed(queue[i])' <=> done[queue'[i]] = DOMAIN Plan[queue'[i]].sources
  BY DEF Processed
<1>5. ASSUME NEW i \in Startable', Plan[queue'[i]].dst # Plan[queue[k]].dst
      PROVE  Plan[queue'[i]].dst \in Waiting
  <2>1. /\ i \in DOMAIN queue' /\ ~Processed(queue[i])'
        /\ \A m \in 1 .. i - 1 :
               Plan[queue'[m]].dst = Plan[queue'[i]].dst => ~Processed(queue[m])'
    BY DEF Startable
  <2>2. PICK n \in DOMAIN queue \ {k} : n = IF i < k THEN i ELSE i + 1
    BY <1>2, <2>1
  <2>3. queue'[i] = queue[n] /\ ~Processed(queue[n])
    BY <1>2, <1>3, <1>4, <2>1, <2>2
  <2>4. ASSUME NEW m \in 1 .. n - 1, Plan[queue[m]].dst = Plan[queue[n]].dst
        PROVE  ~Processed(queue[m])
    <3>1. m \in DOMAIN queue /\ m # k
      BY <1>1, <1>5, <2>2, <2>3, <2>4
    <3>2. PICK l \in DOMAIN queue' : l = (IF m < k THEN m ELSE m - 1) /\ queue'[l] = queue[m]
      BY <1>2, <3>1
    <3>3. l \in 1 .. i - 1
      BY <1>1, <1>2, <2>1, <2>2, <2>4, <3>1, <3>2
    <3>4. ~Processed(queue[l])'
      BY <2>1, <2>3, <2>4, <3>2, <3>3
    <3> QED
      BY <1>3, <1>4, <3>1, <3>2, <3>4
  <2>5. n \in Startable
    BY <2>2, <2>3, <2>4 DEF Startable
  <2> QED
    BY <2>3, <2>5 DEF Waiting
<1>6. Waiting' \subseteq Waiting \cup {Plan[queue[k]].dst}
  BY <1>5 DEF Waiting
<1>7. \A m \in DOMAIN queue' : \E i \in DOMAIN queue \ {k} : m <= i /\ queue'[m] = queue[i]
  BY <1>1, <1>2
<1>8. Moved
  BY <1>2, <1>7 DEF Moved
<1>9. \A m \in DOMAIN queue' : queue'[m] # queue[k]
  BY <1>7 DEF IInv, QueueOnce
<1> QED
  BY <1>6, <1>8, <1>9

LEMMA NInvRequest ==
    ASSUME Ordinary, NInv, NEW r \in Requests, Request(r)
    PROVE  NInv'
<1>1. IInv /\ IInv'
  BY RequestKeeps DEF NInv
<1>2. QueueOnce /\ QueueOnce' /\ Types /\ Moved /\ stack \in Seq(Settled)
  BY <1>1, RequestWaiting DEF IInv, NInv
<1>3. /\ stack \in Seq(Settled') /\ stack \in Seq(Frames)
      /\ Rising(stack, Waking) \subseteq Rising(stack, Waking')
      /\ Len(stack) + 1 \notin Rising(stack, Waking)
  BY <1>2, StackSettled
<1>4. Call("next") \in Settled' /\ Call("next") \in Waking' /\ Call("next") \in Frames
  BY DEF Call, Frames, Settled, Waking
<1>5. CASE MustWait(r)
  <2>1. stack' = stack
    BY <1>5 DEF Request
  <2>2. Wakers \subseteq Wakers' /\ Waiting' \subseteq Waiting
    BY <1>1, <1>3, <1>5, <2>1, RequestWaiting DEF Wakers
  <2>3. Enough'
    BY <1>1, <2>2, AllFinite, EnoughKept DEF NInv
  <2> QED
    BY <1>1, <1>3, <2>1, <2>3 DEF NInv
<1>6. CASE ~MustWait(r)
  <2>1. stack' = <<Call("next")>> \o stack
    BY <1>6 DEF Request
  <2>2. stack' \in Seq(Settled')
    BY <1>3, <1>4, <2>1, Pushed
  <2>3. /\ Rising(stack, Waking') \subseteq Rising(stack', Waking')
        /\ Len(stack) + 1 \in Rising(stack', Waking')
    BY <1>3, <1>4, <2>1, RisingPushed
  <2>4. PICK p : p \notin Wakers /\ Wakers \cup {p} \subseteq Wakers'
    BY <1>3, <2>3 DEF Wakers
  <2>5. Waiting' \subseteq Waiting \cup {Plan[r].dst}
    BY <1>1, RequestWaiting
  <2>6. Enough'
    BY <1>1, <2>4, <2>5, AllFinite, EnoughKept DEF NInv
  <2> QED
    BY <1>1, <2>2, <2>6 DEF NInv
<1> QED
  BY <1>5, <1>6

\* The call that CopyEnds or CopyAtOnce makes of NotifyCompletion is settled.
LEMMA NotifySettled ==
    ASSUME IInv, NEW r \in Requests, NEW j, NEW ok \in BOOLEAN, Support(r, j) = Plan[r].src,
           heard[r] # "nothing", UNCHANGED <<queue, heard>>
    PROVE  Notify(r, j, ok) \in Settled'
<1>1. Plan[r].src \in Folders /\ Plan[r].target \in Targets /\ Len(queue) \in Int
  BY Typed DEF IInv, Folders, Targets
<1>2. PICK new : new = [call |-> "notify", support |-> Plan[r].src,
                        target |-> Plan[r].target, ok |-> ok, left |-> Len(queue)]
  OBVIOUS
<1>3. new = Notify(r, j, ok) /\ new \in Frames
  BY <1>1, <1>2 DEF Notify, Frames
<1>4. new.support = Plan[r].src /\ new.target = Plan[r].target /\ new.left = Len(queue)
  BY <1>2
<1>5. \A k \in Matching(new)' : k <= Len(queue)
  BY Typed DEF Matching, IInv
<1> QED
  BY <1>3, <1>4, <1>5 DEF Settled

LEMMA NInvCopyEnds ==
    ASSUME Ordinary, NInv, NEW t \in Targets, NEW ok \in BOOLEAN, CopyEnds(t, ok)
    PROVE  NInv'
<1>1. IInv /\ IInv'
  BY CopyEndsKeeps DEF NInv
<1>2. stack = <<>> /\ UNCHANGED <<queue, done, heard>>
  BY DEF CopyEnds
<1>3. PICK r \in Requests : r = copying[t].req
  BY <1>1, Typed DEF IInv, CopyEnds, Copies
<1>4. PICK j \in DOMAIN Plan[r].sources : j = copying[t].source /\ j \notin InPlace(r)
  BY <1>1, <1>3 DEF IInv, CopiesQueued, CopyEnds
<1>5. heard[r] = "queued" /\ Support(r, j) = Plan[r].src
  BY <1>1, <1>3, <1>4 DEF IInv, CopiesQueued, CopyEnds, QueueOnce, Ordinary
<1>6. PICK new \in Settled' : new = Notify(r, j, ok)
  BY <1>1, <1>2, <1>5, NotifySettled
<1>7. stack' \in Seq(Settled')
  <2>1. PICK none \in Seq(Settled') : none = <<>>
    BY EmptySeq
  <2>2. stack' = <<new>> \o none
    BY <1>3, <1>4, <1>6, <2>1 DEF CopyEnds
  <2> QED
    BY <2>1, <2>2, Pushed
<1>8. Waiting' = {}
  <2>1. Wakers = {} /\ Len(stack) = 0
    BY <1>2, EmptySeq DEF Wakers, Rising
  <2>2. Cardinality(Waiting) \in Nat /\ Cardinality(Waiting) <= 0
    BY <1>1, <2>1, AllFinite, FS_CardinalityType, FS_EmptySet DEF NInv, Enough
  <2>3. Waiting = {}
    BY <1>1, <2>2, AllFinite, FS_EmptySet
  <2>4. Waiting' = Waiting
    BY <1>2 DEF Waiting, Startable, Processed
  <2> QED
    BY <2>3, <2>4
<1>9. Enough'
  BY <1>1, <1>8, AllFinite, EnoughKept DEF NInv
<1> QED
  BY <1>1, <1>7, <1>9 DEF NInv

\* The stack when its innermost call returns, or is replaced by another.
LEMMA PoppedSettled ==
    ASSUME Ordinary, NInv, IInv', Moved, stack # <<>>,
           \/ stack' = Tail(stack)
           \/ \E new \in Settled' : stack' = <<new>> \o Tail(stack)
    PROVE  /\ stack' \in Seq(Settled')
           /\ Wakers \ {Len(stack)} \subseteq Wakers'
           /\ Head(stack) \notin Waking => Wakers \subseteq Wakers'
           /\ \A new \in Settled' : stack' = <<new>> \o Tail(stack) /\ new \in Waking'
                  => Wakers \subseteq Wakers'
<1>1. stack \in Seq(Settled) /\ QueueOnce /\ QueueOnce' /\ Types
  BY DEF NInv, IInv
<1>2. PICK rest : rest = Tail(stack)
  OBVIOUS
<1>3. /\ Rising(rest, Waking) = Wakers \ {Len(stack)}
      /\ Len(stack) \in Wakers <=> Head(stack) \in Waking
      /\ rest \in Seq(Settled) /\ Len(rest) + 1 = Len(stack)
  BY <1>1, <1>2, RisingPopped DEF Wakers
<1>4. rest \in Seq(Settled') /\ Rising(rest, Waking) \subseteq Rising(rest, Waking')
  BY <1>1, <1>3, StackSettled
<1>5. CASE stack' = rest
  <2>1. stack' \in Seq(Settled') /\ Wakers \ {Len(stack)} \subseteq Wakers'
    BY <1>3, <1>4, <1>5 DEF Wakers
  <2>2. \A new \in Settled' : stack' # <<new>> \o rest
    <3> SUFFICES ASSUME NEW new \in Settled', rest = <<new>> \o rest
                 PROVE  FALSE
      BY <1>5
    <3>1. Len(rest) = Len(rest) + 1 /\ Len(rest) \in Nat
      BY <1>4, Pushed, LenProperties
    <3> QED
      BY <3>1
  <2> QED
    BY <1>2, <1>3, <2>1, <2>2
<1>6. ASSUME NEW new \in Settled', stack' = <<new>> \o rest
      PROVE  /\ stack' \in Seq(Settled') /\ Wakers \ {Len(stack)} \subseteq Wakers'
             /\ new \in Waking' => Wakers \subseteq Wakers'
  <2>1. stack' \in Seq(Settled')
    BY <1>4, <1>6, Pushed
  <2>2. /\ Rising(rest, Waking') \subseteq Wakers'
        /\ new \in Waking' => Len(rest) + 1 \in Wakers'
    BY <1>4, <1>6, RisingPushed DEF Wakers
  <2> QED
    BY <1>3, <1>4, <2>1, <2>2
<1> QED
  BY <1>2, <1>3, <1>5, <1>6

LEMMA NInvDoNextCopy ==
    ASSUME Ordinary, NoneRefused, NInv, DoNextCopy
    PROVE  NInv'
<1>1. IInv /\ IInv' /\ Types /\ QueueOnce
  BY DoNextCopyKeeps DEF NInv, IInv
<1>2. stack # <<>>
  BY DEF DoNextCopy, Innermost
<1>3. CASE Startable = {} /\ stack' = Tail(stack) /\ UNCHANGED <<queue, done, copying, heard>>
  <2>1. Waiting' = {}
    BY <1>3 DEF Waiting, Startable, Processed
  <2>2. stack' \in Seq(Settled')
    BY <1>1, <1>2, <1>3, MovedTrivially, PoppedSettled
  <2>3. Enough'
    BY <1>1, <2>1, AllFinite, EnoughKept DEF NInv
  <2> QED
    BY <1>1, <2>2, <2>3 DEF NInv
<1>4. ASSUME NEW k \in Startable, NEW j \in DOMAIN Plan[queue[k]].sources,
             First(k, Startable), First(j, DOMAIN Plan[queue[k]].sources \ done[queue[k]]),
             done' = [done EXCEPT ![queue[k]] = @ \cup {j}],
             \/ CopyRuns(queue[k], j)
             \/ \E ok \in BOOLEAN : CopyAtOnce(queue[k], j, ok)
             \/ CopySilent(queue[k])
      PROVE  NInv'
  <2>1. PICK r \in Requests : r = queue[k]
    BY <1>1, Typed DEF Startable
  <2>2. /\ heard[r] = "queued" /\ Processed(r)' /\ Support(r, j) = Plan[r].src
        /\ \A s \in Requests : Processed(s) => Processed(s)'
    BY <1>1, <1>4, <2>1, SourceStarted
  <2>3. UNCHANGED <<queue, heard>>
    BY <1>4 DEF CopyRuns, CopyAtOnce, CopySilent
  <2>4. Plan[r].dst \in Waiting /\ Waiting' \subseteq Waiting \ {Plan[r].dst}
    BY <1>1, <1>4, <2>1, <2>2, <2>3, StartedWaiting
  <2>5. \A ok \in BOOLEAN : Notify(r, j, ok) \in Settled'
    BY <1>1, <2>2, <2>3, NotifySettled
  <2>6. stack' = Tail(stack) \/ \E new \in Settled' : stack' = <<new>> \o Tail(stack)
    BY <1>4, <2>1, <2>5 DEF CopyRuns, CopyAtOnce, CopySilent
  <2>7. stack' \in Seq(Settled') /\ Wakers \ {Len(stack)} \subseteq Wakers'
    BY <1>1, <1>2, <2>3, <2>6, MovedTrivially, PoppedSettled
  <2>8. Enough'
    BY <1>1, <2>4, <2>7, AllFinite, EnoughKept DEF NInv
  <2> QED
    BY <1>1, <2>7, <2>8 DEF NInv
<1>5. \A k : ~CopyRefused(k)
  BY DEF CopyRefused, NoneRefused
<1> QED
  BY <1>3, <1>4, <1>5 DEF DoNextCopy

LEMMA NInvNotifyCompletion ==
    ASSUME Ordinary, NInv, NotifyCompletion
    PROVE  NInv'
<1>1. IInv /\ IInv' /\ Types /\ QueueOnce /\ QueueOnce' /\ stack \in Seq(Settled)
  BY NotifyCompletionKeeps DEF NInv, IInv
<1>2. /\ stack # <<>> /\ Head(stack).call = "notify"
      /\ Head(stack) \in Settled /\ Due(Head(stack))
  <2>1. stack # <<>> /\ Head(stack).call = "notify"
    BY DEF NotifyCompletion, Innermost
  <2> QED
    BY <1>1, <2>1, Returned, HeadTailProperties DEF IInv
<1>3. PICK frame \in Settled : frame = Head(stack)
  BY <1>2
<1>4. /\ frame \in [call : {"notify"}, support : Folders, target : Targets,
                    ok : BOOLEAN, left : Int]
      /\ frame \in Frames
      /\ \A k \in Matching(frame) : k <= frame.left
  BY <1>2, <1>3 DEF Settled, Frames
<1>5. PICK s \in Requests :
          /\ frame.support = Plan[s].src /\ frame.target = Plan[s].target
          /\ heard[s] # "nothing" /\ Processed(s)
  BY <1>2, <1>3 DEF Due
<1>6. \A k \in Matching(frame) : queue[k] = s
  BY <1>1, <1>5, Typed DEF Matching, Ordinary, SamePair
<1>7. ASSUME NEW k \in DOMAIN queue, Clears(frame, k),
             ClearRequest(k, frame.ok, <<[frame EXCEPT !.left = @ - 1]>> \o Tail(stack))
      PROVE  NInv'
  <2>1. PICK less : less = [frame EXCEPT !.left = @ - 1]
    OBVIOUS
  <2>2. /\ less \in [call : {"notify"}, support : Folders, target : Targets,
                     ok : BOOLEAN, left : Int]
        /\ less.support = Plan[s].src /\ less.target = Plan[s].target
    BY <1>4, <1>5, <2>1
  <2>3. less \in Frames /\ less.call = "notify"
    BY <2>2 DEF Frames
  <2>4. k \in Matching(frame) /\ queue[k] = s
    BY <1>6, <1>7 DEF Clears, First
  <2>5. PICK frames : frames = <<less>> \o Tail(stack)
    OBVIOUS
  <2>6. ClearRequest(k, frame.ok, frames) /\ done' = done /\ frame.ok \in BOOLEAN
    BY <1>4, <1>7, <2>1, <2>5 DEF NotifyCompletion
  <2>7. /\ Waiting' \subseteq Waiting \cup {Plan[queue[k]].dst} /\ Moved
        /\ \A m \in DOMAIN queue' : queue'[m] # s
    BY <1>1, <2>4, <2>6, ClearedWaiting
  <2>8. Matching(less)' = {}
    <3>1. \A m \in DOMAIN queue' : queue'[m] \in Requests
      BY <1>1, ElementOfSeq, LenProperties DEF QueueOnce
    <3> QED
      BY <2>2, <2>7, <3>1 DEF Matching, Ordinary, SamePair
  <2>9. heard'[s] # "nothing"
    BY <1>5, <2>7 DEF Moved
  <2>10. less \in Settled' /\ less \in Waking'
    BY <2>2, <2>3, <2>8, <2>9 DEF Settled, Waking
  <2>11. PICK rest : rest = Tail(stack)
    OBVIOUS
  <2>12. /\ Rising(rest, Waking) = Wakers \ {Len(stack)}
         /\ Len(stack) \in Wakers <=> Head(stack) \in Waking
         /\ rest \in Seq(Settled) /\ Len(rest) + 1 = Len(stack)
    BY <1>1, <1>2, <2>11, RisingPopped DEF Wakers
  <2>13. Head(stack) \notin Waking
    BY <1>2, <1>3, <2>4 DEF Waking
  <2>14. /\ rest \in Seq(Settled') /\ Rising(rest, Waking) \subseteq Rising(rest, Waking')
    BY <1>1, <2>7, <2>12, StackSettled
  <2>15. /\ frames \in Seq(Settled')
         /\ Rising(rest, Waking') \subseteq Rising(frames, Waking')
         /\ Len(stack) \in Rising(frames, Waking')
    BY <2>5, <2>10, <2>11, <2>12, <2>14, Pushed, RisingPushed
  <2>16. stack' = <<Call("listener")>> \o frames /\ Call("listener") \in Settled'
    BY <2>6 DEF ClearRequest, Call, Settled, Frames
  <2>17. stack' \in Seq(Settled') /\ Rising(frames, Waking') \subseteq Wakers'
    BY <2>15, <2>16, Pushed, RisingPushed DEF Wakers
  <2>18. Len(stack) \notin Wakers /\ Wakers \cup {Len(stack)} \subseteq Wakers'
    BY <2>12, <2>13, <2>14, <2>15, <2>17
  <2>19. Enough'
    BY <1>1, <2>7, <2>18, AllFinite, EnoughKept DEF NInv
  <2> QED
    BY <1>1, <2>17, <2>19 DEF NInv
<1>8. ASSUME \A k \in DOMAIN queue : ~Clears(frame, k), stack' = <<Call("next")>> \o Tail(stack),
             UNCHANGED <<queue, heard, done>>
      PROVE  NInv'
  <2>1. Matching(frame) = {}
    <3> SUFFICES ASSUME NEW k \in Matching(frame)
                 PROVE  FALSE
      OBVIOUS
    <3>1. k \in DOMAIN queue /\ k \in Nat /\ queue[k] = s /\ k <= frame.left
      BY <1>1, <1>4, <1>6, Typed DEF Matching
    <3>2. First(k, Matching(frame))
      BY <1>1, <1>6, <3>1 DEF First, Matching, QueueOnce
    <3> QED
      BY <1>5, <1>8, <3>1, <3>2 DEF Clears
  <2>2. Call("next") \in Settled' /\ Call("next") \in Waking'
    BY DEF Call, Frames, Settled, Waking
  <2>3. stack' \in Seq(Settled') /\ Wakers \subseteq Wakers'
    BY <1>1, <1>2, <1>8, <2>2, MovedTrivially, PoppedSettled
  <2>4. Waiting' = Waiting
    BY <1>8 DEF Waiting, Startable, Processed
  <2>5. Enough'
    BY <1>1, <2>3, <2>4, AllFinite, EnoughKept DEF NInv
  <2> QED
    BY <1>1, <2>3, <2>5 DEF NInv
<1> QED
  BY <1>3, <1>7, <1>8 DEF NotifyCompletion

LEMMA NInvStep == Ordinary /\ NoneRefused /\ NInv /\ [Next]_vars => NInv'
<1> SUFFICES ASSUME Ordinary, NoneRefused, NInv, [Next]_vars PROVE NInv'
  OBVIOUS
<1>1. ASSUME NEW r \in Requests, Request(r) PROVE NInv'
  BY <1>1, NInvRequest
<1>2. ASSUME NEW t \in Targets, NEW ok \in BOOLEAN, CopyEnds(t, ok) PROVE NInv'
  BY <1>2, NInvCopyEnds
<1>3. CASE DoNextCopy
  BY <1>3, NInvDoNextCopy
<1>4. CASE NotifyCompletion
  BY <1>4, NInvNotifyCompletion
<1>5. IInv /\ IInv' /\ Types /\ QueueOnce
  BY IInvStep DEF NInv, IInv
<1>6. CASE ListenerReturns
  <2>1. /\ stack # <<>> /\ stack' = Tail(stack) /\ Head(stack).call = "listener"
        /\ UNCHANGED <<queue, done, heard>>
    BY <1>6 DEF ListenerReturns, Innermost
  <2>2. Head(stack) \notin Waking
    BY <2>1 DEF Waking
  <2>3. stack' \in Seq(Settled') /\ Wakers \subseteq Wakers'
    BY <1>5, <2>1, <2>2, MovedTrivially, PoppedSettled
  <2>4. Waiting' = Waiting
    BY <2>1 DEF Waiting, Startable, Processed
  <2>5. Enough'
    BY <1>5, <2>3, <2>4, AllFinite, EnoughKept DEF NInv
  <2> QED
    BY <1>5, <2>3, <2>5 DEF NInv
<1>7. CASE UNCHANGED vars
  <2>1. UNCHANGED <<queue, done, heard, stack>>
    BY <1>7 DEF vars
  <2>2. Waiting' = Waiting /\ Wakers' = Wakers /\ Settled' = Settled
    BY <2>1 DEF Waiting, Startable, Processed, Wakers, Waking, Settled, Matching
  <2> QED
    BY <1>5, <2>1, <2>2 DEF NInv, Enough
<1> QED
  BY <1>1, <1>2, <1>3, <1>4, <1>6, <1>7 DEF Next

\* CopyNobodyWaits: once all calls have returned no request waits for a folder that is
\* free, for any number of ordinary requests, whatever copies fail and whatever a
\* listener asks for, as long as no folder is refused.
THEOREM CopyNobodyWaits == Ordinary /\ NoneRefused => (Spec => []NobodyWaits)
<1>1. ASSUME NInv PROVE NobodyWaits
  <2> SUFFICES ASSUME stack = <<>>
               PROVE  Startable = {}
    BY DEF NobodyWaits
  <2>1. Wakers = {} /\ Len(stack) = 0
    BY EmptySeq DEF Wakers, Rising
  <2>2. IsFiniteSet(Waiting)
    BY <1>1, WaitingFinite DEF NInv, IInv
  <2>3. Cardinality(Waiting) \in Nat /\ Cardinality(Waiting) <= 0
    BY <1>1, <2>1, <2>2, FS_CardinalityType, FS_EmptySet DEF NInv, Enough
  <2>4. Waiting = {}
    BY <2>2, <2>3, FS_EmptySet
  <2> QED
    BY <2>4 DEF Waiting
<1>2. ASSUME Ordinary /\ NoneRefused PROVE Spec => []NobodyWaits
  BY <1>1, <1>2, NInvInit, NInvStep, PTL DEF Spec
<1> QED
  BY <1>2
=============================================================================
