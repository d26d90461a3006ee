------------------------- MODULE CalTransactionProofs -------------------------
(***************************************************************************)
(* Theorems about CalTransaction: its types; that moving an item never     *)
(* loses it if the user waits for the answers, whatever is refused; and    *)
(* that as long as nothing has been, undo restores what a transaction      *)
(* found, redo what it made, and no transaction asks for something stale.  *)
(* They hold for any items, calendars of both kinds and numbers of         *)
(* transactions.                                                           *)
(***************************************************************************)
EXTENDS CalTransaction, SequenceTheorems, TLAPS

-----------------------------------------------------------------------------
(* The inductive invariants *)

\* A transaction is on one of the stacks, once.
OnceEach(u, r) ==
    /\ \A j, k \in DOMAIN u : u[j] = u[k] => j = k
    /\ \A j, k \in DOMAIN r : r[j] = r[k] => j = k
    /\ \A j \in DOMAIN u, k \in DOMAIN r : u[j] # r[k]

Typed ==
    /\ cals \in [Cals -> [Items -> Stored]]
    /\ txns \in Seq(Txn) /\ Len(txns) <= MaxTxns
    /\ undos \in Seq(1 .. Len(txns)) /\ redos \in Seq(1 .. Len(txns))
    /\ OnceEach(undos, redos)
    /\ calls \in Seq(Call) /\ Len(calls) <= MaxCalls
    /\ wanted \in [Items -> Place]
    /\ refused \in BOOLEAN

\* What is added has some content.  A modification is from a calendar to a calendar; one
\* that has never been a move has only to do with its own.
TxnFits(x) ==
    /\ x.item.ver # 0
    /\ x.action = "modify" =>
        /\ x.item.cal \in Cals /\ x.old.cal \in Cals /\ x.old.ver # 0
        /\ x.oldCal = NoCal => x.item.cal = x.cal /\ x.old.cal = x.cal

\* What a transaction may ask for.
Asks(x, call) ==
    /\ call.id = x.id
    /\ call.op # "delete" =>
        /\ call.item.ver # 0
        /\ x.action = "modify" /\ x.oldCal = NoCal => call.cal = x.cal
    /\ call.then = "deleteOld" => call.op = "add" /\ x.action = "modify"

Fits ==
    /\ \A c \in Cals, i \in Items : cals[c][i].ver = 0 => cals[c][i] = Gone
    /\ \A t \in DOMAIN txns : TxnFits(txns[t])
    /\ \A k \in DOMAIN calls :
        calls[k].txn \in DOMAIN txns /\ Asks(txns[calls[k].txn], calls[k])

IInv == Typed /\ Fits

\* A transaction that is being done asks for one thing at a time: a move deletes the old
\* item when the new one is in its calendar.
Doing(x, call) ==
    /\ Len(calls) = 1
    /\ call.op # "delete" => call.cal = x.cal
    /\ call.then = "deleteOld" => call.cal # x.old.cal
    /\ call.op = "delete" /\ x.action # "delete" =>
        \E c \in Cals : c # call.cal /\ Present(x.id, c)

OneThing ==
    /\ \A t \in DOMAIN txns : txns[t].action = "modify" => txns[t].item.cal = txns[t].cal
    /\ \A k \in DOMAIN calls :
        LET x == txns[calls[k].txn] IN x.isDo => Doing(x, calls[k])

PInv == IInv /\ OneThing

-----------------------------------------------------------------------------
(* Sequences *)

LEMMA SeqFacts ==
    ASSUME NEW S, NEW s \in Seq(S)
    PROVE  /\ Len(s) \in Nat /\ DOMAIN s = 1 .. Len(s)
           /\ \A k \in DOMAIN s : s[k] \in S
OBVIOUS

LEMMA FrontAndLast ==
    ASSUME NEW S, NEW s \in Seq(S), s # <<>>
    PROVE  /\ Front(s) \in Seq(S) /\ Len(Front(s)) = Len(s) - 1
           /\ \A k \in 1 .. Len(s) - 1 : Front(s)[k] = s[k]
           /\ Len(s) \in DOMAIN s /\ Last(s) = s[Len(s)] /\ Last(s) \in S
<1>1. Len(s) \in Nat \ {0} /\ DOMAIN s = 1 .. Len(s)
  OBVIOUS
<1> QED
  BY <1>1, SubSeqProperties DEF Front, Last

LEMMA Removed ==
    ASSUME NEW S, NEW s \in Seq(S), NEW k \in DOMAIN s
    PROVE  /\ RemoveAt(s, k) \in Seq(S) /\ Len(RemoveAt(s, k)) = Len(s) - 1
           /\ \A j \in DOMAIN RemoveAt(s, k) : \E m \in DOMAIN s : RemoveAt(s, k)[j] = s[m]
<1>1. Len(s) \in Nat /\ k \in 1 .. Len(s)
  OBVIOUS
<1> DEFINE p == SubSeq(s, 1, k - 1)
           q == SubSeq(s, k + 1, Len(s))
<1>2. /\ p \in Seq(S) /\ Len(p) = k - 1
      /\ \A j \in 1 .. k - 1 : p[j] = s[j]
  <2>1. /\ 1 \in Int /\ k - 1 \in Int /\ \A i \in 1 .. k - 1 : s[i] \in S
        /\ (IF 1 <= k - 1 THEN k - 1 - 1 + 1 ELSE 0) = k - 1 /\ k - 1 - 1 + 1 = k - 1
    BY <1>1
  <2>2. \A j \in 1 .. k - 1 : 1 + j - 1 = j
    OBVIOUS
  <2> QED
    BY <2>1, <2>2, SubSeqProperties
<1>3. /\ q \in Seq(S) /\ Len(q) = Len(s) - k
      /\ \A j \in 1 .. Len(s) - k : q[j] = s[k + j]
  <2>1. /\ k + 1 \in Int /\ Len(s) \in Int /\ \A i \in k + 1 .. Len(s) : s[i] \in S
        /\ (IF k + 1 <= Len(s) THEN Len(s) - (k + 1) + 1 ELSE 0) = Len(s) - k
        /\ Len(s) - (k + 1) + 1 = Len(s) - k
    BY <1>1
  <2>2. \A j \in 1 .. Len(s) - k : k + 1 + j - 1 = k + j
    BY <1>1
  <2> QED
    BY <2>1, <2>2, SubSeqProperties
<1> HIDE DEF p, q
<1>4. /\ p \o q \in Seq(S) /\ Len(p \o q) = Len(s) - 1
      /\ \A j \in 1 .. Len(s) - 1 : (p \o q)[j] = IF j <= Len(p) THEN p[j] ELSE q[j - Len(p)]
  <2>1. Len(p) + Len(q) = Len(s) - 1
    BY <1>1, <1>2, <1>3
  <2>2. /\ p \o q \in Seq(S) /\ Len(p \o q) = Len(p) + Len(q)
        /\ \A j \in 1 .. Len(p) + Len(q) :
              (p \o q)[j] = IF j <= Len(p) THEN p[j] ELSE q[j - Len(p)]
    BY <1>2, <1>3, ConcatProperties
  <2> QED
    BY <2>1, <2>2
<1>5. ASSUME NEW j \in 1 .. Len(s) - 1
      PROVE  \E m \in DOMAIN s : (p \o q)[j] = s[m]
  <2>1. CASE j < k
    <3>1. (p \o q)[j] = s[j] /\ j \in 1 .. Len(s)
      BY <1>1, <1>2, <1>4, <2>1
    <3>2. j \in DOMAIN s
      BY <3>1
    <3> QED
      BY <3>1, <3>2
  <2>2. CASE ~(j < k)
    <3>1. j - (k - 1) \in 1 .. Len(s) - k /\ k + (j - (k - 1)) = j + 1 /\ ~(j <= k - 1)
      BY <1>1, <2>2
    <3>2. (p \o q)[j] = q[j - (k - 1)]
      BY <1>2, <1>4, <3>1
    <3>3. (p \o q)[j] = s[j + 1]
      BY <1>3, <3>1, <3>2
    <3>4. j + 1 \in DOMAIN s
      BY <1>1
    <3> QED
      BY <3>3, <3>4
  <2> QED
    BY <2>1, <2>2
<1>6. RemoveAt(s, k) = p \o q
  BY DEF RemoveAt, p, q
<1>7. DOMAIN (p \o q) = 1 .. Len(s) - 1
  BY <1>1, <1>4
<1> QED
  BY <1>4, <1>5, <1>6, <1>7

\* A property of all elements holds of a concatenation if it does of both parts.
LEMMA Joined ==
    ASSUME NEW S, NEW s \in Seq(S), NEW r \in Seq(S)
    PROVE  /\ s \o r \in Seq(S) /\ Len(s \o r) = Len(s) + Len(r)
           /\ \A k \in DOMAIN (s \o r) :
               \/ \E j \in DOMAIN s : (s \o r)[k] = s[j]
               \/ \E j \in DOMAIN r : (s \o r)[k] = r[j]
<1>1. /\ s \o r \in Seq(S) /\ Len(s \o r) = Len(s) + Len(r)
      /\ \A k \in 1 .. Len(s) + Len(r) :
            (s \o r)[k] = IF k <= Len(s) THEN s[k] ELSE r[k - Len(s)]
  BY ConcatProperties
<1>2. Len(s) \in Nat /\ Len(r) \in Nat
  OBVIOUS
<1>3. ASSUME NEW k \in 1 .. Len(s) + Len(r)
      PROVE  \/ \E j \in DOMAIN s : (s \o r)[k] = s[j]
             \/ \E j \in DOMAIN r : (s \o r)[k] = r[j]
  <2>1. CASE k <= Len(s)
    BY <1>1, <1>2, <2>1
  <2>2. CASE k > Len(s)
    <3>1. (s \o r)[k] = r[k - Len(s)] /\ k - Len(s) \in 1 .. Len(r)
      BY <1>1, <1>2, <2>2
    <3> QED
      BY <3>1
  <2> QED
    BY <1>2, <2>1, <2>2
<1> QED
  BY <1>1, <1>2, <1>3

\* The top of one stack moves to the other.
LEMMA TopMoves ==
    ASSUME NEW S, NEW u \in Seq(S), NEW r \in Seq(S), u # <<>>, OnceEach(u, r)
    PROVE  /\ Front(u) \in Seq(S) /\ Append(r, Last(u)) \in Seq(S)
           /\ OnceEach(Front(u), Append(r, Last(u)))
<1>1. /\ Front(u) \in Seq(S) /\ Len(Front(u)) = Len(u) - 1
      /\ \A k \in 1 .. Len(u) - 1 : Front(u)[k] = u[k]
      /\ Len(u) \in DOMAIN u /\ Last(u) = u[Len(u)] /\ Last(u) \in S
  BY FrontAndLast
<1>2. /\ Len(u) \in Nat /\ DOMAIN u = 1 .. Len(u) /\ Len(r) \in Nat /\ DOMAIN r = 1 .. Len(r)
      /\ DOMAIN Front(u) = 1 .. Len(u) - 1
  BY <1>1
<1> DEFINE v == Append(r, Last(u))
<1>3. /\ v \in Seq(S) /\ DOMAIN v = 1 .. Len(r) + 1
      /\ \A k \in 1 .. Len(r) : v[k] = r[k]
      /\ v[Len(r) + 1] = u[Len(u)]
  BY <1>1, <1>2
<1> HIDE DEF v
<1>4. \A j, k \in DOMAIN Front(u) : Front(u)[j] = Front(u)[k] => j = k
  BY <1>1, <1>2 DEF OnceEach
<1>5. \A j, k \in DOMAIN v : v[j] = v[k] => j = k
  BY <1>1, <1>2, <1>3 DEF OnceEach
<1>6. \A j \in DOMAIN Front(u), k \in DOMAIN v : Front(u)[j] # v[k]
  BY <1>1, <1>2, <1>3 DEF OnceEach
<1> QED
  BY <1>1, <1>3, <1>4, <1>5, <1>6 DEF OnceEach, v

LEMMA OnceEachSwaps ==
    ASSUME NEW u, NEW r, OnceEach(u, r) PROVE OnceEach(r, u)
BY DEF OnceEach

\* OnceEach is what TypeOK says of the stacks together.
LEMMA TypedTypes == Typed => TypeOK
<1> SUFFICES ASSUME Typed PROVE IsInjective(undos \o redos)
  BY DEF Typed, TypeOK
<1>1. /\ undos \in Seq(Nat) /\ redos \in Seq(Nat)
      /\ Len(undos) \in Nat /\ DOMAIN undos = 1 .. Len(undos)
      /\ Len(redos) \in Nat /\ DOMAIN redos = 1 .. Len(redos)
  BY DEF Typed
<1> DEFINE b == undos \o redos
<1>2. /\ DOMAIN b = 1 .. Len(undos) + Len(redos)
      /\ \A k \in DOMAIN b : b[k] = IF k <= Len(undos) THEN undos[k] ELSE redos[k - Len(undos)]
  BY <1>1, ConcatProperties
<1>3. \A k \in DOMAIN b : k > Len(undos) => k - Len(undos) \in DOMAIN redos
  BY <1>1, <1>2
<1>4. \A k \in DOMAIN b : k <= Len(undos) => k \in DOMAIN undos
  BY <1>1, <1>2
<1> HIDE DEF b
<1>5. ASSUME NEW j \in DOMAIN b, NEW k \in DOMAIN b, b[j] = b[k] PROVE j = k
  <2>1. j \in Nat /\ k \in Nat
    BY <1>1, <1>2
  <2>2. CASE j <= Len(undos) /\ k <= Len(undos)
    BY <1>2, <1>4, <1>5, <2>2 DEF Typed, OnceEach
  <2>3. CASE j > Len(undos) /\ k > Len(undos)
    <3>1. redos[j - Len(undos)] = redos[k - Len(undos)]
      BY <1>1, <1>2, <1>5, <2>1, <2>3
    <3>2. j - Len(undos) = k - Len(undos)
      BY <1>3, <2>3, <3>1 DEF Typed, OnceEach
    <3> QED
      BY <1>1, <2>1, <3>2
  <2>4. CASE j <= Len(undos) /\ k > Len(undos)
    <3>1. undos[j] = redos[k - Len(undos)]
      BY <1>1, <1>2, <1>5, <2>1, <2>4
    <3> QED
      BY <1>3, <1>4, <2>4, <3>1 DEF Typed, OnceEach
  <2>5. CASE j > Len(undos) /\ k <= Len(undos)
    <3>1. undos[k] = redos[j - Len(undos)]
      BY <1>1, <1>2, <1>5, <2>1, <2>5
    <3> QED
      BY <1>3, <1>4, <2>5, <3>1 DEF Typed, OnceEach
  <2> QED
    BY <1>1, <2>1, <2>2, <2>3, <2>4, <2>5
<1> QED
  BY <1>5 DEF IsInjective, b

-----------------------------------------------------------------------------
(* What transactions ask for *)

LEMMA NoItemTyped == NoItem \in Item /\ 0 \in Versions /\ 1 \in Versions
BY TransactionConstants DEF NoItem, Item, Versions

LEMMA AskTyped ==
    ASSUME NEW op \in {"add", "modify", "delete"}, NEW c \in Cals, NEW t \in 1 .. MaxTxns,
           NEW i \in Items, NEW item \in Item, NEW old \in Item
    PROVE  /\ Ask(op, c, t, i, item, old) \in Call
           /\ [Ask(op, c, t, i, item, old) EXCEPT !.then = "deleteOld"] \in Call
BY DEF Ask, Call

\* A transaction that is not done yet may be a move that has no oldCal.
Doable(x) ==
    /\ x.item.ver # 0
    /\ x.action = "modify" =>
        /\ x.item.cal \in Cals /\ x.old.cal \in Cals /\ x.old.ver # 0
        /\ x.oldCal = NoCal => x.item.cal = x.cal

LEMMA FitsDoable == ASSUME NEW x, TxnFits(x) PROVE Doable(x)
BY DEF TxnFits, Doable

LEMMA DoneFits ==
    ASSUME NEW x \in Txn, Doable(x)
    PROVE  /\ Done(x) \in Txn /\ TxnFits(Done(x)) /\ Done(x).isDo
           /\ Done(x).id = x.id /\ Done(x).cal = x.cal /\ Done(x).action = x.action
           /\ Done(x).item = x.item /\ Done(x).old = x.old
           /\ \A c : Asks(x, c) => Asks(Done(x), c)
<1>1. /\ Done(x) \in Txn /\ Done(x).isDo
      /\ Done(x).id = x.id /\ Done(x).cal = x.cal /\ Done(x).action = x.action
      /\ Done(x).item = x.item /\ Done(x).old = x.old
      /\ Done(x).oldCal = IF Moves(x) THEN x.old.cal ELSE x.oldCal
  BY DEF Done, Txn, Item
<1> QED
  BY <1>1, CalendarNames DEF TxnFits, Doable, Asks, Moves

LEMMA UndoneFits ==
    ASSUME NEW x \in Txn, TxnFits(x)
    PROVE  /\ Undone(x) \in Txn /\ TxnFits(Undone(x)) /\ ~Undone(x).isDo
           /\ Undone(x).cal = x.cal /\ Undone(x).action = x.action
           /\ Undone(x).item = x.item
           /\ \A c : Asks(x, c) => Asks(Undone(x), c)
BY DEF Undone, Txn, TxnFits, Asks

LEMMA DoCallsAsk ==
    ASSUME NEW x \in Txn, Doable(x), NEW t \in 1 .. MaxTxns
    PROVE  \E c \in Call :
            /\ DoCalls(t, x) = <<c>> /\ c.txn = t /\ Asks(Done(x), c)
            /\ c.op # "delete" => c.cal = x.cal
            /\ c.then = "deleteOld" => x.item.cal # x.old.cal
            /\ c.op = "delete" => x.action = "delete"
<1>1. /\ Done(x).id = x.id /\ Done(x).cal = x.cal /\ Done(x).action = x.action
      /\ x.id \in Items /\ x.cal \in Cals /\ x.item \in Item /\ x.old \in Item
      /\ x.action \in {"add", "modify", "delete"}
  BY DoneFits DEF Txn
<1>2. CASE Moves(x)
  <2> DEFINE c == [Ask("add", x.cal, t, x.id, x.item, NoItem) EXCEPT !.then = "deleteOld"]
  <2>1. c \in Call
    BY <1>1, AskTyped, NoItemTyped
  <2>2. DoCalls(t, x) = <<c>>
    BY <1>2 DEF DoCalls
  <2>3. c.txn = t /\ c.cal = x.cal /\ c.op = "add" /\ c.id = x.id /\ c.item = x.item
    BY DEF Ask
  <2> HIDE DEF c
  <2> QED
    BY <1>1, <1>2, <2>1, <2>2, <2>3 DEF Asks, Doable, Moves
<1>3. CASE ~Moves(x)
  <2> DEFINE c == Ask(x.action, x.cal, t, x.id, x.item, x.old)
  <2>1. c \in Call
    BY <1>1, AskTyped
  <2>2. DoCalls(t, x) = <<c>>
    BY <1>3 DEF DoCalls
  <2>3. c.txn = t /\ c.cal = x.cal /\ c.op = x.action /\ c.id = x.id /\ c.item = x.item /\ c.then = "done"
    BY DEF Ask
  <2> HIDE DEF c
  <2> QED
    BY <1>1, <2>1, <2>2, <2>3 DEF Asks, Doable
<1> QED
  BY <1>2, <1>3

LEMMA UndoCallsAsk ==
    ASSUME NEW x \in Txn, TxnFits(x), NEW t \in 1 .. MaxTxns
    PROVE  /\ UndoCalls(t, x) \in Seq(Call)
           /\ \A k \in DOMAIN UndoCalls(t, x) :
                UndoCalls(t, x)[k].txn = t /\ Asks(x, UndoCalls(t, x)[k])
<1>1. /\ x.id \in Items /\ x.cal \in Cals /\ x.item \in Item /\ x.old \in Item
      /\ x.action \in {"add", "modify", "delete"} /\ x.oldCal \in Cals \cup {NoCal}
  BY DEF Txn
<1> DEFINE Right(c) == c \in Call /\ c.txn = t /\ Asks(x, c)
<1>2. Right(Ask("delete", x.cal, t, x.id, x.item, NoItem))
  <2>1. Ask("delete", x.cal, t, x.id, x.item, NoItem) \in Call
    BY <1>1, AskTyped, NoItemTyped
  <2> QED
    BY <2>1 DEF Ask, Asks
<1>3. CASE x.action = "add"
  BY <1>2, <1>3 DEF UndoCalls
<1>4. CASE x.action = "delete"
  <2>1. Ask("add", x.cal, t, x.id, x.item, NoItem) \in Call
    BY <1>1, AskTyped, NoItemTyped
  <2>2. Right(Ask("add", x.cal, t, x.id, x.item, NoItem))
    BY <1>4, <2>1 DEF Ask, Asks, TxnFits
  <2> QED
    BY <1>4, <2>2 DEF UndoCalls
<1>5. CASE x.action = "modify" /\ Moves(x)
  <2>1. x.oldCal \in Cals
    BY <1>1, <1>5 DEF Moves, TxnFits
  <2>2. Ask("add", x.oldCal, t, x.id, x.old, NoItem) \in Call
    BY <1>1, <2>1, AskTyped, NoItemTyped
  <2>3. Right(Ask("add", x.oldCal, t, x.id, x.old, NoItem))
    BY <1>5, <2>1, <2>2, CalendarNames DEF Ask, Asks, TxnFits
  <2> HIDE DEF Right
  <2>4. UndoCalls(t, x) = <<Ask("delete", x.cal, t, x.id, x.item, NoItem),
                            Ask("add", x.oldCal, t, x.id, x.old, NoItem)>>
    BY <1>5 DEF UndoCalls
  <2> QED
    BY <1>2, <2>3, <2>4 DEF Right
<1>6. CASE x.action = "modify" /\ ~Moves(x)
  <2>1. Ask("modify", x.cal, t, x.id, x.old, x.item) \in Call
    BY <1>1, AskTyped
  <2>2. Right(Ask("modify", x.cal, t, x.id, x.old, x.item))
    BY <1>6, <2>1 DEF Ask, Asks, TxnFits
  <2> QED
    BY <1>6, <2>2 DEF UndoCalls
<1> QED
  BY <1>1, <1>3, <1>4, <1>5, <1>6

LEMMA ResultTyped ==
    ASSUME NEW c \in Call
    PROVE  Result(c) \in Item /\ Result(c).cal = c.cal /\ Result(c).ver = c.item.ver
<1>1. c.item \in Item /\ c.item.gen \in Nat /\ c.cal \in Cals
  BY DEF Call, Item
<1> DEFINE moved == [c.item EXCEPT !.cal = c.cal]
           g == IF c.op = "modify" /\ c.item.gen = c.old.gen THEN c.item.gen + 1 ELSE c.item.gen
<1>2. moved \in Item /\ moved.cal = c.cal /\ moved.ver = c.item.ver
  BY <1>1 DEF Item
<1>3. g \in Nat
  BY <1>1
<1>4. Result(c) = [moved EXCEPT !.gen = g]
  BY <1>1 DEF Result, Item
<1> HIDE DEF moved, g
<1> QED
  BY <1>2, <1>3, <1>4 DEF Item

\* What an answer teaches a transaction leaves it fit, and what else it has asked for.
LEMMA LearnFits ==
    ASSUME NEW x \in Txn, TxnFits(x), NEW c \in Call, Asks(x, c)
    PROVE  /\ Learn(x, c) \in Txn /\ TxnFits(Learn(x, c))
           /\ Learn(x, c).id = x.id /\ Learn(x, c).cal = x.cal
           /\ Learn(x, c).action = x.action /\ Learn(x, c).isDo = x.isDo
           /\ x.isDo => Learn(x, c).old = x.old
           /\ Learn(x, c).item = x.item \/ (x.isDo /\ c.op # "delete" /\ Learn(x, c).item.cal = c.cal)
           /\ \A d : Asks(x, d) => Asks(Learn(x, c), d)
<1>1. /\ Result(c) \in Item /\ Result(c).cal = c.cal /\ Result(c).ver = c.item.ver
      /\ c.cal \in Cals
  BY ResultTyped DEF Call
<1>2. CASE c.op = "delete"
  BY <1>2 DEF Learn
<1>3. CASE c.op # "delete" /\ x.isDo
  <2>1. Learn(x, c) = [x EXCEPT !.item = Result(c)]
    BY <1>3 DEF Learn
  <2> QED
    BY <1>1, <1>3, <2>1 DEF Txn, TxnFits, Asks
<1>4. CASE c.op # "delete" /\ ~x.isDo
  <2>1. Learn(x, c) = [x EXCEPT !.old = Result(c)]
    BY <1>4 DEF Learn
  <2> QED
    BY <1>1, <1>4, <2>1 DEF Txn, TxnFits, Asks
<1> QED
  BY <1>2, <1>3, <1>4

LEMMA ContentsTyped ==
    ASSUME NEW c \in Call, c.op # "delete" => c.item.ver # 0
    PROVE  /\ Contents(c) \in Stored
           /\ Contents(c).ver = 0 <=> Contents(c) = Gone
           /\ c.op # "delete" => Contents(c) # Gone
<1>1. c.item \in Item /\ c.item.gen \in Nat /\ c.item.ver \in Versions
  BY DEF Call, Item
<1>2. Gone \in Stored /\ Gone.ver = 0
  BY NoItemTyped DEF Gone, Stored
<1>3. CASE c.op = "delete"
  BY <1>2, <1>3 DEF Contents
<1>4. CASE c.op # "delete"
  <2>1. Contents(c) = [ver |-> Result(c).ver, gen |-> Result(c).gen]
    BY <1>4 DEF Contents
  <2>2. Result(c).ver = c.item.ver /\ Result(c).gen \in Nat
    BY ResultTyped DEF Item
  <2>3. Contents(c) \in Stored /\ Contents(c).ver = c.item.ver
    BY <1>1, <2>1, <2>2 DEF Stored
  <2> QED
    BY <1>2, <1>4, <2>3
<1> QED
  BY <1>3, <1>4

-----------------------------------------------------------------------------
(* The steps *)

LEMMA InitInv == Init => PInv
<1> SUFFICES ASSUME Init PROVE PInv
  OBVIOUS
<1>1. wanted \in [Items -> Place] /\ \A i \in Items : wanted[i].cal \in Cals => wanted[i].ver = 1
  <2>1. [cal : Cals, ver : {1}] \cup {Nowhere} \subseteq Place
    BY NoItemTyped DEF Place, Nowhere
  <2>2. \A i \in Items : wanted[i] \in [cal : Cals, ver : {1}] \/ wanted[i] = Nowhere
    BY DEF Init
  <2> QED
    BY <2>1, <2>2, CalendarNames DEF Init, Nowhere
<1>2. cals \in [Cals -> [Items -> Stored]]
  BY NoItemTyped DEF Init, Stored, Gone
<1>3. \A c \in Cals, i \in Items : cals[c][i].ver = 0 => cals[c][i] = Gone
  BY DEF Init, Gone
<1>4. /\ txns \in Seq(Txn) /\ Len(txns) <= MaxTxns /\ calls \in Seq(Call) /\ Len(calls) <= MaxCalls
      /\ undos \in Seq(1 .. Len(txns)) /\ redos \in Seq(1 .. Len(txns)) /\ OnceEach(undos, redos)
  <2>1. txns = <<>> /\ calls = <<>> /\ undos = <<>> /\ redos = <<>>
    BY DEF Init
  <2>2. Len(<<>>) = 0 /\ DOMAIN <<>> = {}
    OBVIOUS
  <2> QED
    BY <2>1, <2>2, EmptySeq, TransactionConstants DEF OnceEach
<1>5. DOMAIN txns = {} /\ DOMAIN calls = {} /\ refused \in BOOLEAN
  <2>1. txns = <<>> /\ calls = <<>> /\ refused = FALSE
    BY DEF Init
  <2>2. DOMAIN <<>> = {} /\ FALSE \in BOOLEAN
    OBVIOUS
  <2>3. DOMAIN txns = {} /\ DOMAIN calls = {}
    BY <2>1, <2>2
  <2> QED
    BY <2>1, <2>3
<1> QED
  BY <1>1, <1>2, <1>3, <1>4, <1>5 DEF PInv, IInv, Typed, Fits, OneThing

LEMMA Given ==
    ASSUME calls \in Seq(Call), NEW cs \in Seq(Call), Give(cs)
    PROVE  /\ calls' \in Seq(Call) /\ Len(calls') <= MaxCalls
           /\ \A k \in DOMAIN calls' :
               (\E j \in DOMAIN calls : calls'[k] = calls[j]) \/ (\E j \in DOMAIN cs : calls'[k] = cs[j])
           /\ calls = <<>> => calls' = cs
<1>1. calls = <<>> => calls \o cs = cs
  BY ConcatEmptySeq
<1>2. calls' = calls \o cs /\ Len(calls) + Len(cs) <= MaxCalls
  BY DEF Give
<1>3. /\ calls \o cs \in Seq(Call) /\ Len(calls \o cs) = Len(calls) + Len(cs)
      /\ \A k \in DOMAIN (calls \o cs) :
            \/ \E j \in DOMAIN calls : (calls \o cs)[k] = calls[j]
            \/ \E j \in DOMAIN cs : (calls \o cs)[k] = cs[j]
  BY Joined
<1> QED
  BY <1>1, <1>2, <1>3

\* A change that is made to a transaction when it is undone or done again.
LEMMA AnewFits ==
    ASSUME IInv, NEW t \in DOMAIN txns, NEW y \in Txn, TxnFits(y),
           \A c : Asks(txns[t], c) => Asks(y, c),
           txns' = [txns EXCEPT ![t] = y], NEW cs \in Seq(Call), Give(cs),
           \A k \in DOMAIN cs : cs[k].txn = t /\ Asks(y, cs[k]), UNCHANGED <<cals, refused>>
    PROVE  /\ txns' \in Seq(Txn) /\ Len(txns') = Len(txns)
           /\ calls' \in Seq(Call) /\ Len(calls') <= MaxCalls /\ Fits'
<1>1. /\ txns' \in Seq(Txn) /\ Len(txns') = Len(txns) /\ DOMAIN txns' = DOMAIN txns
      /\ txns'[t] = y /\ \A u \in DOMAIN txns : u # t => txns'[u] = txns[u]
  BY DEF IInv, Typed
<1>2. /\ calls' \in Seq(Call) /\ Len(calls') <= MaxCalls
      /\ \A k \in DOMAIN calls' :
            (\E j \in DOMAIN calls : calls'[k] = calls[j]) \/ (\E j \in DOMAIN cs : calls'[k] = cs[j])
  BY Given DEF IInv, Typed
<1>3. \A u \in DOMAIN txns' : TxnFits(txns'[u])
  BY <1>1 DEF IInv, Fits
<1>4. ASSUME NEW k \in DOMAIN calls'
      PROVE  calls'[k].txn \in DOMAIN txns' /\ Asks(txns'[calls'[k].txn], calls'[k])
  <2>1. CASE \E j \in DOMAIN calls : calls'[k] = calls[j]
    BY <1>1, <2>1 DEF IInv, Fits
  <2>2. CASE \E j \in DOMAIN cs : calls'[k] = cs[j]
    BY <1>1, <2>2
  <2> QED
    BY <1>2, <2>1, <2>2
<1>5. \A c \in Cals, i \in Items : cals'[c][i].ver = 0 => cals'[c][i] = Gone
  BY DEF IInv, Fits
<1> QED
  BY <1>1, <1>2, <1>3, <1>4, <1>5 DEF Fits

LEMMA CommitStep ==
    ASSUME IInv, NEW action \in {"add", "modify", "delete"}, NEW i \in Items, NEW cal \in Cals,
           NEW item \in Item, NEW old \in Item, NEW is \in Place,
           item.ver # 0,
           action = "modify" => item.cal = cal /\ old.cal \in Cals /\ old.ver # 0,
           Commit(action, i, cal, item, old, is)
    PROVE  IInv' /\ ("impatient" \notin Disturbances /\ OneThing => OneThing')
<1> DEFINE x == [action |-> action, id |-> i, cal |-> cal, item |-> item, old |-> old,
                 oldCal |-> NoCal, isDo |-> FALSE, was |-> wanted[i], is |-> is]
           t == Len(txns) + 1
<1>1. /\ Len(txns) \in Nat /\ DOMAIN txns = 1 .. Len(txns)
      /\ wanted[i] \in Place
  BY DEF IInv, Typed
<1>2. /\ MayAct /\ t <= MaxTxns /\ txns' = Append(txns, Done(x)) /\ Give(DoCalls(t, x))
      /\ undos' = Append(undos, t) /\ redos' = <<>>
      /\ wanted' = [wanted EXCEPT ![i] = is] /\ UNCHANGED <<cals, refused>>
  BY DEF Commit
<1>3. x \in Txn /\ Doable(x)
  BY <1>1 DEF Txn, Doable
<1>4. t \in 1 .. MaxTxns
  BY <1>1, <1>2, TransactionConstants
<1>0. PICK y \in Txn : y = Done(x)
  BY <1>3, DoneFits
<1>5. /\ y \in Txn /\ TxnFits(y) /\ y.isDo /\ y.action = action /\ y.cal = cal /\ y.item = item
      /\ y.old = old
  BY <1>3, <1>0, DoneFits
<1>6. PICK c \in Call :
        /\ DoCalls(t, x) = <<c>> /\ c.txn = t /\ Asks(y, c)
        /\ c.op # "delete" => c.cal = cal
        /\ c.then = "deleteOld" => item.cal # old.cal
        /\ c.op = "delete" => action = "delete"
  BY <1>3, <1>4, <1>0, DoCallsAsk
<1> HIDE DEF x
<1>7. /\ txns' \in Seq(Txn) /\ Len(txns') = t /\ DOMAIN txns' = 1 .. t /\ txns'[t] = y
      /\ \A u \in 1 .. Len(txns) : txns'[u] = txns[u]
  BY <1>1, <1>2, <1>5, <1>0 DEF IInv, Typed
<1>8. /\ calls' \in Seq(Call) /\ Len(calls') <= MaxCalls
      /\ \A k \in DOMAIN calls' : (\E j \in DOMAIN calls : calls'[k] = calls[j]) \/ calls'[k] = c
      /\ calls = <<>> => calls' = <<c>>
  <2>1. <<c>> \in Seq(Call) /\ calls \in Seq(Call)
    BY DEF IInv, Typed
  <2>2. Give(<<c>>)
    BY <1>2, <1>6
  <2>3. \A j \in DOMAIN <<c>> : <<c>>[j] = c
    OBVIOUS
  <2> QED
    BY <2>1, <2>2, <2>3, Given
<1>9. /\ undos' \in Seq(1 .. Len(txns')) /\ redos' \in Seq(1 .. Len(txns'))
      /\ OnceEach(undos', redos')
  <2>1. undos \in Seq(1 .. t) /\ Len(undos) \in Nat /\ \A k \in 1 .. Len(undos) : undos[k] \in 1 .. Len(txns)
    BY <1>1 DEF IInv, Typed
  <2>2. /\ undos' \in Seq(1 .. t) /\ DOMAIN undos' = 1 .. Len(undos) + 1
        /\ \A k \in 1 .. Len(undos) : undos'[k] = undos[k]
        /\ undos'[Len(undos) + 1] = t
    BY <1>1, <1>2, <2>1
  <2>4. \A k \in 1 .. Len(undos) : undos[k] # t
    BY <1>1, <2>1
  <2>5. \A j, k \in 1 .. Len(undos) : undos[j] = undos[k] => j = k
    BY <2>1 DEF IInv, Typed, OnceEach
  <2> HIDE DEF t
  <2>3. \A j, k \in DOMAIN undos' : undos'[j] = undos'[k] => j = k
    BY <2>1, <2>2, <2>4, <2>5
  <2> QED
    BY <1>2, <1>7, <2>2, <2>3 DEF OnceEach
<1>10. Typed'
  BY <1>2, <1>4, <1>7, <1>8, <1>9 DEF IInv, Typed
<1>11. Fits'
  <2>1. \A u \in DOMAIN txns' : TxnFits(txns'[u])
    BY <1>1, <1>5, <1>7 DEF IInv, Fits
  <2>2. ASSUME NEW k \in DOMAIN calls'
        PROVE  calls'[k].txn \in DOMAIN txns' /\ Asks(txns'[calls'[k].txn], calls'[k])
    <3>1. CASE \E j \in DOMAIN calls : calls'[k] = calls[j]
      BY <1>1, <1>7, <3>1 DEF IInv, Fits
    <3>2. CASE calls'[k] = c
      BY <1>1, <1>6, <1>7, <3>2
    <3> QED
      BY <1>8, <3>1, <3>2
  <2>3. \A d \in Cals, j \in Items : cals'[d][j].ver = 0 => cals'[d][j] = Gone
    BY <1>2 DEF IInv, Fits
  <2> QED
    BY <2>1, <2>2, <2>3 DEF Fits
<1>12. ASSUME "impatient" \notin Disturbances, OneThing PROVE OneThing'
  <2>1. calls' = <<c>>
    BY <1>2, <1>8, <1>12 DEF MayAct
  <2>2. Len(calls') = 1 /\ DOMAIN calls' = {1} /\ calls'[1] = c
    BY <2>1
  <2>3. \A u \in DOMAIN txns' : txns'[u].action = "modify" => txns'[u].item.cal = txns'[u].cal
    BY <1>1, <1>5, <1>7, <1>12 DEF OneThing
  <2>4. Doing(y, c)'
    BY <1>5, <1>6, <2>2 DEF Doing, Asks
  <2>5. txns'[c.txn] = y
    BY <1>6, <1>7
  <2> QED
    BY <2>2, <2>3, <2>4, <2>5 DEF OneThing
<1> QED
  BY <1>10, <1>11, <1>12 DEF IInv

\* A new transaction: of the user's three commands.
LEMMA UserSteps ==
    ASSUME IInv, NEW i \in Items, NEW c \in Cals, NEW to \in Cals,
           Add(i, c) \/ Modify(i, c, to) \/ Delete(i, c)
    PROVE  IInv' /\ ("impatient" \notin Disturbances /\ OneThing => OneThing')
<1>1. /\ Len(txns) \in Nat
      /\ cals[c][i] \in Stored
      /\ Present(i, c) => cals[c][i].ver # 0
  BY DEF IInv, Typed, Fits, Present
<1>2. Seen(i, c) \in Item /\ Seen(i, c).cal = c /\ Seen(i, c).ver = cals[c][i].ver
  BY <1>1 DEF Seen, Item, Stored
<1>3. Len(txns) + 1 <= MaxTxns => NewVersion \in Versions /\ NewVersion # 0
  BY <1>1, TransactionConstants DEF NewVersion, Versions
<1>4. CASE Add(i, c)
  <2> DEFINE item == [cal |-> c, ver |-> NewVersion, gen |-> 0]
             is == [cal |-> c, ver |-> NewVersion]
  <2>1. Commit("add", i, c, item, NoItem, is)
    BY <1>4 DEF Add
  <2>2. Len(txns) + 1 <= MaxTxns
    BY <2>1 DEF Commit
  <2>3. item \in Item /\ is \in Place /\ item.ver # 0 /\ NoItem \in Item
    BY <1>3, <2>2, NoItemTyped DEF Item, Place
  <2> HIDE DEF item, is
  <2> QED
    BY <2>1, <2>3, CommitStep
<1>5. CASE Modify(i, c, to)
  <2> DEFINE item == [cal |-> to, ver |-> NewVersion, gen |-> cals[c][i].gen]
             is == [cal |-> to, ver |-> NewVersion]
  <2>1. Commit("modify", i, to, item, Seen(i, c), is) /\ Present(i, c)
    BY <1>5 DEF Modify
  <2>2. Len(txns) + 1 <= MaxTxns
    BY <2>1 DEF Commit
  <2>3. item \in Item /\ is \in Place /\ item.ver # 0 /\ item.cal = to
    BY <1>1, <1>3, <2>2 DEF Item, Place, Stored
  <2> HIDE DEF item, is
  <2> QED
    BY <1>1, <1>2, <2>1, <2>3, CommitStep
<1>6. CASE Delete(i, c)
  <2>1. Commit("delete", i, c, Seen(i, c), NoItem, Nowhere) /\ Present(i, c)
    BY <1>6 DEF Delete
  <2>2. Nowhere \in Place /\ NoItem \in Item
    BY NoItemTyped DEF Nowhere, Place
  <2> QED
    BY <1>1, <1>2, <2>1, <2>2, CommitStep
<1> QED
  BY <1>4, <1>5, <1>6

\* Nothing is outstanding when a user who waits acts.
LEMMA UndoStep ==
    ASSUME IInv, Undo
    PROVE  IInv' /\ ("impatient" \notin Disturbances /\ OneThing => OneThing')
<1> DEFINE t == Last(undos)
<1>1. /\ Len(txns) \in Nat /\ DOMAIN txns = 1 .. Len(txns)
      /\ t \in DOMAIN txns
  BY FrontAndLast DEF IInv, Typed, Undo
<1>2. t \in 1 .. MaxTxns /\ txns[t] \in Txn /\ TxnFits(txns[t])
  BY <1>1, TransactionConstants DEF IInv, Typed, Fits
<1>3. PICK x \in Txn, y \in Txn, u \in DOMAIN txns :
          x = txns[t] /\ y = Undone(x) /\ u = t
  BY <1>1, <1>2, UndoneFits
<1>4. /\ TxnFits(y) /\ ~y.isDo /\ y.item = x.item /\ y.cal = x.cal /\ y.action = x.action
      /\ \A c : Asks(x, c) => Asks(y, c)
  BY <1>2, <1>3, UndoneFits
<1>5. PICK cs \in Seq(Call) :
          cs = UndoCalls(u, x) /\ \A k \in DOMAIN cs : cs[k].txn = u /\ Asks(y, cs[k])
  BY <1>2, <1>3, <1>4, UndoCallsAsk
<1>6. /\ MayAct /\ undos # <<>> /\ txns' = [txns EXCEPT ![u] = y] /\ Give(cs)
      /\ undos' = Front(undos) /\ redos' = Append(redos, t)
      /\ wanted' = [wanted EXCEPT ![x.id] = x.was] /\ UNCHANGED <<cals, refused>>
  BY <1>3, <1>5 DEF Undo
<1>7. /\ txns' \in Seq(Txn) /\ Len(txns') = Len(txns)
      /\ calls' \in Seq(Call) /\ Len(calls') <= MaxCalls /\ Fits'
  <2>1. txns[u] = x /\ \A c : Asks(txns[u], c) => Asks(y, c)
    BY <1>3, <1>4
  <2>2. \A k \in DOMAIN cs : cs[k].txn = u /\ Asks(y, cs[k])
    BY <1>5
  <2> QED
    BY <1>4, <1>6, <2>1, <2>2, AnewFits
<1>8. undos' \in Seq(1 .. Len(txns)) /\ redos' \in Seq(1 .. Len(txns)) /\ OnceEach(undos', redos')
  BY <1>6, TopMoves DEF IInv, Typed
<1>9. wanted' \in [Items -> Place]
  BY <1>6 DEF IInv, Typed, Txn
<1>10. Typed'
  BY <1>6, <1>7, <1>8, <1>9 DEF IInv, Typed
<1>11. ASSUME "impatient" \notin Disturbances, OneThing PROVE OneThing'
  <2>1. calls' = cs
    BY <1>5, <1>6, <1>11, Given DEF MayAct, IInv, Typed
  <2>2. txns'[u] = y /\ DOMAIN txns' = DOMAIN txns /\ \A v \in DOMAIN txns : v # u => txns'[v] = txns[v]
    BY <1>3, <1>6 DEF IInv, Typed
  <2>3. \A v \in DOMAIN txns' : txns'[v].action = "modify" => txns'[v].item.cal = txns'[v].cal
    BY <1>3, <1>4, <1>11, <2>2 DEF OneThing
  <2>4. \A k \in DOMAIN calls' : ~txns'[calls'[k].txn].isDo
    BY <1>4, <1>5, <2>1, <2>2
  <2> QED
    BY <2>3, <2>4 DEF OneThing
<1> QED
  BY <1>7, <1>10, <1>11 DEF IInv

LEMMA RedoStep ==
    ASSUME IInv, Redo
    PROVE  IInv' /\ ("impatient" \notin Disturbances /\ OneThing => OneThing')
<1> DEFINE t == Last(redos)
<1>1. /\ Len(txns) \in Nat /\ DOMAIN txns = 1 .. Len(txns)
      /\ t \in DOMAIN txns
  BY FrontAndLast DEF IInv, Typed, Redo
<1>2. t \in 1 .. MaxTxns /\ txns[t] \in Txn /\ Doable(txns[t])
  BY <1>1, FitsDoable, TransactionConstants DEF IInv, Typed, Fits
<1>3. PICK x \in Txn, y \in Txn, u \in DOMAIN txns :
          x = txns[t] /\ y = Done(x) /\ u = t
  BY <1>1, <1>2, DoneFits
<1>4. /\ TxnFits(y) /\ y.isDo /\ y.item = x.item /\ y.cal = x.cal /\ y.action = x.action
      /\ y.old = x.old /\ \A c : Asks(x, c) => Asks(y, c)
  BY <1>2, <1>3, DoneFits
<1>5. PICK c \in Call :
        /\ DoCalls(u, x) = <<c>> /\ c.txn = u /\ Asks(y, c)
        /\ c.op # "delete" => c.cal = x.cal
        /\ c.then = "deleteOld" => x.item.cal # x.old.cal
        /\ c.op = "delete" => x.action = "delete"
  BY <1>2, <1>3, DoCallsAsk
<1>6. /\ MayAct /\ redos # <<>> /\ txns' = [txns EXCEPT ![u] = y] /\ Give(<<c>>)
      /\ undos' = Append(undos, t) /\ redos' = Front(redos)
      /\ wanted' = [wanted EXCEPT ![x.id] = x.is] /\ UNCHANGED <<cals, refused>>
  BY <1>3, <1>5 DEF Redo
<1>7. /\ <<c>> \in Seq(Call)
      /\ \A k \in DOMAIN <<c>> : <<c>>[k].txn = u /\ Asks(y, <<c>>[k])
  BY <1>5
<1>8. /\ txns' \in Seq(Txn) /\ Len(txns') = Len(txns)
      /\ calls' \in Seq(Call) /\ Len(calls') <= MaxCalls /\ Fits'
  BY <1>3, <1>4, <1>6, <1>7, AnewFits
<1>9. undos' \in Seq(1 .. Len(txns)) /\ redos' \in Seq(1 .. Len(txns)) /\ OnceEach(undos', redos')
  BY <1>6, TopMoves, OnceEachSwaps DEF IInv, Typed
<1>10. wanted' \in [Items -> Place]
  BY <1>6 DEF IInv, Typed, Txn
<1>11. Typed'
  BY <1>6, <1>8, <1>9, <1>10 DEF IInv, Typed
<1>12. ASSUME "impatient" \notin Disturbances, OneThing PROVE OneThing'
  <2>1. calls' = <<c>>
    BY <1>6, <1>7, <1>12, Given DEF MayAct, IInv, Typed
  <2>2. Len(calls') = 1 /\ DOMAIN calls' = {1} /\ calls'[1] = c
    BY <2>1
  <2>3. txns'[u] = y /\ DOMAIN txns' = DOMAIN txns /\ \A v \in DOMAIN txns : v # u => txns'[v] = txns[v]
    BY <1>3, <1>6 DEF IInv, Typed
  <2>4. \A v \in DOMAIN txns' : txns'[v].action = "modify" => txns'[v].item.cal = txns'[v].cal
    BY <1>3, <1>4, <1>12, <2>3 DEF OneThing
  <2>5. x.action = "modify" => x.item.cal = x.cal
    BY <1>1, <1>3, <1>12 DEF OneThing
  <2>6. Doing(y, c)'
    BY <1>4, <1>5, <2>2, <2>5 DEF Doing, Asks
  <2> QED
    BY <1>5, <2>2, <2>3, <2>4, <2>6 DEF OneThing
<1> QED
  BY <1>8, <1>11, <1>12 DEF IInv

LEMMA SucceedStep ==
    ASSUME IInv, Succeed
    PROVE  IInv' /\ (OneThing => OneThing')
<1>1. PICK k \in DOMAIN calls :
        /\ cals' = [cals EXCEPT ![calls[k].cal][calls[k].id] = Contents(calls[k])]
        /\ txns' = [txns EXCEPT ![calls[k].txn] = Learn(txns[calls[k].txn], calls[k])]
        /\ calls' = RemoveAt(calls, k) \o Follow(Learn(txns[calls[k].txn], calls[k]), calls[k])
        /\ UNCHANGED <<undos, redos, wanted, refused>>
  BY DEF Succeed
<1>2. PICK c \in Call, t \in DOMAIN txns, x \in Txn :
        c = calls[k] /\ t = c.txn /\ x = txns[t] /\ TxnFits(x) /\ Asks(x, c)
  <2>1. calls[k] \in Call /\ calls[k].txn \in DOMAIN txns /\ Asks(txns[calls[k].txn], calls[k])
    BY <1>1 DEF IInv, Typed, Fits
  <2>2. txns[calls[k].txn] \in Txn /\ TxnFits(txns[calls[k].txn])
    BY <2>1 DEF IInv, Typed, Fits
  <2> QED
    BY <2>1, <2>2
<1>3. PICK y \in Txn : y = Learn(x, c)
  BY <1>2, LearnFits
<1>4. /\ TxnFits(y) /\ y.id = x.id /\ y.cal = x.cal /\ y.action = x.action /\ y.isDo = x.isDo
      /\ x.isDo => y.old = x.old
      /\ y.item = x.item \/ (x.isDo /\ c.op # "delete" /\ y.item.cal = c.cal)
      /\ \A d : Asks(x, d) => Asks(y, d)
  BY <1>2, <1>3, LearnFits
<1>5. /\ c.cal \in Cals /\ c.id \in Items /\ c.txn \in 1 .. MaxTxns
      /\ c.then \in {"done", "deleteOld"} /\ y.id \in Items /\ y.old \in Item
  BY DEF Call, Txn
<1>6. /\ Contents(c) \in Stored /\ (Contents(c).ver = 0 => Contents(c) = Gone)
      /\ c.op # "delete" => Contents(c) # Gone
  BY <1>2, ContentsTyped DEF Asks
<1>7. PICK rest \in Seq(Call) : rest = RemoveAt(calls, k)
  BY <1>1, Removed DEF IInv, Typed
<1>8. /\ Len(rest) = Len(calls) - 1
      /\ \A j \in DOMAIN rest : \E m \in DOMAIN calls : rest[j] = calls[m]
  BY <1>1, <1>7, Removed DEF IInv, Typed
<1> DEFINE Following(n) ==
        /\ n \in Seq(Call) /\ Len(n) <= 1
        /\ \A j \in DOMAIN n :
             /\ n[j].txn = t /\ Asks(y, n[j]) /\ c.then = "deleteOld"
             /\ n[j].op = "delete" /\ n[j].then = "done" /\ n[j].cal = y.old.cal
<1>9a. Following(Follow(y, c))
  <2>1. CASE c.then = "deleteOld"
    <3> DEFINE d == Ask("delete", y.old.cal, c.txn, y.id, y.old, NoItem)
    <3>1. y.old.cal \in Cals
      BY <1>2, <1>4, <2>1 DEF TxnFits, Asks
    <3>2. d \in Call
      BY <1>5, <3>1, AskTyped, NoItemTyped
    <3>3. d.txn = c.txn /\ d.op = "delete" /\ d.then = "done" /\ d.cal = y.old.cal /\ d.id = y.id
      BY DEF Ask
    <3>4. Follow(y, c) = <<d>>
      BY <2>1 DEF Follow
    <3> HIDE DEF d
    <3>5. Asks(y, d)
      BY <3>3 DEF Asks
    <3>6. <<d>> \in Seq(Call) /\ Len(<<d>>) = 1 /\ DOMAIN <<d>> = {1} /\ <<d>>[1] = d
      BY <3>2
    <3>7. \A j \in DOMAIN <<d>> : <<d>>[j] = d
      BY <3>6
    <3> QED
      <4>1. Following(<<d>>)
        BY <1>2, <2>1, <3>3, <3>5, <3>6, <3>7
      <4> HIDE DEF Following
      <4> QED
        BY <3>4, <4>1
  <2>2. CASE c.then # "deleteOld"
    <3>1. Follow(y, c) = <<>>
      BY <2>2 DEF Follow
    <3>2. <<>> \in Seq(Call) /\ Len(<<>>) = 0 /\ DOMAIN <<>> = {}
      OBVIOUS
    <3>3. Following(<<>>)
      BY <3>2
    <3> HIDE DEF Following
    <3> QED
      BY <3>1, <3>3
  <2> HIDE DEF Following
  <2> QED
    BY <2>1, <2>2
<1>9. PICK next \in Seq(Call) :
        /\ next = Follow(y, c) /\ Len(next) <= 1
        /\ \A j \in DOMAIN next :
             /\ next[j].txn = t /\ Asks(y, next[j]) /\ c.then = "deleteOld"
             /\ next[j].op = "delete" /\ next[j].then = "done" /\ next[j].cal = y.old.cal
  BY <1>9a
<1>10. /\ cals' = [cals EXCEPT ![c.cal][c.id] = Contents(c)]
       /\ txns' = [txns EXCEPT ![t] = y] /\ calls' = rest \o next
  BY <1>1, <1>2, <1>3, <1>7, <1>9
<1>11. /\ txns' \in Seq(Txn) /\ Len(txns') = Len(txns) /\ DOMAIN txns' = DOMAIN txns
       /\ txns'[t] = y /\ \A u \in DOMAIN txns : u # t => txns'[u] = txns[u]
  BY <1>10 DEF IInv, Typed
<1>12. /\ calls' \in Seq(Call) /\ Len(calls') = Len(rest) + Len(next)
       /\ \A j \in DOMAIN calls' :
            (\E m \in DOMAIN rest : calls'[j] = rest[m]) \/ (\E m \in DOMAIN next : calls'[j] = next[m])
  <2>1. /\ rest \o next \in Seq(Call) /\ Len(rest \o next) = Len(rest) + Len(next)
        /\ \A j \in DOMAIN (rest \o next) :
              \/ \E m \in DOMAIN rest : (rest \o next)[j] = rest[m]
              \/ \E m \in DOMAIN next : (rest \o next)[j] = next[m]
    BY Joined
  <2>2. calls' = rest \o next
    BY <1>10
  <2> QED
    BY <2>1, <2>2
<1>13. Len(calls) \in Nat /\ Len(calls) <= MaxCalls /\ Len(calls') <= Len(calls) /\ MaxCalls \in Nat
  BY <1>8, <1>9, <1>12, TransactionConstants DEF IInv, Typed
<1>14. /\ cals' \in [Cals -> [Items -> Stored]]
       /\ \A b \in Cals, i \in Items :
            cals'[b][i] = IF b = c.cal /\ i = c.id THEN Contents(c) ELSE cals[b][i]
  BY <1>5, <1>6, <1>10 DEF IInv, Typed
<1>15. Typed'
  BY <1>1, <1>11, <1>12, <1>13, <1>14 DEF IInv, Typed
<1>16. Fits'
  <2>1. \A b \in Cals, i \in Items : cals'[b][i].ver = 0 => cals'[b][i] = Gone
    BY <1>6, <1>14 DEF IInv, Fits
  <2>2. \A u \in DOMAIN txns' : TxnFits(txns'[u])
    BY <1>4, <1>11 DEF IInv, Fits
  <2>3. ASSUME NEW j \in DOMAIN calls'
        PROVE  calls'[j].txn \in DOMAIN txns' /\ Asks(txns'[calls'[j].txn], calls'[j])
    <3>1. CASE \E m \in DOMAIN rest : calls'[j] = rest[m]
      <4>1. PICK m \in DOMAIN calls : calls'[j] = calls[m]
        BY <1>8, <3>1
      <4> QED
        BY <1>2, <1>4, <1>11, <4>1 DEF IInv, Fits
    <3>2. CASE \E m \in DOMAIN next : calls'[j] = next[m]
      BY <1>9, <1>11, <3>2
    <3> QED
      BY <1>12, <3>1, <3>2
  <2> QED
    BY <2>1, <2>2, <2>3 DEF Fits
<1>17. ASSUME OneThing PROVE OneThing'
  <2>1. x.isDo => Doing(x, c)
    BY <1>1, <1>2, <1>17 DEF OneThing
  <2>2. \A u \in DOMAIN txns' : txns'[u].action = "modify" => txns'[u].item.cal = txns'[u].cal
    BY <1>2, <1>4, <1>11, <1>17, <2>1 DEF OneThing, Doing
  <2>3. ASSUME NEW j \in DOMAIN calls', txns'[calls'[j].txn].isDo
        PROVE  Doing(txns[calls[j].txn], calls[j])'
    <3>1. CASE \E m \in DOMAIN rest : calls'[j] = rest[m]
      <4>1. PICK m \in DOMAIN calls : calls'[j] = calls[m]
        BY <1>8, <3>1
      <4>5. calls[m].txn \in DOMAIN txns /\ txns'[calls[m].txn].isDo
        BY <2>3, <4>1 DEF IInv, Fits
      <4>2. calls[m].txn \in DOMAIN txns /\ txns[calls[m].txn].isDo
        BY <1>2, <1>4, <1>11, <4>5
      <4>3. Len(calls) = 1
        BY <1>17, <4>2 DEF OneThing, Doing
      <4>4. Len(rest) = 0
        BY <1>8, <4>3
      <4> QED
        BY <3>1, <4>4
    <3>2. CASE \E m \in DOMAIN next : calls'[j] = next[m]
      <4>1. PICK d \in Call :
              /\ d = calls'[j] /\ d.txn = t /\ c.then = "deleteOld"
              /\ d.op = "delete" /\ d.then = "done" /\ d.cal = y.old.cal
        BY <1>9, <3>2
      <4>2. txns'[d.txn] = y /\ x.isDo /\ y.old = x.old
        BY <1>4, <1>11, <2>3, <4>1
      <4>3. Len(calls) = 1 /\ c.cal # d.cal /\ c.op # "delete" /\ c.id = y.id
        BY <1>2, <1>4, <2>1, <4>1, <4>2 DEF Doing, Asks
      <4>4. Len(calls') = 1
        BY <1>8, <1>9, <1>12, <3>2, <4>3
      <4>5. cals'[c.cal][y.id] # Gone
        BY <1>5, <1>6, <1>14, <4>3
      <4>6. \E b \in Cals : b # d.cal /\ cals'[b][y.id] # Gone
        BY <1>5, <4>3, <4>5
      <4>7. Doing(y, d)'
        BY <4>1, <4>4, <4>6 DEF Doing, Present
      <4> QED
        BY <4>1, <4>2, <4>7
    <3> QED
      BY <1>12, <3>1, <3>2
  <2> QED
    BY <2>2, <2>3 DEF OneThing
<1> QED
  BY <1>15, <1>16, <1>17 DEF IInv

LEMMA FailStep ==
    ASSUME IInv, Fail
    PROVE  IInv' /\ (OneThing => OneThing')
<1>1. PICK k \in DOMAIN calls :
        calls' = RemoveAt(calls, k) /\ refused' = TRUE /\ UNCHANGED <<cals, txns, undos, redos, wanted>>
  BY DEF Fail
<1>2. /\ calls' \in Seq(Call) /\ Len(calls') = Len(calls) - 1
      /\ \A j \in DOMAIN calls' : \E m \in DOMAIN calls : calls'[j] = calls[m]
  BY <1>1, Removed DEF IInv, Typed
<1>3. Len(calls) \in Nat /\ Len(calls) <= MaxCalls /\ MaxCalls \in Nat
  BY TransactionConstants DEF IInv, Typed
<1>4. Typed'
  BY <1>1, <1>2, <1>3 DEF IInv, Typed
<1>5. Fits'
  BY <1>1, <1>2 DEF IInv, Fits
<1>6. ASSUME OneThing PROVE OneThing'
  <2>1. ASSUME NEW j \in DOMAIN calls' PROVE ~txns'[calls'[j].txn].isDo
    <3>1. PICK m \in DOMAIN calls : calls'[j] = calls[m]
      BY <1>2
    <3>2. txns[calls[m].txn].isDo => Len(calls) = 1
      BY <1>6 DEF OneThing, Doing
    <3>3. Len(calls') # 0
      BY <1>2, <2>1
    <3> QED
      BY <1>1, <1>2, <1>3, <3>1, <3>2, <3>3
  <2> QED
    BY <1>1, <1>6, <2>1 DEF OneThing
<1> QED
  BY <1>4, <1>5, <1>6 DEF IInv

-----------------------------------------------------------------------------
(* The theorems *)

LEMMA Stutters == ASSUME IInv, UNCHANGED vars PROVE IInv' /\ (OneThing => OneThing')
BY DEF IInv, Typed, Fits, OneThing, Doing, Present, vars

LEMMA IInvStep ==
    ASSUME IInv, [Next]_vars
    PROVE  IInv' /\ ("impatient" \notin Disturbances /\ OneThing => OneThing')
<1>1. CASE \E i \in Items, c \in Cals : Add(i, c) \/ Delete(i, c)
  BY <1>1, UserSteps
<1>2. CASE \E i \in Items, c, to \in Cals : Modify(i, c, to)
  BY <1>2, UserSteps
<1>3. CASE Undo
  BY <1>3, UndoStep
<1>4. CASE Redo
  BY <1>4, RedoStep
<1>5. CASE Succeed
  BY <1>5, SucceedStep
<1>6. CASE Fail
  BY <1>6, FailStep
<1>7. CASE UNCHANGED vars
  BY <1>7, Stutters
<1> QED
  BY <1>1, <1>2, <1>3, <1>4, <1>5, <1>6, <1>7 DEF Next

LEMMA PInvStep == "impatient" \notin Disturbances => (PInv /\ [Next]_vars => PInv')
BY IInvStep DEF PInv

\* TransactionsTyped: the types, and that a transaction is on one of the stacks at most and
\* on it once, whatever the calendars refuse and however impatient the user is.
THEOREM TransactionsTyped == Spec => []TypeOK
<1>1. Init => IInv
  BY InitInv DEF PInv
<1>2. IInv /\ [Next]_vars => IInv'
  BY IInvStep
<1>3. IInv => TypeOK
  BY TypedTypes DEF IInv
<1> QED
  BY <1>1, <1>2, <1>3, PTL DEF Spec

\* MovesKeepItems: moving an item never loses it, whichever of its two operations is refused,
\* if the user waits for the answers.
THEOREM MovesKeepItems == "impatient" \notin Disturbances => (Spec => MoveKeepsItem)
<1> DEFINE Losing(i) ==
        \E k \in DOMAIN calls :
            LET x == txns[calls[k].txn] IN
            x.id = i /\ calls[k].op = "delete" /\ (x.isDo => x.action = "delete")
           Kept == \A i \in Items : Somewhere(i) /\ ~Somewhere(i)' => Losing(i)
<1>1. ASSUME PInv, [Next]_vars PROVE [Kept]_vars
  <2> SUFFICES ASSUME NEW i \in Items, Somewhere(i), ~Somewhere(i)' PROVE Losing(i)
    OBVIOUS
  <2>1. PICK c \in Cals : Present(i, c)
    BY DEF Somewhere
  <2>2. \A d \in Cals : cals'[d][i] = Gone
    BY DEF Somewhere, Present
  <2>3. cals' # cals
    BY <2>1, <2>2 DEF Present
  <2>4. Succeed
    BY <1>1, <2>3 DEF Next, Add, Modify, Delete, Commit, Undo, Redo, Fail, vars
  <2>5. PICK k \in DOMAIN calls :
          cals' = [cals EXCEPT ![calls[k].cal][calls[k].id] = Contents(calls[k])]
    BY <2>4 DEF Succeed
  <2>6. /\ calls[k] \in Call /\ calls[k].txn \in DOMAIN txns
        /\ Asks(txns[calls[k].txn], calls[k]) /\ calls[k].cal \in Cals /\ calls[k].id \in Items
    <3>1. calls[k] \in Call
      BY <1>1 DEF PInv, IInv, Typed
    <3>2. calls[k].txn \in DOMAIN txns /\ Asks(txns[calls[k].txn], calls[k])
      BY <1>1 DEF PInv, IInv, Fits
    <3> QED
      BY <3>1, <3>2 DEF Call
  <2>7. \A d \in Cals, j \in Items :
          cals'[d][j] = IF d = calls[k].cal /\ j = calls[k].id THEN Contents(calls[k]) ELSE cals[d][j]
    BY <1>1, <2>5, <2>6 DEF PInv, IInv, Typed
  <2>8. i = calls[k].id
    BY <2>1, <2>2, <2>7 DEF Present
  <2>9. Contents(calls[k]) = Gone
    BY <2>2, <2>6, <2>7, <2>8
  <2>10. calls[k].op = "delete"
    BY <2>6, <2>9, ContentsTyped DEF Asks
  <2>11. \A d \in Cals : d # calls[k].cal => ~Present(i, d)
    BY <2>2, <2>7 DEF Present
  <2>12. txns[calls[k].txn].id = i
    BY <2>6, <2>8 DEF Asks
  <2>13. txns[calls[k].txn].isDo => txns[calls[k].txn].action = "delete"
    BY <1>1, <2>10, <2>11, <2>12 DEF PInv, OneThing, Doing
  <2> QED
    BY <2>10, <2>12, <2>13
<1>2. ASSUME "impatient" \notin Disturbances PROVE Spec => [][Kept]_vars
  BY <1>1, <1>2, InitInv, PInvStep, PTL DEF Spec
<1> QED
  BY <1>2 DEF MoveKeepsItem

-----------------------------------------------------------------------------
(* Undo restores: the inductive invariant *)

Where(it) == [cal |-> it.cal, ver |-> it.ver]
Content(it) == [ver |-> it.ver, gen |-> it.gen]

\* The calendar has counted up the generation of what a change has made.
Settled(x) == x.action = "modify" /\ ~Moves(x) => x.item.gen # x.old.gen

\* What a transaction found, and what it made or will have made.  Neither ever changes.
Before(x) ==
    IF x.action = "add" THEN NoItem ELSE IF x.action = "modify" THEN x.old ELSE x.item
After(x) ==
    IF x.action = "delete" THEN NoItem
    ELSE IF Settled(x) THEN x.item ELSE [x.item EXCEPT !.gen = @ + 1]

Sound(x) ==
    /\ x.item.cal = x.cal
    /\ Moves(x) => x.oldCal = x.old.cal
    /\ x.was = Where(Before(x)) /\ x.is = Where(After(x))

\* A stack of transactions with items id, which lead from what is in "in" to what is in
\* "out": of each item, the last leads to what is now, the others to the next one.
Latest(s, id, k) == \A j \in DOMAIN s : j > k => id[s[j]] # id[s[k]]
Adjacent(s, id, j, k) ==
    /\ j < k /\ id[s[j]] = id[s[k]]
    /\ \A m \in DOMAIN s : j < m /\ m < k => id[s[m]] # id[s[k]]
Linked(s, id, out, in, now) ==
    /\ \A k \in DOMAIN s : Latest(s, id, k) => out[s[k]] = now[id[s[k]]]
    /\ \A j, k \in DOMAIN s : Adjacent(s, id, j, k) => out[s[j]] = in[s[k]]

Ids == [t \in DOMAIN txns |-> txns[t].id]
Befores == [t \in DOMAIN txns |-> Before(txns[t])]
Afters == [t \in DOMAIN txns |-> After(txns[t])]

\* The two stacks are one line, in which "now" is between them.
Line(now) ==
    /\ \A i \in Items :
        /\ wanted[i] = Where(now[i])
        /\ now[i] = NoItem \/ (now[i].cal \in Cals /\ now[i].ver # 0)
    /\ \A t \in DOMAIN txns : Sound(txns[t])
    /\ Linked(undos, Ids, Afters, Befores, now)
    /\ Linked(redos, Ids, Befores, Afters, now)

\* An item is in one calendar, or in none; while it is moved it may be in both.
Holds(i, it) == \A c \in Cals : cals[c][i] = IF it.cal = c THEN Content(it) ELSE Gone
HoldsBoth(i, it, old) ==
    \A c \in Cals : cals[c][i] = IF it.cal = c THEN Content(it)
                                 ELSE IF old.cal = c THEN Content(old) ELSE Gone

Quiet(now) ==
    /\ calls = <<>>
    /\ \A i \in Items : Holds(i, now[i])
    /\ \A t \in DOMAIN txns : Settled(txns[t])

\* How far a transaction has come.
Redoing(t, x, now) ==
    /\ x.isDo /\ now[x.id] = After(x)
    /\ \/ calls = DoCalls(t, x) /\ Holds(x.id, Before(x))
       \/ /\ Moves(x) /\ calls = <<Ask("delete", x.old.cal, t, x.id, x.old, NoItem)>>
          /\ HoldsBoth(x.id, x.item, x.old)
Undoing(t, x, now) ==
    /\ ~x.isDo /\ now[x.id] = Before(x) /\ Settled(x)
    /\ \/ calls = UndoCalls(t, x) /\ Holds(x.id, After(x))
       \/ /\ Moves(x) /\ calls = <<Ask("delete", x.cal, t, x.id, x.item, NoItem)>>
          /\ HoldsBoth(x.id, x.item, x.old)
       \/ /\ Moves(x) /\ calls = <<Ask("add", x.oldCal, t, x.id, x.old, NoItem)>>
          /\ Holds(x.id, NoItem)
Busy(t, x, now) ==
    /\ x = txns[t]
    /\ \A i \in Items : i # x.id => Holds(i, now[i])
    /\ \A u \in DOMAIN txns : u # t => Settled(txns[u])
    /\ Redoing(t, x, now) \/ Undoing(t, x, now)

SInv ==
    ~refused => \E now \in [Items -> Item] :
        Line(now) /\ (Quiet(now) \/ \E t \in DOMAIN txns, x \in Txn : Busy(t, x, now))

-----------------------------------------------------------------------------
(* Linked stacks *)

\* A transaction is put on a stack: what is now is what it leads to.
LEMMA PushLinked ==
    ASSUME NEW D, NEW s \in Seq(D), NEW id \in [D -> Items], NEW out \in [D -> Item],
           NEW in \in [D -> Item], NEW now \in [Items -> Item], Linked(s, id, out, in, now),
           NEW t \in D, in[t] = now[id[t]]
    PROVE  Linked(Append(s, t), id, out, in, [now EXCEPT ![id[t]] = out[t]])
<1> DEFINE a == Append(s, t)
           then == [now EXCEPT ![id[t]] = out[t]]
           n == Len(s)
<1>1. n \in Nat /\ DOMAIN s = 1 .. n /\ \A k \in 1 .. n : s[k] \in D
  OBVIOUS
<1>2. DOMAIN a = 1 .. n + 1 /\ a[n + 1] = t /\ \A k \in 1 .. n : a[k] = s[k]
  BY <1>1
<1>3. then[id[t]] = out[t] /\ \A i \in Items : i # id[t] => then[i] = now[i]
  OBVIOUS
<1> HIDE DEF a, then, n
<1>4. ASSUME NEW k \in DOMAIN a, Latest(a, id, k) PROVE out[a[k]] = then[id[a[k]]]
  <2>1. CASE k = n + 1
    BY <1>2, <1>3, <2>1
  <2>2. CASE k \in 1 .. n
    <3>1. id[s[k]] # id[t]
      BY <1>1, <1>2, <1>4, <2>2 DEF Latest
    <3>2. Latest(s, id, k)
      BY <1>1, <1>2, <1>4, <2>2 DEF Latest
    <3>3. out[s[k]] = now[id[s[k]]]
      BY <1>1, <2>2, <3>2 DEF Linked
    <3>4. id[s[k]] \in Items
      BY <1>1, <2>2
    <3> QED
      BY <1>2, <1>3, <2>2, <3>1, <3>3, <3>4
  <2> QED
    BY <1>1, <1>2, <2>1, <2>2
<1>5. ASSUME NEW j \in DOMAIN a, NEW k \in DOMAIN a, Adjacent(a, id, j, k) PROVE out[a[j]] = in[a[k]]
  <2>1. j \in 1 .. n
    BY <1>1, <1>2, <1>5 DEF Adjacent
  <2>2. CASE k = n + 1
    <3>1. id[s[j]] = id[t] /\ Latest(s, id, j)
      BY <1>1, <1>2, <1>5, <2>1, <2>2 DEF Adjacent, Latest
    <3>2. out[s[j]] = now[id[s[j]]]
      BY <1>1, <2>1, <3>1 DEF Linked
    <3> QED
      BY <1>2, <2>1, <2>2, <3>1, <3>2
  <2>3. CASE k \in 1 .. n
    <3>1. Adjacent(s, id, j, k)
      BY <1>1, <1>2, <1>5, <2>1, <2>3 DEF Adjacent
    <3>2. out[s[j]] = in[s[k]]
      BY <1>1, <2>1, <2>3, <3>1 DEF Linked
    <3> QED
      BY <1>2, <2>1, <2>3, <3>2
  <2> QED
    BY <1>1, <1>2, <2>2, <2>3
<1> QED
  BY <1>4, <1>5 DEF Linked, a, then

\* A transaction is taken from a stack: what is now is what it came from.
LEMMA PopLinked ==
    ASSUME NEW D, NEW s \in Seq(D), NEW id \in [D -> Items], NEW out \in [D -> Item],
           NEW in \in [D -> Item], NEW now \in [Items -> Item], Linked(s, id, out, in, now),
           s # <<>>
    PROVE  /\ now[id[Last(s)]] = out[Last(s)]
           /\ Linked(Front(s), id, out, in, [now EXCEPT ![id[Last(s)]] = in[Last(s)]])
<1> DEFINE f == Front(s)
           t == Last(s)
           then == [now EXCEPT ![id[t]] = in[t]]
           n == Len(s)
<1>1. n \in Nat /\ n >= 1 /\ DOMAIN s = 1 .. n /\ \A k \in 1 .. n : s[k] \in D
  OBVIOUS
<1>2. DOMAIN f = 1 .. n - 1 /\ s[n] = t /\ t \in D /\ \A k \in 1 .. n - 1 : f[k] = s[k]
  <2>1. /\ Front(s) \in Seq(D) /\ Len(Front(s)) = Len(s) - 1
        /\ \A k \in 1 .. Len(s) - 1 : Front(s)[k] = s[k]
        /\ Len(s) \in DOMAIN s /\ Last(s) = s[Len(s)] /\ Last(s) \in D
    BY FrontAndLast
  <2> QED
    BY <2>1
<1>3. then[id[t]] = in[t] /\ \A i \in Items : i # id[t] => then[i] = now[i]
  BY <1>2
<1> HIDE DEF f, then, n, t
<1>4. now[id[t]] = out[t]
  <2>1. n \in DOMAIN s /\ Latest(s, id, n)
    BY <1>1 DEF Latest
  <2> QED
    BY <1>2, <2>1 DEF Linked
<1>5. ASSUME NEW k \in DOMAIN f, Latest(f, id, k) PROVE out[f[k]] = then[id[f[k]]]
  <2>1. k \in 1 .. n - 1 /\ k \in DOMAIN s /\ n \in DOMAIN s /\ k < n /\ id[s[k]] \in Items
    BY <1>1, <1>2
  <2>2. CASE id[s[k]] = id[t]
    <3>1. Adjacent(s, id, k, n)
      BY <1>1, <1>2, <1>5, <2>1, <2>2 DEF Latest, Adjacent
    <3>2. out[s[k]] = in[s[n]]
      BY <2>1, <3>1 DEF Linked
    <3> QED
      BY <1>2, <1>3, <2>1, <2>2, <3>2
  <2>3. CASE id[s[k]] # id[t]
    <3>1. Latest(s, id, k)
      BY <1>1, <1>2, <1>5, <2>1, <2>3 DEF Latest
    <3>2. out[s[k]] = now[id[s[k]]]
      BY <2>1, <3>1 DEF Linked
    <3> QED
      BY <1>2, <1>3, <2>1, <2>3, <3>2
  <2> QED
    BY <2>2, <2>3
<1>6. ASSUME NEW j \in DOMAIN f, NEW k \in DOMAIN f, Adjacent(f, id, j, k) PROVE out[f[j]] = in[f[k]]
  <2>1. j \in DOMAIN s /\ k \in DOMAIN s /\ f[j] = s[j] /\ f[k] = s[k]
    BY <1>1, <1>2
  <2>2. Adjacent(s, id, j, k)
    BY <1>1, <1>2, <1>6, <2>1 DEF Adjacent
  <2> QED
    BY <2>1, <2>2 DEF Linked
<1> QED
  BY <1>4, <1>5, <1>6 DEF Linked, f, t, then

\* The links are those of the transactions on the stack.
LEMMA SameLinked ==
    ASSUME NEW D, NEW s \in Seq(D), NEW id, NEW id2, NEW out, NEW out2, NEW in, NEW in2, NEW now,
           \A t \in D : id2[t] = id[t] /\ out2[t] = out[t] /\ in2[t] = in[t],
           Linked(s, id, out, in, now)
    PROVE  Linked(s, id2, out2, in2, now)
<1>1. \A k \in DOMAIN s : s[k] \in D
  OBVIOUS
<1>2. \A k \in DOMAIN s : id2[s[k]] = id[s[k]] /\ out2[s[k]] = out[s[k]] /\ in2[s[k]] = in[s[k]]
  BY <1>1
<1>3. \A k \in DOMAIN s : Latest(s, id2, k) => Latest(s, id, k)
  BY <1>2 DEF Latest
<1>4. \A j, k \in DOMAIN s : Adjacent(s, id2, j, k) => Adjacent(s, id, j, k)
  BY <1>2 DEF Adjacent
<1> QED
  BY <1>2, <1>3, <1>4 DEF Linked

LEMMA NothingLinked == ASSUME NEW id, NEW out, NEW in, NEW now PROVE Linked(<<>>, id, out, in, now)
<1>1. DOMAIN <<>> = {}
  OBVIOUS
<1> QED
  BY <1>1 DEF Linked

-----------------------------------------------------------------------------
(* The line of transactions *)

LEMMA EndsTyped ==
    ASSUME NEW x \in Txn
    PROVE  Before(x) \in Item /\ After(x) \in Item
<1>1. x.item \in Item /\ x.old \in Item /\ x.item.gen \in Nat
  BY DEF Txn, Item
<1>2. [x.item EXCEPT !.gen = x.item.gen + 1] \in Item
  BY <1>1 DEF Item
<1> QED
  BY <1>1, <1>2, NoItemTyped DEF Before, After

LEMMA EndsOfTxns ==
    ASSUME IInv
    PROVE  /\ Ids \in [DOMAIN txns -> Items]
           /\ Befores \in [DOMAIN txns -> Item] /\ Afters \in [DOMAIN txns -> Item]
           /\ undos \in Seq(DOMAIN txns) /\ redos \in Seq(DOMAIN txns)
<1>1. \A t \in DOMAIN txns : txns[t] \in Txn /\ txns[t].id \in Items
  <2>1. \A t \in DOMAIN txns : txns[t] \in Txn
    BY DEF IInv, Typed
  <2> QED
    BY <2>1 DEF Txn
<1>2. \A t \in DOMAIN txns : Before(txns[t]) \in Item /\ After(txns[t]) \in Item
  BY <1>1, EndsTyped
<1>3. DOMAIN txns = 1 .. Len(txns)
  BY DEF IInv, Typed
<1> QED
  BY <1>1, <1>2, <1>3 DEF Ids, Befores, Afters, IInv, Typed

\* The transactions are the same, as far as the line is concerned.
SameEnds ==
    /\ DOMAIN txns' = DOMAIN txns
    /\ \A t \in DOMAIN txns :
        /\ txns'[t].id = txns[t].id
        /\ Before(txns'[t]) = Before(txns[t]) /\ After(txns'[t]) = After(txns[t])
        /\ Sound(txns'[t])

LEMMA SameEndsSame ==
    ASSUME SameEnds
    PROVE  \A t \in DOMAIN txns :
            Ids'[t] = Ids[t] /\ Befores'[t] = Befores[t] /\ Afters'[t] = Afters[t]
BY DEF SameEnds, Ids, Befores, Afters

LEMMA LineStays ==
    ASSUME IInv, SameEnds, UNCHANGED <<undos, redos, wanted>>, NEW now \in [Items -> Item], Line(now)
    PROVE  Line(now)'
<1>1. undos \in Seq(DOMAIN txns) /\ redos \in Seq(DOMAIN txns)
  BY EndsOfTxns
<1>2. \A t \in DOMAIN txns :
        Ids'[t] = Ids[t] /\ Befores'[t] = Befores[t] /\ Afters'[t] = Afters[t]
  BY SameEndsSame
<1>3. Linked(undos, Ids, Afters, Befores, now) /\ Linked(redos, Ids, Befores, Afters, now)
  BY DEF Line
<1>4. Linked(undos, Ids', Afters', Befores', now)
  BY <1>1, <1>2, <1>3, SameLinked
<1>5. Linked(redos, Ids', Befores', Afters', now)
  BY <1>1, <1>2, <1>3, SameLinked
<1>6. \A i \in Items : wanted'[i] = Where(now[i]) /\ (now[i] = NoItem \/ (now[i].cal \in Cals /\ now[i].ver # 0))
  BY DEF Line
<1>7. \A t \in DOMAIN txns' : Sound(txns'[t])
  BY DEF SameEnds
<1>8. undos' = undos /\ redos' = redos
  OBVIOUS
<1> QED
  BY <1>4, <1>5, <1>6, <1>7, <1>8 DEF Line

\* What is done to the item of a transaction at the top of a stack: of "now", which is what the
\* one side leads to, it makes the other side.
LEMMA UndoLine ==
    ASSUME IInv, SameEnds, undos # <<>>, NEW t, t = Last(undos),
           undos' = Front(undos), redos' = Append(redos, t),
           wanted' = [wanted EXCEPT ![txns[t].id] = txns[t].was],
           NEW now \in [Items -> Item], Line(now)
    PROVE  /\ t \in DOMAIN txns /\ now[txns[t].id] = After(txns[t])
           /\ \E next \in [Items -> Item] :
                next = [now EXCEPT ![txns[t].id] = Before(txns[t])] /\ Line(next)'
<1>1. /\ Ids \in [DOMAIN txns -> Items]
      /\ Befores \in [DOMAIN txns -> Item] /\ Afters \in [DOMAIN txns -> Item]
      /\ undos \in Seq(DOMAIN txns) /\ redos \in Seq(DOMAIN txns)
  BY EndsOfTxns
<1>2. t \in DOMAIN txns /\ Front(undos) \in Seq(DOMAIN txns) /\ Append(redos, t) \in Seq(DOMAIN txns)
  BY <1>1, FrontAndLast
<1>3. \A u \in DOMAIN txns :
        Ids'[u] = Ids[u] /\ Befores'[u] = Befores[u] /\ Afters'[u] = Afters[u]
  BY SameEndsSame
<1>4. Linked(undos, Ids, Afters, Befores, now) /\ Linked(redos, Ids, Befores, Afters, now)
  BY DEF Line
<1>5. PICK next \in [Items -> Item] :
        next = [now EXCEPT ![txns[t].id] = Before(txns[t])]
  <2>1. txns[t].id \in Items /\ Before(txns[t]) \in Item
    <3>1. txns[t] \in Txn
      BY <1>2 DEF IInv, Typed
    <3> QED
      BY <3>1, EndsTyped DEF Txn
  <2> QED
    BY <2>1
<1>6. Ids[t] = txns[t].id /\ Befores[t] = Before(txns[t]) /\ Afters[t] = After(txns[t])
  BY <1>2 DEF Ids, Befores, Afters
<1>7. now[txns[t].id] = After(txns[t]) /\ Linked(Front(undos), Ids, Afters, Befores, next)
  <2>1. /\ now[Ids[Last(undos)]] = Afters[Last(undos)]
        /\ Linked(Front(undos), Ids, Afters, Befores, [now EXCEPT ![Ids[Last(undos)]] = Befores[Last(undos)]])
    BY <1>1, <1>4, PopLinked
  <2> QED
    BY <1>5, <1>6, <2>1
<1>8. Linked(Append(redos, t), Ids, Befores, Afters, next)
  <2>1. Linked(redos, Ids, Befores, Afters, now) /\ Afters[t] = now[Ids[t]]
    BY <1>4, <1>6, <1>7
  <2>2. Linked(Append(redos, t), Ids, Befores, Afters, [now EXCEPT ![Ids[t]] = Befores[t]])
    BY <1>1, <1>2, <2>1, PushLinked
  <2> QED
    BY <1>5, <1>6, <2>2
<1>9. Linked(Front(undos), Ids', Afters', Befores', next)
  BY <1>2, <1>3, <1>7, SameLinked
<1>10. Linked(Append(redos, t), Ids', Befores', Afters', next)
  <2>1. PICK s \in Seq(DOMAIN txns) : s = Append(redos, t)
    BY <1>2
  <2>2. Linked(s, Ids, Befores, Afters, next)
    BY <1>8, <2>1
  <2>3. Linked(s, Ids', Befores', Afters', next)
    BY <1>3, <2>2, SameLinked
  <2> QED
    BY <2>1, <2>3
<1>11. ASSUME NEW i \in Items
       PROVE  wanted'[i] = Where(next[i]) /\ (next[i] = NoItem \/ (next[i].cal \in Cals /\ next[i].ver # 0))
  <2>1. wanted \in [Items -> Place] /\ txns[t].id \in Items
    BY <1>2, <1>1, <1>6 DEF IInv, Typed
  <2>2. CASE i = txns[t].id
    <3>1. next[i] = Before(txns[t]) /\ wanted'[i] = txns[t].was
      BY <1>5, <2>1, <2>2
    <3>2. txns[t].was = Where(Before(txns[t])) /\ txns[t].item.cal = txns[t].cal
      BY <1>2 DEF Line, Sound
    <3>3. Before(txns[t]) = NoItem \/ (Before(txns[t]).cal \in Cals /\ Before(txns[t]).ver # 0)
      <4>1. txns[t] \in Txn /\ TxnFits(txns[t])
        BY <1>2 DEF IInv, Typed, Fits
      <4> QED
        BY <3>2, <4>1 DEF Before, TxnFits, Txn
    <3> QED
      BY <3>1, <3>2, <3>3
  <2>3. CASE i # txns[t].id
    <3>1. next[i] = now[i] /\ wanted'[i] = wanted[i]
      BY <1>5, <2>1, <2>3
    <3> QED
      BY <3>1 DEF Line
  <2> QED
    BY <2>2, <2>3
<1>12. \A u \in DOMAIN txns' : Sound(txns'[u])
  BY DEF SameEnds
<1>13. Line(next)'
  BY <1>9, <1>10, <1>11, <1>12 DEF Line
<1> QED
  BY <1>2, <1>5, <1>7, <1>13

LEMMA RedoLine ==
    ASSUME IInv, SameEnds, redos # <<>>, NEW t, t = Last(redos),
           redos' = Front(redos), undos' = Append(undos, t),
           wanted' = [wanted EXCEPT ![txns[t].id] = txns[t].is],
           NEW now \in [Items -> Item], Line(now)
    PROVE  /\ t \in DOMAIN txns /\ now[txns[t].id] = Before(txns[t])
           /\ \E next \in [Items -> Item] :
                next = [now EXCEPT ![txns[t].id] = After(txns[t])] /\ Line(next)'
<1>1. /\ Ids \in [DOMAIN txns -> Items]
      /\ Befores \in [DOMAIN txns -> Item] /\ Afters \in [DOMAIN txns -> Item]
      /\ undos \in Seq(DOMAIN txns) /\ redos \in Seq(DOMAIN txns)
  BY EndsOfTxns
<1>2. t \in DOMAIN txns /\ Front(redos) \in Seq(DOMAIN txns) /\ Append(undos, t) \in Seq(DOMAIN txns)
  BY <1>1, FrontAndLast
<1>3. \A u \in DOMAIN txns :
        Ids'[u] = Ids[u] /\ Befores'[u] = Befores[u] /\ Afters'[u] = Afters[u]
  BY SameEndsSame
<1>4. Linked(undos, Ids, Afters, Befores, now) /\ Linked(redos, Ids, Befores, Afters, now)
  BY DEF Line
<1>5. PICK next \in [Items -> Item] :
        next = [now EXCEPT ![txns[t].id] = After(txns[t])]
  <2>1. txns[t].id \in Items /\ After(txns[t]) \in Item
    <3>1. txns[t] \in Txn
      BY <1>2 DEF IInv, Typed
    <3> QED
      BY <3>1, EndsTyped DEF Txn
  <2> QED
    BY <2>1
<1>6. Ids[t] = txns[t].id /\ Befores[t] = Before(txns[t]) /\ Afters[t] = After(txns[t])
  BY <1>2 DEF Ids, Befores, Afters
<1>7. now[txns[t].id] = Before(txns[t]) /\ Linked(Front(redos), Ids, Befores, Afters, next)
  <2>1. /\ now[Ids[Last(redos)]] = Befores[Last(redos)]
        /\ Linked(Front(redos), Ids, Befores, Afters, [now EXCEPT ![Ids[Last(redos)]] = Afters[Last(redos)]])
    BY <1>1, <1>4, PopLinked
  <2> QED
    BY <1>5, <1>6, <2>1
<1>8. Linked(Append(undos, t), Ids, Afters, Befores, next)
  <2>1. Linked(undos, Ids, Afters, Befores, now) /\ Befores[t] = now[Ids[t]]
    BY <1>4, <1>6, <1>7
  <2>2. Linked(Append(undos, t), Ids, Afters, Befores, [now EXCEPT ![Ids[t]] = Afters[t]])
    BY <1>1, <1>2, <2>1, PushLinked
  <2> QED
    BY <1>5, <1>6, <2>2
<1>9. Linked(Front(redos), Ids', Befores', Afters', next)
  BY <1>2, <1>3, <1>7, SameLinked
<1>10. Linked(Append(undos, t), Ids', Afters', Befores', next)
  <2>1. PICK s \in Seq(DOMAIN txns) : s = Append(undos, t)
    BY <1>2
  <2>2. Linked(s, Ids, Afters, Befores, next)
    BY <1>8, <2>1
  <2>3. Linked(s, Ids', Afters', Befores', next)
    BY <1>3, <2>2, SameLinked
  <2> QED
    BY <2>1, <2>3
<1>11. ASSUME NEW i \in Items
       PROVE  wanted'[i] = Where(next[i]) /\ (next[i] = NoItem \/ (next[i].cal \in Cals /\ next[i].ver # 0))
  <2>1. wanted \in [Items -> Place] /\ txns[t].id \in Items
    BY <1>2, <1>1, <1>6 DEF IInv, Typed
  <2>2. CASE i = txns[t].id
    <3>1. next[i] = After(txns[t]) /\ wanted'[i] = txns[t].is
      BY <1>5, <2>1, <2>2
    <3>2. txns[t].is = Where(After(txns[t])) /\ txns[t].item.cal = txns[t].cal
      BY <1>2 DEF Line, Sound
    <3>3. After(txns[t]) = NoItem \/ (After(txns[t]).cal \in Cals /\ After(txns[t]).ver # 0)
      <4>0. txns[t] \in Txn /\ TxnFits(txns[t])
        BY <1>2 DEF IInv, Typed, Fits
      <4>1. txns[t] \in Txn /\ TxnFits(txns[t]) /\ txns[t].item \in Item
        BY <4>0 DEF Txn
      <4>2. txns[t].item.cal \in Cals /\ txns[t].item.ver # 0
        BY <3>2, <4>1 DEF TxnFits, Txn
      <4>3. [txns[t].item EXCEPT !.gen = txns[t].item.gen + 1].cal = txns[t].item.cal
        /\ [txns[t].item EXCEPT !.gen = txns[t].item.gen + 1].ver = txns[t].item.ver
        BY <4>1 DEF Item
      <4> QED
        BY <4>2, <4>3 DEF After
    <3> QED
      BY <3>1, <3>2, <3>3
  <2>3. CASE i # txns[t].id
    <3>1. next[i] = now[i] /\ wanted'[i] = wanted[i]
      BY <1>5, <2>1, <2>3
    <3> QED
      BY <3>1 DEF Line
  <2> QED
    BY <2>2, <2>3
<1>12. \A u \in DOMAIN txns' : Sound(txns'[u])
  BY DEF SameEnds
<1>13. Line(next)'
  BY <1>9, <1>10, <1>11, <1>12 DEF Line
<1> QED
  BY <1>2, <1>5, <1>7, <1>13

LEMMA CommitLine ==
    ASSUME IInv, NEW y \in Txn, TxnFits(y), Sound(y), txns' = Append(txns, y),
           undos' = Append(undos, Len(txns) + 1), redos' = <<>>,
           wanted' = [wanted EXCEPT ![y.id] = y.is],
           NEW now \in [Items -> Item], Line(now), now[y.id] = Before(y)
    PROVE  \E next \in [Items -> Item] : next = [now EXCEPT ![y.id] = After(y)] /\ Line(next)'
<1> DEFINE t == Len(txns) + 1
<1>1. /\ undos \in Seq(DOMAIN txns) /\ Len(txns) \in Nat /\ DOMAIN txns = 1 .. Len(txns)
  BY EndsOfTxns DEF IInv, Typed
<1>2. /\ DOMAIN txns' = 1 .. t /\ txns'[t] = y /\ \A u \in DOMAIN txns : txns'[u] = txns[u]
      /\ \A u \in DOMAIN txns' : txns'[u] \in Txn
  <2>1. txns \in Seq(Txn)
    BY DEF IInv, Typed
  <2> QED
    BY <1>1, <2>1
<1> HIDE DEF t
<1>3. DOMAIN txns \subseteq 1 .. t /\ t \in 1 .. t
  BY <1>1 DEF t
<1>4. Ids' \in [1 .. t -> Items] /\ Befores' \in [1 .. t -> Item] /\ Afters' \in [1 .. t -> Item]
  <2>1. \A u \in 1 .. t : txns'[u].id \in Items
    BY <1>2 DEF Txn
  <2>2. \A u \in 1 .. t : Before(txns'[u]) \in Item /\ After(txns'[u]) \in Item
    BY <1>2, EndsTyped
  <2> QED
    BY <1>2, <2>1, <2>2 DEF Ids, Befores, Afters
<1>5. Ids'[t] = y.id /\ Befores'[t] = Before(y) /\ Afters'[t] = After(y)
  BY <1>2, <1>3, <1>4 DEF Ids, Befores, Afters
<1>6. \A u \in DOMAIN txns : Ids'[u] = Ids[u] /\ Befores'[u] = Befores[u] /\ Afters'[u] = Afters[u]
  BY <1>2, <1>3, <1>4 DEF Ids, Befores, Afters
<1>7. Linked(undos, Ids', Afters', Befores', now)
  <2>1. Linked(undos, Ids, Afters, Befores, now)
    BY DEF Line
  <2>2. PICK D : D = DOMAIN txns
    OBVIOUS
  <2>3. undos \in Seq(D) /\ \A u \in D : Ids'[u] = Ids[u] /\ Befores'[u] = Befores[u] /\ Afters'[u] = Afters[u]
    BY <1>1, <1>6, <2>2
  <2> QED
    BY <2>1, <2>3, SameLinked
<1>8. PICK next \in [Items -> Item] : next = [now EXCEPT ![y.id] = After(y)]
  BY EndsTyped DEF Txn
<1>9. Linked(Append(undos, t), Ids', Afters', Befores', next)
  <2>1. undos \in Seq(1 .. t)
    BY <1>1 DEF IInv, Typed, t
  <2>2. Befores'[t] = now[Ids'[t]]
    BY <1>5
  <2>3. Linked(Append(undos, t), Ids', Afters', Befores', [now EXCEPT ![Ids'[t]] = Afters'[t]])
    BY <1>3, <1>4, <1>7, <2>1, <2>2, PushLinked
  <2> QED
    BY <1>5, <1>8, <2>3
<1>10. Linked(redos', Ids', Befores', Afters', next)
  BY NothingLinked
<1>11. ASSUME NEW i \in Items
       PROVE  wanted'[i] = Where(next[i]) /\ (next[i] = NoItem \/ (next[i].cal \in Cals /\ next[i].ver # 0))
  <2>1. wanted \in [Items -> Place] /\ y.id \in Items
    BY DEF IInv, Typed, Txn
  <2>2. CASE i = y.id
    <3>1. next[i] = After(y) /\ wanted'[i] = y.is
      BY <1>8, <2>1, <2>2
    <3>2. y.is = Where(After(y)) /\ y.item.cal = y.cal
      BY DEF Sound
    <3>3. After(y) = NoItem \/ (After(y).cal \in Cals /\ After(y).ver # 0)
      <4>1. y.item \in Item /\ y.item.cal \in Cals /\ y.item.ver # 0
        BY <3>2 DEF TxnFits, Txn
      <4>3. [y.item EXCEPT !.gen = y.item.gen + 1].cal = y.item.cal
        /\ [y.item EXCEPT !.gen = y.item.gen + 1].ver = y.item.ver
        BY <4>1 DEF Item
      <4> QED
        BY <4>1, <4>3 DEF After
    <3> QED
      BY <3>1, <3>2, <3>3
  <2>3. CASE i # y.id
    <3>1. next[i] = now[i] /\ wanted'[i] = wanted[i]
      BY <1>8, <2>1, <2>3
    <3> QED
      BY <3>1 DEF Line
  <2> QED
    BY <2>2, <2>3
<1>12. \A u \in DOMAIN txns' : Sound(txns'[u])
  <2>1. ASSUME NEW u \in 1 .. t PROVE u = t \/ u \in DOMAIN txns
    BY <1>1, <2>1 DEF t
  <2> QED
    BY <1>2, <2>1 DEF Line
<1>13. Line(next)'
  <2>1. Linked(undos', Ids', Afters', Befores', next)
    BY <1>9 DEF t
  <2>2. Linked(redos', Ids', Befores', Afters', next)
    BY <1>10
  <2> QED
    BY <2>1, <2>2, <1>11, <1>12 DEF Line
<1> QED
  BY <1>8, <1>13

-----------------------------------------------------------------------------
(* What doing, undoing and answers leave of a transaction *)

\* A transaction as it is before it has been done for the first time.
Fresh(x) ==
    /\ x.item.cal = x.cal
    /\ x.was = Where(Before(x)) /\ x.is = Where(After(x))

LEMMA DoneEnds ==
    ASSUME NEW x \in Txn, Fresh(x)
    PROVE  /\ Before(Done(x)) = Before(x) /\ After(Done(x)) = After(x)
           /\ Settled(Done(x)) = Settled(x) /\ Moves(Done(x)) = Moves(x) /\ Sound(Done(x))
           /\ Done(x).was = x.was /\ Done(x).is = x.is
           /\ \A t : DoCalls(t, Done(x)) = DoCalls(t, x)
<1>1. /\ Done(x).isDo /\ Done(x).id = x.id /\ Done(x).cal = x.cal /\ Done(x).action = x.action
      /\ Done(x).item = x.item /\ Done(x).old = x.old
      /\ Done(x).was = x.was /\ Done(x).is = x.is
      /\ Done(x).oldCal = IF Moves(x) THEN x.old.cal ELSE x.oldCal
  BY DEF Done, Txn
<1>2. Moves(Done(x)) = Moves(x)
  BY <1>1 DEF Moves
<1>3. Settled(Done(x)) = Settled(x)
  BY <1>1, <1>2 DEF Settled
<1>4. Before(Done(x)) = Before(x) /\ After(Done(x)) = After(x)
  BY <1>1, <1>3 DEF Before, After
<1>5. Sound(Done(x))
  BY <1>1, <1>2, <1>4 DEF Sound, Fresh
<1>6. ASSUME NEW t PROVE DoCalls(t, Done(x)) = DoCalls(t, x)
  BY <1>1, <1>2 DEF DoCalls
<1> QED
  BY <1>1, <1>2, <1>3, <1>4, <1>5, <1>6

LEMMA UndoneEnds ==
    ASSUME NEW x \in Txn, Sound(x)
    PROVE  /\ Before(Undone(x)) = Before(x) /\ After(Undone(x)) = After(x)
           /\ Settled(Undone(x)) = Settled(x) /\ Moves(Undone(x)) = Moves(x) /\ Sound(Undone(x))
           /\ Undone(x).id = x.id
           /\ \A t : UndoCalls(t, Undone(x)) = UndoCalls(t, x)
<1>1. /\ ~Undone(x).isDo /\ Undone(x).id = x.id /\ Undone(x).cal = x.cal /\ Undone(x).action = x.action
      /\ Undone(x).item = x.item /\ Undone(x).old = x.old
      /\ Undone(x).was = x.was /\ Undone(x).is = x.is /\ Undone(x).oldCal = x.oldCal
  BY DEF Undone, Txn
<1>2. Moves(Undone(x)) = Moves(x)
  BY <1>1 DEF Moves
<1>3. Settled(Undone(x)) = Settled(x)
  BY <1>1, <1>2 DEF Settled
<1>4. Before(Undone(x)) = Before(x) /\ After(Undone(x)) = After(x)
  BY <1>1, <1>3 DEF Before, After
<1>5. Sound(Undone(x))
  BY <1>1, <1>2, <1>4 DEF Sound
<1>6. ASSUME NEW t PROVE UndoCalls(t, Undone(x)) = UndoCalls(t, x)
  BY <1>1, <1>2 DEF UndoCalls
<1> QED
  BY <1>1, <1>2, <1>3, <1>4, <1>5, <1>6

\* An item that is added to its own calendar is there as it is.
LEMMA ResultOfAdd ==
    ASSUME NEW c \in Call, c.op = "add", c.item.cal = c.cal
    PROVE  Result(c) = c.item /\ Contents(c) = Content(c.item)
<1>1. c.item \in Item
  BY DEF Call
<1> DEFINE moved == [c.item EXCEPT !.cal = c.cal]
<1>2. moved = c.item
  BY <1>1 DEF Item
<1>3. Result(c) = [moved EXCEPT !.gen = c.item.gen]
  BY <1>1 DEF Result, Item
<1>4. Result(c) = c.item
  BY <1>1, <1>2, <1>3 DEF Item
<1> QED
  BY <1>4 DEF Contents, Content

\* One that is changed has a generation of its own.
LEMMA ResultOfModify ==
    ASSUME NEW c \in Call, c.op = "modify", c.item.cal = c.cal
    PROVE  /\ Result(c) = IF c.item.gen = c.old.gen THEN [c.item EXCEPT !.gen = @ + 1] ELSE c.item
           /\ Contents(c) = Content(Result(c))
<1>1. c.item \in Item
  BY DEF Call
<1> DEFINE moved == [c.item EXCEPT !.cal = c.cal]
           g == IF c.item.gen = c.old.gen THEN c.item.gen + 1 ELSE c.item.gen
<1>2. moved = c.item
  BY <1>1 DEF Item
<1>3. Result(c) = [moved EXCEPT !.gen = g]
  BY <1>1 DEF Result, Item
<1>4. CASE c.item.gen = c.old.gen
  <2>1. g = c.item.gen + 1
    BY <1>4
  <2> HIDE DEF g, moved
  <2>2. Result(c) = [c.item EXCEPT !.gen = c.item.gen + 1]
    BY <1>2, <1>3, <2>1
  <2> QED
    BY <1>4, <2>2 DEF Contents, Content
<1>5. CASE c.item.gen # c.old.gen
  <2>1. g = c.item.gen
    BY <1>5
  <2> HIDE DEF g, moved
  <2>2. Result(c) = [c.item EXCEPT !.gen = c.item.gen]
    BY <1>2, <1>3, <2>1
  <2>3. Result(c) = c.item
    BY <1>1, <2>2 DEF Item
  <2> QED
    BY <1>5, <2>3 DEF Contents, Content
<1> QED
  BY <1>4, <1>5

\* A transaction has learnt what leaves its ends as they are.
Same(x, y) ==
    /\ y.id = x.id
    /\ Before(y) = Before(x) /\ After(y) = After(x)
    /\ Sound(y) /\ Settled(y)

LEMMA LearnsOld ==
    ASSUME NEW x \in Txn, NEW c \in Call,
           c.op = "delete" \/ (x.isDo /\ Result(c) = x.item) \/ (~x.isDo /\ Result(c) = x.old)
    PROVE  Learn(x, c) = x
<1>1. [x EXCEPT !.item = x.item] = x /\ [x EXCEPT !.old = x.old] = x
  BY DEF Txn
<1> QED
  BY <1>1 DEF Learn

\* A deletion that is undone: the item is back as it was.
LEMMA DeletionUndone ==
    ASSUME NEW x \in Txn, Sound(x), x.action = "delete"
    PROVE  Same(x, [x EXCEPT !.old = x.item])
<1> DEFINE y == [x EXCEPT !.old = x.item]
<1>1. /\ y.id = x.id /\ y.action = x.action /\ y.item = x.item /\ y.cal = x.cal
      /\ y.was = x.was /\ y.is = x.is
  BY DEF Txn
<1> HIDE DEF y
<1>2. Before(y) = Before(x) /\ After(y) = After(x)
  BY <1>1 DEF Before, After
<1>3. Sound(y) /\ Settled(y)
  BY <1>1, <1>2 DEF Sound, Settled, Moves
<1>4. Same(x, y)
  BY <1>1, <1>2, <1>3 DEF Same
<1> QED
  BY <1>4 DEF y

\* A change that is made: the transaction has what it would have made.
LEMMA ChangeMade ==
    ASSUME NEW x \in Txn, Sound(x), x.action = "modify", ~Moves(x)
    PROVE  Same(x, [x EXCEPT !.item = After(x)])
<1> DEFINE y == [x EXCEPT !.item = After(x)]
<1>1. /\ y.id = x.id /\ y.action = x.action /\ y.item = After(x) /\ y.cal = x.cal /\ y.old = x.old
      /\ y.was = x.was /\ y.is = x.is
  BY DEF Txn
<1>2. x.item \in Item /\ x.old \in Item /\ x.item.gen \in Nat
  BY DEF Txn, Item
<1> HIDE DEF y
<1>3. After(x).cal = x.item.cal /\ After(x).gen # x.old.gen
  <2>1. CASE Settled(x)
    BY <2>1 DEF After, Settled
  <2>2. CASE ~Settled(x)
    <3>1. After(x) = [x.item EXCEPT !.gen = x.item.gen + 1] /\ x.item.gen = x.old.gen
      BY <2>2 DEF After, Settled
    <3>2. After(x).cal = x.item.cal /\ After(x).gen = x.item.gen + 1
      BY <1>2, <3>1 DEF Item
    <3> QED
      BY <1>2, <3>1, <3>2
  <2> QED
    BY <2>1, <2>2
<1>4. ~Moves(y) /\ Settled(y)
  BY <1>1, <1>3 DEF Moves, Settled
<1>5. Before(y) = Before(x) /\ After(y) = After(x)
  BY <1>1, <1>4 DEF Before, After
<1>6. Sound(y)
  BY <1>1, <1>3, <1>4, <1>5 DEF Sound
<1>7. Same(x, y)
  BY <1>1, <1>4, <1>5, <1>6 DEF Same
<1> QED
  BY <1>7 DEF y

-----------------------------------------------------------------------------
(* Answers *)

\* What an answer to c changes, apart from what is outstanding.
Answer(c, t, y) ==
    /\ \A b \in Cals, i \in Items :
        cals'[b][i] = IF b = c.cal /\ i = c.id THEN Contents(c) ELSE cals[b][i]
    /\ txns' = [txns EXCEPT ![t] = y]
    /\ UNCHANGED <<undos, redos, wanted, refused>>

LEMMA AnswerTo ==
    ASSUME IInv, Succeed
    PROVE  \E k \in DOMAIN calls :
            LET c == calls[k]
                y == Learn(txns[c.txn], c) IN
            c \in Call /\ Answer(c, c.txn, y) /\ calls' = RemoveAt(calls, k) \o Follow(y, c)
<1>1. PICK k \in DOMAIN calls :
        /\ cals' = [cals EXCEPT ![calls[k].cal][calls[k].id] = Contents(calls[k])]
        /\ txns' = [txns EXCEPT ![calls[k].txn] = Learn(txns[calls[k].txn], calls[k])]
        /\ calls' = RemoveAt(calls, k) \o Follow(Learn(txns[calls[k].txn], calls[k]), calls[k])
        /\ UNCHANGED <<undos, redos, wanted, refused>>
  BY DEF Succeed
<1>2. PICK c \in Call : c = calls[k]
  BY <1>1 DEF IInv, Typed
<1>3. c.cal \in Cals /\ c.id \in Items
  BY DEF Call
<1>4. cals' = [cals EXCEPT ![c.cal][c.id] = Contents(c)]
  BY <1>1, <1>2
<1>5. \A b \in Cals, i \in Items :
        cals'[b][i] = IF b = c.cal /\ i = c.id THEN Contents(c) ELSE cals[b][i]
  BY <1>3, <1>4 DEF IInv, Typed
<1>6. Answer(c, c.txn, Learn(txns[c.txn], c))
  BY <1>1, <1>2, <1>5 DEF Answer
<1> QED
  BY <1>1, <1>2, <1>6

LEMMA OneCall ==
    ASSUME IInv, Succeed, NEW c, calls = <<c>>
    PROVE  /\ Answer(c, c.txn, Learn(txns[c.txn], c))
           /\ calls' = Follow(Learn(txns[c.txn], c), c)
<1>1. DOMAIN <<c>> = {1} /\ <<c>>[1] = c
  OBVIOUS
<1>2. RemoveAt(<<c>>, 1) = <<>>
  <2>1. Len(<<c>>) = 1 /\ SubSeq(<<c>>, 1, 0) = <<>> /\ SubSeq(<<c>>, 2, 1) = <<>>
    OBVIOUS
  <2>2. RemoveAt(<<c>>, 1) = SubSeq(<<c>>, 1, 0) \o SubSeq(<<c>>, 2, 1)
    BY <2>1 DEF RemoveAt
  <2> QED
    BY <2>1, <2>2
<1>3. Answer(c, c.txn, Learn(txns[c.txn], c))
  BY <1>1, AnswerTo
<1>4. calls' = RemoveAt(calls, 1) \o Follow(Learn(txns[c.txn], c), c)
  BY <1>1, AnswerTo
<1>5. calls' = <<>> \o Follow(Learn(txns[c.txn], c), c)
  BY <1>2, <1>4
<1>6. \E S : Follow(Learn(txns[c.txn], c), c) \in Seq(S)
  <2>1. CASE c.then = "deleteOld"
    <3>1. PICK d : Follow(Learn(txns[c.txn], c), c) = <<d>>
      BY <2>1 DEF Follow
    <3>2. <<d>> \in Seq({d})
      OBVIOUS
    <3> QED
      BY <3>1, <3>2
  <2>2. CASE c.then # "deleteOld"
    <3>1. Follow(Learn(txns[c.txn], c), c) = <<>>
      BY <2>2 DEF Follow
    <3>2. <<>> \in Seq({})
      OBVIOUS
    <3> QED
      BY <3>1, <3>2
  <2> QED
    BY <2>1, <2>2
<1> QED
  BY <1>3, <1>5, <1>6, ConcatEmptySeq

LEMMA OneOf ==
    ASSUME NEW c, NEW d
    PROVE  SubSeq(<<c, d>>, 1, 1) = <<c>> /\ SubSeq(<<c, d>>, 2, 2) = <<d>>
<1>1. /\ <<c, d>> \in Seq({c, d}) /\ <<c, d>>[1] = c /\ <<c, d>>[2] = d
      /\ \A j \in 1 .. 1 : <<c, d>>[j] \in {c, d}
      /\ \A j \in 2 .. 2 : <<c, d>>[j] \in {c, d}
  OBVIOUS
<1>2. /\ SubSeq(<<c, d>>, 1, 1) \in Seq({c, d}) /\ Len(SubSeq(<<c, d>>, 1, 1)) = 1
      /\ SubSeq(<<c, d>>, 1, 1)[1] = c
  BY <1>1, SubSeqProperties
<1>3. /\ SubSeq(<<c, d>>, 2, 2) \in Seq({c, d}) /\ Len(SubSeq(<<c, d>>, 2, 2)) = 1
      /\ SubSeq(<<c, d>>, 2, 2)[1] = d
  BY <1>1, SubSeqProperties
<1>4. ASSUME NEW s \in Seq({c, d}), Len(s) = 1 PROVE s = <<s[1]>>
  BY <1>4
<1> QED
  BY <1>2, <1>3, <1>4

LEMMA TwoCalls ==
    ASSUME IInv, Succeed, NEW c, NEW d, calls = <<c, d>>, c.then = "done", d.then = "done"
    PROVE  \/ Answer(c, c.txn, Learn(txns[c.txn], c)) /\ calls' = <<d>>
           \/ Answer(d, d.txn, Learn(txns[d.txn], d)) /\ calls' = <<c>>
<1>1. DOMAIN <<c, d>> = {1, 2} /\ <<c, d>>[1] = c /\ <<c, d>>[2] = d
  OBVIOUS
<1>2. RemoveAt(<<c, d>>, 1) = <<d>>
  <2>1. Len(<<c, d>>) = 2 /\ SubSeq(<<c, d>>, 1, 0) = <<>> /\ <<>> \o <<d>> = <<d>>
    OBVIOUS
  <2>3. SubSeq(<<c, d>>, 2, 2) = <<d>>
    BY OneOf
  <2>2. RemoveAt(<<c, d>>, 1) = SubSeq(<<c, d>>, 1, 0) \o SubSeq(<<c, d>>, 2, 2)
    BY <2>1 DEF RemoveAt
  <2> QED
    BY <2>1, <2>2, <2>3
<1>3. RemoveAt(<<c, d>>, 2) = <<c>>
  <2>1. Len(<<c, d>>) = 2 /\ SubSeq(<<c, d>>, 3, 2) = <<>> /\ <<c>> \o <<>> = <<c>>
    OBVIOUS
  <2>3. SubSeq(<<c, d>>, 1, 1) = <<c>>
    BY OneOf
  <2>2. RemoveAt(<<c, d>>, 2) = SubSeq(<<c, d>>, 1, 1) \o SubSeq(<<c, d>>, 3, 2)
    BY <2>1 DEF RemoveAt
  <2> QED
    BY <2>1, <2>2, <2>3
<1>4. PICK k \in {1, 2} :
        /\ Answer(calls[k], calls[k].txn, Learn(txns[calls[k].txn], calls[k]))
        /\ calls' = RemoveAt(calls, k) \o Follow(Learn(txns[calls[k].txn], calls[k]), calls[k])
  BY <1>1, AnswerTo
<1>5. \A y : Follow(y, c) = <<>> /\ Follow(y, d) = <<>>
  BY DEF Follow
<1>6. <<c>> \o <<>> = <<c>> /\ <<d>> \o <<>> = <<d>>
  OBVIOUS
<1>7. CASE k = 1
  BY <1>1, <1>2, <1>4, <1>5, <1>6, <1>7
<1>8. CASE k = 2
  BY <1>1, <1>3, <1>4, <1>5, <1>6, <1>8
<1> QED
  BY <1>7, <1>8

LEMMA TxnAnswered ==
    ASSUME IInv, NEW now \in [Items -> Item], Line(now), NEW t \in DOMAIN txns, NEW y \in Txn,
           Same(txns[t], y), \A u \in DOMAIN txns : u # t => Settled(txns[u]), NEW c, Answer(c, t, y)
    PROVE  /\ Line(now)' /\ txns'[t] = y /\ DOMAIN txns' = DOMAIN txns
           /\ \A u \in DOMAIN txns' : Settled(txns'[u])
<1>1. txns' = [txns EXCEPT ![t] = y] /\ UNCHANGED <<undos, redos, wanted>>
  BY DEF Answer
<1>2. DOMAIN txns' = DOMAIN txns /\ txns'[t] = y /\ \A u \in DOMAIN txns : u # t => txns'[u] = txns[u]
  BY <1>1 DEF IInv, Typed
<1>3. \A u \in DOMAIN txns' : Settled(txns'[u])
  BY <1>2 DEF Same
<1>4. SameEnds
  <2>1. \A u \in DOMAIN txns : Sound(txns[u])
    BY DEF Line
  <2> QED
    BY <1>2, <2>1 DEF SameEnds, Same
<1>5. Line(now)'
  BY <1>1, <1>4, LineStays
<1> QED
  BY <1>2, <1>3, <1>5

LEMMA OthersStay ==
    ASSUME NEW c, NEW t, NEW y, Answer(c, t, y), NEW id, c.id = id, NEW now,
           \A i \in Items : i # id => Holds(i, now[i])
    PROVE  \A i \in Items : i # id => Holds(i, now[i])'
<1> SUFFICES ASSUME NEW i \in Items, i # id PROVE Holds(i, now[i])'
  OBVIOUS
<1>1. \A b \in Cals : cals'[b][i] = cals[b][i]
  BY DEF Answer
<1> QED
  BY <1>1 DEF Holds

\* The last answer: what is now is what the calendars have.
LEMMA Rests ==
    ASSUME IInv, NEW now \in [Items -> Item], Line(now), NEW t \in DOMAIN txns, NEW x \in Txn,
           Busy(t, x, now), NEW y \in Txn, Same(x, y), NEW c, c.id = x.id, Answer(c, t, y),
           calls' = <<>>, Holds(x.id, now[x.id])'
    PROVE  Line(now)' /\ Quiet(now)'
<1>1. Line(now)' /\ \A u \in DOMAIN txns' : Settled(txns'[u])
  BY TxnAnswered DEF Busy
<1>2. \A i \in Items : i # x.id => Holds(i, now[i])'
  BY OthersStay DEF Busy
<1> QED
  BY <1>1, <1>2 DEF Quiet

\* An answer after which there is more to do.
LEMMA GoesOn ==
    ASSUME IInv, NEW now \in [Items -> Item], Line(now), NEW t \in DOMAIN txns, NEW x \in Txn,
           Busy(t, x, now), Settled(x), NEW c, c.id = x.id, Answer(c, t, x),
           Redoing(t, x, now)' \/ Undoing(t, x, now)'
    PROVE  Line(now)' /\ t \in DOMAIN txns' /\ Busy(t, x, now)'
<1>1. Same(x, x) /\ x = txns[t]
  BY DEF Same, Line, Busy
<1>2. Line(now)' /\ txns'[t] = x /\ DOMAIN txns' = DOMAIN txns /\ \A u \in DOMAIN txns' : Settled(txns'[u])
  BY <1>1, TxnAnswered DEF Busy
<1>3. \A i \in Items : i # x.id => Holds(i, now[i])'
  BY OthersStay DEF Busy
<1> QED
  BY <1>2, <1>3 DEF Busy

Going(now) == Quiet(now) \/ \E t \in DOMAIN txns, x \in Txn : Busy(t, x, now)

LEMMA RedoAnswered ==
    ASSUME IInv, Succeed, NEW now \in [Items -> Item], Line(now), NEW t \in DOMAIN txns,
           NEW x \in Txn, Busy(t, x, now), Redoing(t, x, now)
    PROVE  Line(now)' /\ Going(now)'
<1>1. /\ x = txns[t] /\ x.isDo /\ now[x.id] = After(x) /\ TxnFits(x) /\ Sound(x)
  BY DEF Busy, Redoing, IInv, Fits, Line
<1>2. /\ x.id \in Items /\ x.cal \in Cals /\ x.item \in Item /\ x.old \in Item
      /\ x.action \in {"add", "modify", "delete"} /\ x.item.cal = x.cal
  BY <1>1 DEF Txn, Sound
<1>3. t \in 1 .. MaxTxns
  BY TransactionConstants DEF IInv, Typed
<1>4. CASE x.action = "add"
  <2>1. PICK c \in Call : c = Ask("add", x.cal, t, x.id, x.item, x.old)
    BY <1>2, <1>3, AskTyped
  <2>2. /\ c.op = "add" /\ c.cal = x.cal /\ c.txn = t /\ c.id = x.id /\ c.item = x.item
        /\ c.then = "done"
    BY <2>1 DEF Ask
  <2>3. calls = <<c>> /\ Holds(x.id, NoItem)
    BY <1>4, <2>1 DEF Redoing, DoCalls, Moves, Before
  <2>4. Result(c) = x.item /\ Contents(c) = Content(x.item)
    BY <1>2, <2>2, ResultOfAdd
  <2>5. Learn(x, c) = x /\ Follow(x, c) = <<>>
    BY <1>1, <2>2, <2>4, LearnsOld DEF Follow
  <2>6. Answer(c, t, x) /\ calls' = <<>>
    BY <1>1, <2>2, <2>3, <2>5, OneCall
  <2>7. After(x) = x.item /\ Same(x, x)
    BY <1>1, <1>4 DEF After, Settled, Same
  <2>8. Holds(x.id, x.item)'
    BY <1>2, <2>2, <2>3, <2>4, <2>6, CalendarNames DEF Holds, Answer, NoItem
  <2> QED
    BY <1>1, <2>2, <2>6, <2>7, <2>8, Rests DEF Going
<1>5. CASE x.action = "delete"
  <2>1. PICK c \in Call : c = Ask("delete", x.cal, t, x.id, x.item, x.old)
    BY <1>2, <1>3, AskTyped
  <2>2. /\ c.op = "delete" /\ c.cal = x.cal /\ c.txn = t /\ c.id = x.id /\ c.item = x.item
        /\ c.then = "done"
    BY <2>1 DEF Ask
  <2>3. calls = <<c>> /\ Holds(x.id, x.item)
    BY <1>5, <2>1 DEF Redoing, DoCalls, Moves, Before
  <2>4. Contents(c) = Gone
    BY <2>2 DEF Contents
  <2>5. Learn(x, c) = x /\ Follow(x, c) = <<>>
    BY <2>2, LearnsOld DEF Follow
  <2>6. Answer(c, t, x) /\ calls' = <<>>
    BY <1>1, <2>2, <2>3, <2>5, OneCall
  <2>7. After(x) = NoItem /\ Same(x, x)
    BY <1>1, <1>5 DEF After, Settled, Same
  <2>8. Holds(x.id, NoItem)'
    BY <1>2, <2>2, <2>3, <2>4, <2>6, CalendarNames DEF Holds, Answer, NoItem
  <2> QED
    BY <1>1, <2>2, <2>6, <2>7, <2>8, Rests DEF Going
<1>6. CASE x.action = "modify" /\ ~Moves(x)
  <2>1. PICK c \in Call : c = Ask("modify", x.cal, t, x.id, x.item, x.old)
    BY <1>2, <1>3, AskTyped
  <2>2. /\ c.op = "modify" /\ c.cal = x.cal /\ c.txn = t /\ c.id = x.id /\ c.item = x.item
        /\ c.old = x.old /\ c.then = "done"
    BY <2>1 DEF Ask
  <2>3. calls = <<c>> /\ Holds(x.id, x.old) /\ x.old.cal = x.cal
    BY <1>2, <1>6, <2>1 DEF Redoing, DoCalls, Moves, Before
  <2>4. Result(c) = After(x) /\ Contents(c) = Content(After(x))
    BY <1>2, <1>6, <2>2, ResultOfModify DEF After, Settled
  <2>5. PICK y \in Txn : y = Learn(x, c)
    BY <1>1, <1>6, <2>2, LearnFits DEF Asks, TxnFits
  <2>6. y = [x EXCEPT !.item = After(x)]
    BY <1>1, <2>2, <2>4, <2>5 DEF Learn
  <2>7. Same(x, y)
    BY <1>1, <1>6, <2>6, ChangeMade
  <2>8. Answer(c, t, y) /\ calls' = <<>>
    BY <1>1, <2>2, <2>3, <2>5, OneCall DEF Follow
  <2>9. After(x).cal = x.cal
    BY <1>2, <1>6 DEF After, Item
  <2>10. Holds(x.id, After(x))'
    BY <1>2, <2>2, <2>3, <2>4, <2>8, <2>9 DEF Holds, Answer
  <2> QED
    BY <1>1, <2>2, <2>7, <2>8, <2>10, Rests DEF Going
<1>7. CASE Moves(x) /\ calls = DoCalls(t, x) /\ Holds(x.id, Before(x))
  <2>1. PICK c \in Call :
          c = [Ask("add", x.cal, t, x.id, x.item, NoItem) EXCEPT !.then = "deleteOld"]
    BY <1>2, <1>3, AskTyped, NoItemTyped
  <2>2. /\ c.op = "add" /\ c.cal = x.cal /\ c.txn = t /\ c.id = x.id /\ c.item = x.item
        /\ c.then = "deleteOld"
    BY <2>1 DEF Ask
  <2>3. calls = <<c>> /\ Holds(x.id, x.old) /\ x.old.cal # x.cal
    BY <1>2, <1>7, <2>1 DEF DoCalls, Moves, Before
  <2>4. Result(c) = x.item /\ Contents(c) = Content(x.item)
    BY <1>2, <2>2, ResultOfAdd
  <2>5. Learn(x, c) = x /\ Follow(x, c) = <<Ask("delete", x.old.cal, t, x.id, x.old, NoItem)>>
    BY <1>1, <2>2, <2>4, LearnsOld DEF Follow
  <2>6. Answer(c, t, x) /\ calls' = <<Ask("delete", x.old.cal, t, x.id, x.old, NoItem)>>
    BY <1>1, <2>2, <2>3, <2>5, OneCall
  <2>7. HoldsBoth(x.id, x.item, x.old)'
    BY <1>2, <2>2, <2>3, <2>4, <2>6 DEF Holds, HoldsBoth, Answer
  <2>8. Redoing(t, x, now)' /\ Settled(x)
    BY <1>1, <1>7, <2>6, <2>7 DEF Redoing, Settled
  <2> QED
    BY <2>2, <2>6, <2>8, GoesOn DEF Going
<1>8. CASE /\ Moves(x) /\ calls = <<Ask("delete", x.old.cal, t, x.id, x.old, NoItem)>>
           /\ HoldsBoth(x.id, x.item, x.old)
  <2>0. x.old.cal \in Cals
    BY <1>1, <1>8 DEF TxnFits, Moves
  <2>1. PICK c \in Call : c = Ask("delete", x.old.cal, t, x.id, x.old, NoItem)
    BY <1>2, <1>3, <2>0, AskTyped, NoItemTyped
  <2>2. /\ c.op = "delete" /\ c.cal = x.old.cal /\ c.txn = t /\ c.id = x.id
        /\ c.then = "done" /\ Contents(c) = Gone
    BY <2>1 DEF Ask, Contents
  <2>3. calls = <<c>> /\ x.old.cal # x.cal
    BY <1>2, <1>8, <2>1 DEF Moves
  <2>5. Learn(x, c) = x /\ Follow(x, c) = <<>>
    BY <2>2, LearnsOld DEF Follow
  <2>6. Answer(c, t, x) /\ calls' = <<>>
    BY <1>1, <2>2, <2>3, <2>5, OneCall
  <2>7. After(x) = x.item /\ Same(x, x)
    BY <1>1, <1>8 DEF After, Settled, Same, Moves
  <2>8. Holds(x.id, x.item)'
    BY <1>2, <1>8, <2>2, <2>3, <2>6 DEF Holds, HoldsBoth, Answer
  <2> QED
    BY <1>1, <2>2, <2>6, <2>7, <2>8, Rests DEF Going
<1> QED
  BY <1>2, <1>4, <1>5, <1>6, <1>7, <1>8 DEF Redoing, Moves

LEMMA UndoAnswered ==
    ASSUME IInv, Succeed, NEW now \in [Items -> Item], Line(now), NEW t \in DOMAIN txns,
           NEW x \in Txn, Busy(t, x, now), Undoing(t, x, now)
    PROVE  Line(now)' /\ Going(now)'
<1>1. /\ x = txns[t] /\ ~x.isDo /\ now[x.id] = Before(x) /\ TxnFits(x) /\ Sound(x) /\ Settled(x)
  BY DEF Busy, Undoing, IInv, Fits, Line
<1>2. /\ x.id \in Items /\ x.cal \in Cals /\ x.item \in Item /\ x.old \in Item
      /\ x.action \in {"add", "modify", "delete"} /\ x.item.cal = x.cal
  BY <1>1 DEF Txn, Sound
<1>3. t \in 1 .. MaxTxns
  BY TransactionConstants DEF IInv, Typed
<1>4. Same(x, x) /\ (x.action # "delete" => After(x) = x.item)
  BY <1>1 DEF Same, After
\* The two halves of a move, and of what undoes an addition and a deletion.
<1>5. PICK c \in Call : c = Ask("delete", x.cal, t, x.id, x.item, NoItem)
  BY <1>2, <1>3, AskTyped, NoItemTyped
<1>6. /\ c.op = "delete" /\ c.cal = x.cal /\ c.txn = t /\ c.id = x.id /\ c.then = "done"
      /\ Contents(c) = Gone /\ Learn(x, c) = x /\ Follow(x, c) = <<>>
  <2>1. c.op = "delete" /\ c.cal = x.cal /\ c.txn = t /\ c.id = x.id /\ c.then = "done"
    BY <1>5 DEF Ask
  <2> QED
    BY <2>1, LearnsOld DEF Contents, Follow
<1>7. CASE x.action = "add"
  <2>1. calls = <<c>> /\ Holds(x.id, x.item)
    BY <1>4, <1>5, <1>7 DEF Undoing, UndoCalls, Moves
  <2>2. Answer(c, t, x) /\ calls' = <<>>
    BY <1>1, <1>6, <2>1, OneCall
  <2>3. Before(x) = NoItem
    BY <1>7 DEF Before
  <2>4. Holds(x.id, NoItem)'
    BY <1>2, <1>6, <2>1, <2>2, CalendarNames DEF Holds, Answer, NoItem
  <2> QED
    BY <1>1, <1>4, <1>6, <2>2, <2>3, <2>4, Rests DEF Going
<1>8. CASE x.action = "delete"
  <2>1. PICK d \in Call : d = Ask("add", x.cal, t, x.id, x.item, NoItem)
    BY <1>2, <1>3, AskTyped, NoItemTyped
  <2>2. /\ d.op = "add" /\ d.cal = x.cal /\ d.txn = t /\ d.id = x.id /\ d.item = x.item
        /\ d.then = "done"
    BY <2>1 DEF Ask
  <2>3. calls = <<d>> /\ Holds(x.id, NoItem)
    BY <1>8, <2>1 DEF Undoing, UndoCalls, Moves, After
  <2>4. Result(d) = x.item /\ Contents(d) = Content(x.item)
    BY <1>2, <2>2, ResultOfAdd
  <2>5. PICK y \in Txn : y = Learn(x, d)
    BY <1>1, <1>2, <1>8, <2>2, LearnFits DEF Asks, TxnFits
  <2>6. y = [x EXCEPT !.old = x.item]
    BY <1>1, <2>2, <2>4, <2>5 DEF Learn
  <2>7. Same(x, y)
    BY <1>1, <1>8, <2>6, DeletionUndone
  <2>8. Answer(d, t, y) /\ calls' = <<>>
    BY <1>1, <2>2, <2>3, <2>5, OneCall DEF Follow
  <2>9. Before(x) = x.item
    BY <1>8 DEF Before
  <2>10. Holds(x.id, x.item)'
    BY <1>2, <2>2, <2>3, <2>4, <2>8, CalendarNames DEF Holds, Answer, NoItem
  <2> QED
    BY <1>1, <2>2, <2>7, <2>8, <2>9, <2>10, Rests DEF Going
<1>9. CASE x.action = "modify" /\ ~Moves(x)
  <2>1. PICK d \in Call : d = Ask("modify", x.cal, t, x.id, x.old, x.item)
    BY <1>2, <1>3, AskTyped
  <2>2. /\ d.op = "modify" /\ d.cal = x.cal /\ d.txn = t /\ d.id = x.id /\ d.item = x.old
        /\ d.old = x.item /\ d.then = "done"
    BY <2>1 DEF Ask
  <2>3. calls = <<d>> /\ Holds(x.id, x.item) /\ x.old.cal = x.cal /\ Before(x) = x.old
    BY <1>2, <1>4, <1>9, <2>1 DEF Undoing, UndoCalls, Moves, Before
  <2>4. Result(d) = x.old /\ Contents(d) = Content(x.old)
    BY <1>1, <1>9, <2>2, <2>3, ResultOfModify DEF Settled
  <2>5. Learn(x, d) = x /\ Follow(x, d) = <<>>
    BY <1>1, <2>2, <2>4, LearnsOld DEF Follow
  <2>6. Answer(d, t, x) /\ calls' = <<>>
    BY <1>1, <2>2, <2>3, <2>5, OneCall
  <2>7. Holds(x.id, x.old)'
    BY <1>2, <2>2, <2>3, <2>4, <2>6 DEF Holds, Answer
  <2> QED
    BY <1>1, <1>4, <2>2, <2>3, <2>6, <2>7, Rests DEF Going
<1>10. CASE x.action = "modify" /\ Moves(x)
  <2>0. x.oldCal = x.old.cal /\ x.old.cal \in Cals /\ x.old.cal # x.cal /\ Before(x) = x.old
    BY <1>1, <1>2, <1>10 DEF Sound, TxnFits, Moves, Before
  <2>1. PICK d \in Call : d = Ask("add", x.oldCal, t, x.id, x.old, NoItem)
    BY <1>2, <1>3, <2>0, AskTyped, NoItemTyped
  <2>2. /\ d.op = "add" /\ d.cal = x.old.cal /\ d.txn = t /\ d.id = x.id /\ d.item = x.old
        /\ d.then = "done"
    BY <2>0, <2>1 DEF Ask
  <2>4. Result(d) = x.old /\ Contents(d) = Content(x.old)
    BY <2>2, ResultOfAdd
  <2>5. Learn(x, d) = x /\ Follow(x, d) = <<>>
    BY <1>1, <2>2, <2>4, LearnsOld DEF Follow
  <2>6. CASE calls = UndoCalls(t, x) /\ Holds(x.id, After(x))
    <3>1. calls = <<c, d>> /\ Holds(x.id, x.item)
      BY <1>4, <1>5, <1>10, <2>1, <2>6 DEF UndoCalls
    <3>2. CASE Answer(c, t, x) /\ calls' = <<d>>
      <4>1. Holds(x.id, NoItem)'
        BY <1>2, <1>6, <3>1, <3>2, CalendarNames DEF Holds, Answer, NoItem
      <4>2. Undoing(t, x, now)'
        BY <1>1, <1>10, <2>1, <3>2, <4>1 DEF Undoing
      <4> QED
        BY <1>1, <1>6, <3>2, <4>2, GoesOn DEF Going
    <3>3. CASE Answer(d, t, x) /\ calls' = <<c>>
      <4>1. HoldsBoth(x.id, x.item, x.old)'
        BY <1>2, <2>0, <2>2, <2>4, <3>1, <3>3 DEF Holds, HoldsBoth, Answer
      <4>2. Undoing(t, x, now)'
        BY <1>1, <1>5, <1>10, <3>3, <4>1 DEF Undoing
      <4> QED
        BY <1>1, <2>2, <3>3, <4>2, GoesOn DEF Going
    <3> QED
      BY <1>1, <1>6, <2>2, <2>5, <3>1, <3>2, <3>3, TwoCalls
  <2>7. CASE /\ calls = <<Ask("delete", x.cal, t, x.id, x.item, NoItem)>>
             /\ HoldsBoth(x.id, x.item, x.old)
    <3>1. Answer(c, t, x) /\ calls' = <<>>
      BY <1>1, <1>5, <1>6, <2>7, OneCall
    <3>2. Holds(x.id, x.old)'
      BY <1>2, <1>6, <2>0, <2>7, <3>1 DEF Holds, HoldsBoth, Answer
    <3> QED
      BY <1>1, <1>4, <1>6, <2>0, <3>1, <3>2, Rests DEF Going
  <2>8. CASE calls = <<Ask("add", x.oldCal, t, x.id, x.old, NoItem)>> /\ Holds(x.id, NoItem)
    <3>1. Answer(d, t, x) /\ calls' = <<>>
      BY <1>1, <2>1, <2>2, <2>5, <2>8, OneCall
    <3>2. Holds(x.id, x.old)'
      BY <1>2, <2>0, <2>2, <2>4, <2>8, <3>1, CalendarNames DEF Holds, Answer, NoItem
    <3> QED
      BY <1>1, <1>4, <2>0, <2>2, <3>1, <3>2, Rests DEF Going
  <2> QED
    BY <2>6, <2>7, <2>8 DEF Undoing
<1> QED
  BY <1>2, <1>7, <1>8, <1>9, <1>10 DEF Moves

LEMMA SucceedSound == ASSUME IInv, SInv, Succeed PROVE SInv'
<1> SUFFICES ASSUME ~refused PROVE \E now \in [Items -> Item] : Line(now)' /\ Going(now)'
  BY AnswerTo DEF SInv, Going, Answer
<1>1. PICK now \in [Items -> Item] : Line(now) /\ Going(now)
  BY DEF SInv, Going
<1>2. calls # <<>>
  <2>1. DOMAIN <<>> = {}
    OBVIOUS
  <2> QED
    BY <2>1 DEF Succeed
<1>3. PICK t \in DOMAIN txns, x \in Txn : Busy(t, x, now)
  BY <1>1, <1>2 DEF Going, Quiet
<1>4. CASE Redoing(t, x, now)
  BY <1>1, <1>3, <1>4, RedoAnswered
<1>5. CASE Undoing(t, x, now)
  BY <1>1, <1>3, <1>5, UndoAnswered
<1> QED
  BY <1>3, <1>4, <1>5 DEF Busy

LEMMA FailSound == ASSUME Fail PROVE SInv'
BY DEF Fail, SInv

LEMMA StutterSound == ASSUME SInv, UNCHANGED vars PROVE SInv'
<1> SUFFICES ASSUME ~refused PROVE \E now \in [Items -> Item] : Line(now)' /\ Going(now)'
  BY DEF SInv, Going, vars
<1>1. PICK now \in [Items -> Item] : Line(now) /\ Going(now)
  BY DEF SInv, Going
<1>2. Line(now)'
  BY <1>1 DEF vars, Line, Ids, Befores, Afters
<1>3. CASE Quiet(now)
  BY <1>2, <1>3 DEF vars, Going, Quiet, Holds
<1>4. CASE \E t \in DOMAIN txns, x \in Txn : Busy(t, x, now)
  <2>1. PICK t \in DOMAIN txns, x \in Txn : Busy(t, x, now)
    BY <1>4
  <2>2. Redoing(t, x, now) = Redoing(t, x, now)' /\ Undoing(t, x, now) = Undoing(t, x, now)'
    BY DEF vars, Redoing, Undoing, Holds, HoldsBoth
  <2>3. \A i \in Items : i # x.id => Holds(i, now[i])'
    BY <2>1 DEF Busy, vars, Holds
  <2>4. Busy(t, x, now)'
    BY <2>1, <2>2, <2>3 DEF vars, Busy
  <2> QED
    BY <1>2, <2>4 DEF vars, Going
<1> QED
  BY <1>1, <1>3, <1>4 DEF Going

-----------------------------------------------------------------------------
(* The user's commands *)

\* A user who waits acts when everything is answered.
LEMMA QuietWhenActing ==
    ASSUME "impatient" \notin Disturbances, MayAct, SInv, ~refused
    PROVE  calls = <<>> /\ \E now \in [Items -> Item] : Line(now) /\ Quiet(now)
<1>1. calls = <<>>
  BY DEF MayAct
<1>2. PICK now \in [Items -> Item] : Line(now) /\ Going(now)
  BY DEF SInv, Going
<1>3. \A a, b : <<>> # <<a>> /\ <<>> # <<a, b>>
  OBVIOUS
<1>4. \A t, x : DoCalls(t, x) # <<>> /\ UndoCalls(t, x) # <<>>
  BY <1>3 DEF DoCalls, UndoCalls
<1>5. ~ \E t \in DOMAIN txns, x \in Txn : Busy(t, x, now)
  BY <1>1, <1>3, <1>4 DEF Busy, Redoing, Undoing
<1> QED
  BY <1>1, <1>2, <1>5 DEF Going

LEMMA UndoSound ==
    ASSUME "impatient" \notin Disturbances, IInv, SInv, Undo
    PROVE  SInv'
<1> SUFFICES ASSUME ~refused PROVE \E now \in [Items -> Item] : Line(now)' /\ Going(now)'
  BY DEF SInv, Going, Undo
<1>1. calls = <<>>
  BY QuietWhenActing DEF Undo
<1>2. PICK now \in [Items -> Item] : Line(now) /\ Quiet(now)
  BY QuietWhenActing DEF Undo
<1>3. PICK t \in DOMAIN txns, x \in Txn, y \in Txn :
        t = Last(undos) /\ x = txns[t] /\ y = Undone(x) /\ TxnFits(x) /\ Sound(x) /\ ~y.isDo
  <2>1. Last(undos) \in DOMAIN txns
    BY EndsOfTxns, FrontAndLast DEF Undo
  <2>2. txns[Last(undos)] \in Txn /\ TxnFits(txns[Last(undos)]) /\ Sound(txns[Last(undos)])
    BY <1>2, <2>1 DEF IInv, Typed, Fits, Line
  <2> QED
    BY <2>1, <2>2, UndoneFits
<1>4. /\ txns' = [txns EXCEPT ![t] = y] /\ Give(UndoCalls(t, x)) /\ undos # <<>>
      /\ undos' = Front(undos) /\ redos' = Append(redos, t)
      /\ wanted' = [wanted EXCEPT ![x.id] = x.was] /\ cals' = cals
  BY <1>3 DEF Undo
<1>5. /\ Before(y) = Before(x) /\ After(y) = After(x) /\ Settled(y) = Settled(x)
      /\ Sound(y) /\ y.id = x.id /\ UndoCalls(t, y) = UndoCalls(t, x)
  BY <1>3, UndoneEnds
<1>6. DOMAIN txns' = DOMAIN txns /\ txns'[t] = y /\ \A u \in DOMAIN txns : u # t => txns'[u] = txns[u]
  BY <1>4 DEF IInv, Typed
<1>7. SameEnds
  <2>1. \A u \in DOMAIN txns : Sound(txns[u])
    BY <1>2 DEF Line
  <2> QED
    BY <1>3, <1>5, <1>6, <2>1 DEF SameEnds
<1>8. /\ now[x.id] = After(x)
      /\ \E next \in [Items -> Item] : next = [now EXCEPT ![x.id] = Before(x)] /\ Line(next)'
  BY <1>2, <1>3, <1>4, <1>7, UndoLine
<1>9. PICK next \in [Items -> Item] : next = [now EXCEPT ![x.id] = Before(x)] /\ Line(next)'
  BY <1>8
<1>10. x.id \in Items /\ next[x.id] = Before(x) /\ \A i \in Items : i # x.id => next[i] = now[i]
  BY <1>9 DEF Txn
<1>11. calls' = UndoCalls(t, y)
  <2>1. UndoCalls(t, x) \in Seq(Call) /\ calls \in Seq(Call)
    <3>1. t \in 1 .. MaxTxns
      BY TransactionConstants DEF IInv, Typed
    <3> QED
      BY <1>3, <3>1, UndoCallsAsk DEF IInv, Typed
  <2> QED
    BY <1>1, <1>4, <1>5, <2>1, Given
<1>12. Undoing(t, y, next)'
  <2>1. Holds(y.id, After(y))'
    BY <1>2, <1>4, <1>5, <1>8, <1>10 DEF Quiet, Holds
  <2> QED
    BY <1>2, <1>3, <1>5, <1>10, <1>11, <2>1 DEF Undoing, Quiet
<1>13. Busy(t, y, next)'
  <2>1. \A i \in Items : i # y.id => Holds(i, next[i])'
    BY <1>2, <1>4, <1>5, <1>10 DEF Quiet, Holds
  <2>2. \A u \in DOMAIN txns' : u # t => Settled(txns'[u])
    BY <1>2, <1>6 DEF Quiet
  <2> QED
    BY <1>6, <1>12, <2>1, <2>2 DEF Busy
<1> QED
  BY <1>6, <1>9, <1>13 DEF Going

LEMMA RedoSound ==
    ASSUME "impatient" \notin Disturbances, IInv, SInv, Redo
    PROVE  SInv'
<1> SUFFICES ASSUME ~refused PROVE \E now \in [Items -> Item] : Line(now)' /\ Going(now)'
  BY DEF SInv, Going, Redo
<1>1. calls = <<>>
  BY QuietWhenActing DEF Redo
<1>2. PICK now \in [Items -> Item] : Line(now) /\ Quiet(now)
  BY QuietWhenActing DEF Redo
<1>3. PICK t \in DOMAIN txns, x \in Txn, y \in Txn :
        t = Last(redos) /\ x = txns[t] /\ y = Done(x) /\ TxnFits(x) /\ Sound(x) /\ y.isDo /\ y.id = x.id
  <2>1. Last(redos) \in DOMAIN txns
    BY EndsOfTxns, FrontAndLast DEF Redo
  <2>2. txns[Last(redos)] \in Txn /\ TxnFits(txns[Last(redos)]) /\ Sound(txns[Last(redos)])
    BY <1>2, <2>1 DEF IInv, Typed, Fits, Line
  <2> QED
    BY <2>1, <2>2, FitsDoable, DoneFits
<1>4. /\ txns' = [txns EXCEPT ![t] = y] /\ Give(DoCalls(t, x)) /\ redos # <<>>
      /\ redos' = Front(redos) /\ undos' = Append(undos, t)
      /\ wanted' = [wanted EXCEPT ![x.id] = x.is] /\ cals' = cals
  BY <1>3 DEF Redo
<1>5. /\ Before(y) = Before(x) /\ After(y) = After(x)
      /\ Sound(y) /\ DoCalls(t, y) = DoCalls(t, x)
  BY <1>3, DoneEnds DEF Sound, Fresh
<1>6. DOMAIN txns' = DOMAIN txns /\ txns'[t] = y /\ \A u \in DOMAIN txns : u # t => txns'[u] = txns[u]
  BY <1>4 DEF IInv, Typed
<1>7. SameEnds
  <2>1. \A u \in DOMAIN txns : Sound(txns[u])
    BY <1>2 DEF Line
  <2> QED
    BY <1>3, <1>5, <1>6, <2>1 DEF SameEnds
<1>8. /\ now[x.id] = Before(x)
      /\ \E next \in [Items -> Item] : next = [now EXCEPT ![x.id] = After(x)] /\ Line(next)'
  BY <1>2, <1>3, <1>4, <1>7, RedoLine
<1>9. PICK next \in [Items -> Item] : next = [now EXCEPT ![x.id] = After(x)] /\ Line(next)'
  BY <1>8
<1>10. x.id \in Items /\ next[x.id] = After(x) /\ \A i \in Items : i # x.id => next[i] = now[i]
  BY <1>9 DEF Txn
<1>11. calls' = DoCalls(t, y)
  <2>1. DoCalls(t, x) \in Seq(Call) /\ calls \in Seq(Call)
    <3>1. t \in 1 .. MaxTxns
      BY TransactionConstants DEF IInv, Typed
    <3>2. PICK c \in Call : DoCalls(t, x) = <<c>>
      BY <1>3, <3>1, FitsDoable, DoCallsAsk
    <3>3. <<c>> \in Seq(Call)
      OBVIOUS
    <3> QED
      BY <3>2, <3>3 DEF IInv, Typed
  <2> QED
    BY <1>1, <1>4, <1>5, <2>1, Given
<1>12. Redoing(t, y, next)'
  <2>1. Holds(y.id, Before(y))'
    BY <1>2, <1>3, <1>4, <1>5, <1>8, <1>10 DEF Quiet, Holds
  <2> QED
    BY <1>3, <1>5, <1>10, <1>11, <2>1 DEF Redoing
<1>13. Busy(t, y, next)'
  <2>1. \A i \in Items : i # y.id => Holds(i, next[i])'
    BY <1>2, <1>3, <1>4, <1>10 DEF Quiet, Holds
  <2>2. \A u \in DOMAIN txns' : u # t => Settled(txns'[u])
    BY <1>2, <1>6 DEF Quiet
  <2> QED
    BY <1>6, <1>12, <2>1, <2>2 DEF Busy
<1> QED
  BY <1>6, <1>9, <1>13 DEF Going

\* A new transaction finds what is now.
LEMMA CommitSound ==
    ASSUME "impatient" \notin Disturbances, IInv, SInv,
           NEW action \in {"add", "modify", "delete"}, NEW i \in Items, NEW cal \in Cals,
           NEW item \in Item, NEW old \in Item, NEW is \in Place,
           item.ver # 0, item.cal = cal,
           action = "modify" => old.cal \in Cals /\ old.ver # 0,
           is = IF action = "delete" THEN Nowhere ELSE Where(item),
           \A now \in [Items -> Item] : Line(now) /\ Quiet(now) =>
               now[i] = IF action = "add" THEN NoItem ELSE IF action = "modify" THEN old ELSE item,
           Commit(action, i, cal, item, old, is)
    PROVE  SInv'
<1> SUFFICES ASSUME ~refused PROVE \E now \in [Items -> Item] : Line(now)' /\ Going(now)'
  BY DEF SInv, Going, Commit
<1>1. calls = <<>>
  BY QuietWhenActing DEF Commit
<1>2. PICK now \in [Items -> Item] : Line(now) /\ Quiet(now)
  BY QuietWhenActing DEF Commit
<1>3. PICK x \in Txn, t \in Nat :
        /\ x = [action |-> action, id |-> i, cal |-> cal, item |-> item, old |-> old,
                oldCal |-> NoCal, isDo |-> FALSE, was |-> wanted[i], is |-> is]
        /\ t = Len(txns) + 1
  <2>1. Len(txns) + 1 \in Nat /\ wanted[i] \in Place
    BY DEF IInv, Typed
  <2>2. [action |-> action, id |-> i, cal |-> cal, item |-> item, old |-> old,
         oldCal |-> NoCal, isDo |-> FALSE, was |-> wanted[i], is |-> is] \in Txn
    BY <2>1 DEF Txn
  <2> QED
    BY <2>1, <2>2, Zenon
<1>4. /\ txns' = Append(txns, Done(x)) /\ Give(DoCalls(t, x)) /\ t <= MaxTxns
      /\ undos' = Append(undos, t) /\ redos' = <<>>
      /\ wanted' = [wanted EXCEPT ![i] = is] /\ cals' = cals
  BY <1>3 DEF Commit
<1>5. Fresh(x) /\ Before(x) = now[i]
  <2>1. Before(x) = now[i]
    BY <1>2, <1>3 DEF Before
  <2>2. x.was = Where(Before(x))
    BY <1>2, <1>3, <2>1 DEF Line
  <2>3. x.is = Where(After(x))
    <3>1. Where([item EXCEPT !.gen = @ + 1]) = Where(item) /\ Where(NoItem) = Nowhere
      BY DEF Item, Where, NoItem, Nowhere
    <3> QED
      BY <1>3, <3>1 DEF After
  <2> QED
    BY <1>3, <2>1, <2>2, <2>3 DEF Fresh
<1>6. PICK y \in Txn : y = Done(x) /\ TxnFits(y) /\ y.isDo /\ y.id = i /\ y.is = is
  <2>1. Doable(x) /\ x.id = i /\ x.is = is
    BY <1>3 DEF Doable
  <2> QED
    BY <1>5, <2>1, DoneFits, DoneEnds
<1>7. /\ Before(y) = now[i] /\ After(y) = After(x) /\ Sound(y) /\ DoCalls(t, y) = DoCalls(t, x)
  BY <1>5, <1>6, DoneEnds
<1>8. PICK next \in [Items -> Item] : next = [now EXCEPT ![i] = After(y)] /\ Line(next)'
  <2>1. /\ txns' = Append(txns, y) /\ undos' = Append(undos, Len(txns) + 1)
        /\ wanted' = [wanted EXCEPT ![y.id] = y.is] /\ now[y.id] = Before(y)
    BY <1>3, <1>4, <1>6, <1>7
  <2> QED
    BY <1>2, <1>4, <1>6, <1>7, <2>1, CommitLine
<1>9. next[i] = After(y) /\ \A j \in Items : j # i => next[j] = now[j]
  BY <1>8
<1>10. /\ DOMAIN txns' = 1 .. t /\ txns'[t] = y
       /\ \A u \in DOMAIN txns' : u # t => u \in DOMAIN txns /\ txns'[u] = txns[u]
  BY <1>3, <1>4, <1>6 DEF IInv, Typed
<1>11. calls' = DoCalls(t, y)
  <2>3. Doable(x)
    BY <1>3 DEF Doable
  <2>4. Len(txns) \in Nat
    BY DEF IInv, Typed
  <2>0. t \in 1 .. MaxTxns /\ Doable(x)
    BY <1>3, <1>4, <2>3, <2>4, TransactionConstants
  <2>1. PICK c \in Call : DoCalls(t, x) = <<c>>
    BY <1>3, <2>0, DoCallsAsk
  <2>2. <<c>> \in Seq(Call) /\ calls \in Seq(Call)
    BY DEF IInv, Typed
  <2> QED
    BY <1>1, <1>4, <1>7, <2>1, <2>2, Given
<1>12. Redoing(t, y, next)'
  <2>1. Holds(y.id, Before(y))'
    BY <1>2, <1>4, <1>6, <1>7 DEF Quiet, Holds
  <2> QED
    BY <1>6, <1>9, <1>11, <2>1 DEF Redoing
<1>13. Busy(t, y, next)'
  <2>1. \A j \in Items : j # y.id => Holds(j, next[j])'
    BY <1>2, <1>4, <1>6, <1>9 DEF Quiet, Holds
  <2>2. \A u \in DOMAIN txns' : u # t => Settled(txns'[u])
    BY <1>2, <1>10 DEF Quiet
  <2> QED
    BY <1>10, <1>12, <2>1, <2>2 DEF Busy
<1>14. t \in DOMAIN txns'
  BY <1>3, <1>10
<1> QED
  BY <1>8, <1>13, <1>14 DEF Going

LEMMA UserSound ==
    ASSUME "impatient" \notin Disturbances, IInv, SInv, NEW i \in Items, NEW c \in Cals, NEW to \in Cals,
           Add(i, c) \/ Modify(i, c, to) \/ Delete(i, c)
    PROVE  SInv'
<1>1. /\ Len(txns) \in Nat
      /\ cals[c][i] \in Stored
      /\ Present(i, c) => cals[c][i].ver # 0
  BY DEF IInv, Typed, Fits, Present
<1>2. Seen(i, c) \in Item /\ Seen(i, c).cal = c /\ Seen(i, c).ver = cals[c][i].ver
  BY <1>1 DEF Seen, Item, Stored
<1>3. Len(txns) + 1 <= MaxTxns => NewVersion \in Versions /\ NewVersion # 0
  BY <1>1, TransactionConstants DEF NewVersion, Versions
<1>4. ASSUME Present(i, c), NEW now \in [Items -> Item], Line(now), Quiet(now)
      PROVE  now[i] = Seen(i, c)
  <2>1. now[i] \in Item /\ cals[c][i] = IF now[i].cal = c THEN Content(now[i]) ELSE Gone
    BY <1>4 DEF Quiet, Holds
  <2>2. now[i].cal = c /\ cals[c][i] = Content(now[i])
    BY <1>4, <2>1 DEF Present
  <2> QED
    BY <2>1, <2>2 DEF Seen, Content, Item
<1>5. CASE Add(i, c)
  <2>1. PICK item, is :
          /\ item = [cal |-> c, ver |-> NewVersion, gen |-> 0]
          /\ is = [cal |-> c, ver |-> NewVersion]
    OBVIOUS
  <2>2. Commit("add", i, c, item, NoItem, is) /\ wanted[i] = Nowhere
    BY <1>5, <2>1 DEF Add
  <2>3. Len(txns) + 1 <= MaxTxns
    BY <2>2 DEF Commit
  <2>4. item \in Item /\ is \in Place /\ item.ver # 0 /\ item.cal = c /\ is = Where(item) /\ NoItem \in Item
    BY <1>3, <2>1, <2>3, NoItemTyped DEF Item, Place, Where
  <2>5. \A now \in [Items -> Item] : Line(now) /\ Quiet(now) => now[i] = NoItem
    <3> SUFFICES ASSUME NEW now \in [Items -> Item], Line(now) PROVE now[i] = NoItem
      OBVIOUS
    <3>1. Nowhere = Where(now[i]) /\ (now[i] = NoItem \/ now[i].cal \in Cals)
      BY <2>2 DEF Line
    <3> QED
      BY <3>1, CalendarNames DEF Nowhere, Where
  <2> QED
    BY <2>2, <2>4, <2>5, CommitSound
<1>6. CASE Modify(i, c, to)
  <2>1. PICK item, is :
          /\ item = [cal |-> to, ver |-> NewVersion, gen |-> cals[c][i].gen]
          /\ is = [cal |-> to, ver |-> NewVersion]
    OBVIOUS
  <2>2. Commit("modify", i, to, item, Seen(i, c), is) /\ Present(i, c)
    BY <1>6, <2>1 DEF Modify
  <2>3. Len(txns) + 1 <= MaxTxns
    BY <2>2 DEF Commit
  <2>4. item \in Item /\ is \in Place /\ item.ver # 0 /\ item.cal = to /\ is = Where(item)
    BY <1>1, <1>3, <2>1, <2>3 DEF Item, Place, Where, Stored
  <2> QED
    BY <1>1, <1>2, <1>4, <2>2, <2>4, CommitSound
<1>7. CASE Delete(i, c)
  <2>2. Commit("delete", i, c, Seen(i, c), NoItem, Nowhere) /\ Present(i, c)
    BY <1>7 DEF Delete
  <2>4. Nowhere \in Place /\ NoItem \in Item
    BY NoItemTyped DEF Nowhere, Place
  <2> QED
    BY <1>1, <1>2, <1>4, <2>2, <2>4, CommitSound
<1> QED
  BY <1>5, <1>6, <1>7

-----------------------------------------------------------------------------
(* The theorems *)

LEMMA InitSound == Init => SInv
<1> SUFFICES ASSUME Init PROVE \E now \in [Items -> Item] : Line(now) /\ Going(now)
  BY DEF SInv, Going
<1>1. wanted \in [Items -> Place] /\ \A i \in Items : wanted[i] = Nowhere \/ (wanted[i].cal \in Cals /\ wanted[i].ver = 1)
  <2>1. wanted \in [Items -> Place]
    BY InitInv DEF PInv, IInv, Typed
  <2>2. \A i \in Items : wanted[i] \in [cal : Cals, ver : {1}] \/ wanted[i] = Nowhere
    BY DEF Init
  <2> QED
    BY <2>1, <2>2
<1>2. PICK now \in [Items -> Item] :
        now = [i \in Items |-> [cal |-> wanted[i].cal, ver |-> wanted[i].ver, gen |-> 0]]
  BY <1>1 DEF Item, Place
<1>3. txns = <<>> /\ undos = <<>> /\ redos = <<>> /\ calls = <<>>
  BY DEF Init
<1>4. DOMAIN txns = {}
  <2>1. DOMAIN <<>> = {}
    OBVIOUS
  <2> QED
    BY <1>3, <2>1
<1>5. Line(now)
  <2>1. Linked(undos, Ids, Afters, Befores, now) /\ Linked(redos, Ids, Befores, Afters, now)
    BY <1>3, NothingLinked
  <2>2. ASSUME NEW i \in Items
        PROVE  wanted[i] = Where(now[i]) /\ (now[i] = NoItem \/ (now[i].cal \in Cals /\ now[i].ver # 0))
    BY <1>1, <1>2 DEF Where, Place, NoItem, Nowhere
  <2> QED
    BY <1>4, <2>1, <2>2 DEF Line
<1>6. Quiet(now)
  <2>1. ASSUME NEW i \in Items, NEW c \in Cals
        PROVE  cals[c][i] = IF now[i].cal = c THEN Content(now[i]) ELSE Gone
    <3>1. cals[c][i] = IF wanted[i].cal = c THEN [ver |-> 1, gen |-> 0] ELSE Gone
      BY DEF Init
    <3> QED
      BY <1>1, <1>2, <3>1, CalendarNames DEF Content, Nowhere
  <2> QED
    BY <1>3, <1>4, <2>1 DEF Quiet, Holds
<1> QED
  BY <1>5, <1>6 DEF Going

SoundInv == IInv /\ SInv

LEMMA InitSoundInv == Init => SoundInv
BY InitInv, InitSound DEF PInv, SoundInv

LEMMA SoundStep == "impatient" \notin Disturbances => (SoundInv /\ [Next]_vars => SoundInv')
<1> SUFFICES ASSUME "impatient" \notin Disturbances, IInv, SInv, [Next]_vars PROVE SInv'
  BY IInvStep DEF SoundInv
<1>1. CASE \E i \in Items, c \in Cals : Add(i, c) \/ Delete(i, c)
  BY <1>1, UserSound
<1>2. CASE \E i \in Items, c, to \in Cals : Modify(i, c, to)
  BY <1>2, UserSound
<1>3. CASE Undo
  BY <1>3, UndoSound
<1>4. CASE Redo
  BY <1>4, RedoSound
<1>5. CASE Succeed
  BY <1>5, SucceedSound
<1>6. CASE Fail
  BY <1>6, FailSound
<1>7. CASE UNCHANGED vars
  BY <1>7, StutterSound
<1> QED
  BY <1>1, <1>2, <1>3, <1>4, <1>5, <1>6, <1>7 DEF Next

\* When everything is answered the calendars hold what is now, which is what the user wants.
LEMMA SoundRestored == SInv => Restored
<1> SUFFICES ASSUME SInv, calls = <<>>, ~refused, NEW i \in Items, NEW c \in Cals
             PROVE  cals[c][i].ver = IF wanted[i].cal = c THEN wanted[i].ver ELSE 0
  BY DEF Restored
<1>1. PICK now \in [Items -> Item] : Line(now) /\ Going(now)
  BY DEF SInv, Going
<1>2. \A a, b : <<>> # <<a>> /\ <<>> # <<a, b>>
  OBVIOUS
<1>3. \A t, x : DoCalls(t, x) # <<>> /\ UndoCalls(t, x) # <<>>
  BY <1>2 DEF DoCalls, UndoCalls
<1>4. Quiet(now)
  BY <1>1, <1>2, <1>3 DEF Going, Busy, Redoing, Undoing
<1>5. wanted[i] = Where(now[i]) /\ cals[c][i] = IF now[i].cal = c THEN Content(now[i]) ELSE Gone
  BY <1>1, <1>4 DEF Line, Quiet, Holds
<1> QED
  BY <1>5 DEF Where, Content, Gone

\* An operation on an item that is as the transaction has it is accepted by any calendar.
LEMMA CurrentAccepted ==
    ASSUME NEW c, c.op \in {"add", "modify", "delete"},
           c.op = "add" => cals[c.cal][c.id] = Gone,
           c.op = "modify" => cals[c.cal][c.id] = Content(c.old) /\ c.old.ver # 0,
           c.op = "delete" => cals[c.cal][c.id] = Content(c.item) /\ c.item.ver # 0
    PROVE  Accepts(c)
<1>1. Content(c.old).gen = c.old.gen /\ (c.old.ver # 0 => Content(c.old) # Gone)
  BY DEF Content, Gone
<1>2. Content(c.item).gen = c.item.gen /\ (c.item.ver # 0 => Content(c.item) # Gone)
  BY DEF Content, Gone
<1>3. StorageAccepts(c, cals[c.cal][c.id])
  BY <1>1 DEF StorageAccepts
<1>4. MemoryAccepts(c, cals[c.cal][c.id])
  <2>1. c.op = "modify" => cals[c.cal][c.id] = [ver |-> c.old.ver, gen |-> c.old.gen]
    BY DEF Content
  <2> QED
    BY <1>2, <2>1 DEF MemoryAccepts
<1> QED
  BY <1>3, <1>4 DEF Accepts

LEMMA RedoAccepted ==
    ASSUME IInv, NEW now, Line(now), NEW t \in DOMAIN txns, NEW x \in Txn, x = txns[t],
           Redoing(t, x, now)
    PROVE  \A k \in DOMAIN calls : Accepts(calls[k])
<1>1. x.isDo /\ TxnFits(x) /\ Sound(x)
  BY DEF Redoing, IInv, Fits, Line
<1>2. /\ x.id \in Items /\ x.cal \in Cals /\ x.item \in Item /\ x.old \in Item
      /\ x.action \in {"add", "modify", "delete"} /\ x.item.cal = x.cal /\ x.item.ver # 0
      /\ x.action = "modify" => x.old.cal \in Cals /\ x.old.ver # 0
  BY <1>1 DEF Txn, Sound, TxnFits
<1>3. ASSUME NEW c, calls = <<c>>, Accepts(c) PROVE \A k \in DOMAIN calls : Accepts(calls[k])
  <2>1. \A k \in DOMAIN <<c>> : <<c>>[k] = c
    OBVIOUS
  <2> QED
    BY <1>3, <2>1
<1>4. CASE calls = DoCalls(t, x) /\ Holds(x.id, Before(x)) /\ ~Moves(x)
  <2>1. PICK c : c = Ask(x.action, x.cal, t, x.id, x.item, x.old)
    OBVIOUS
  <2>2. c.op = x.action /\ c.cal = x.cal /\ c.id = x.id /\ c.item = x.item /\ c.old = x.old
    BY <2>1 DEF Ask
  <2>3. calls = <<c>>
    BY <1>4, <2>1 DEF DoCalls
  <2>4. CASE x.action = "add"
    BY <1>2, <1>3, <1>4, <2>2, <2>3, <2>4, CurrentAccepted, CalendarNames DEF Holds, Before, NoItem
  <2>5. CASE x.action = "delete"
    BY <1>2, <1>3, <1>4, <2>2, <2>3, <2>5, CurrentAccepted DEF Holds, Before
  <2>6. CASE x.action = "modify"
    BY <1>2, <1>3, <1>4, <2>2, <2>3, <2>6, CurrentAccepted DEF Holds, Before, Moves
  <2> QED
    BY <1>2, <2>4, <2>5, <2>6
<1>5. CASE calls = DoCalls(t, x) /\ Holds(x.id, Before(x)) /\ Moves(x)
  <2>1. PICK c : c = [Ask("add", x.cal, t, x.id, x.item, NoItem) EXCEPT !.then = "deleteOld"]
    OBVIOUS
  <2>2. c.op = "add" /\ c.cal = x.cal /\ c.id = x.id
    BY <2>1 DEF Ask
  <2>3. calls = <<c>>
    BY <1>5, <2>1 DEF DoCalls
  <2>4. cals[x.cal][x.id] = Gone
    BY <1>2, <1>5 DEF Holds, Before, Moves
  <2> QED
    BY <1>3, <2>2, <2>3, <2>4, CurrentAccepted
<1>6. CASE /\ Moves(x) /\ calls = <<Ask("delete", x.old.cal, t, x.id, x.old, NoItem)>>
           /\ HoldsBoth(x.id, x.item, x.old)
  <2>1. PICK c : c = Ask("delete", x.old.cal, t, x.id, x.old, NoItem)
    OBVIOUS
  <2>2. c.op = "delete" /\ c.cal = x.old.cal /\ c.id = x.id /\ c.item = x.old
    BY <2>1 DEF Ask
  <2>3. cals[x.old.cal][x.id] = Content(x.old) /\ x.old.ver # 0
    BY <1>2, <1>6 DEF HoldsBoth, Moves
  <2> QED
    BY <1>3, <1>6, <2>1, <2>2, <2>3, CurrentAccepted
<1> QED
  BY <1>4, <1>5, <1>6 DEF Redoing

LEMMA UndoAccepted ==
    ASSUME IInv, NEW now, Line(now), NEW t \in DOMAIN txns, NEW x \in Txn, x = txns[t],
           Undoing(t, x, now)
    PROVE  \A k \in DOMAIN calls : Accepts(calls[k])
<1>1. ~x.isDo /\ TxnFits(x) /\ Sound(x) /\ Settled(x)
  BY DEF Undoing, IInv, Fits, Line
<1>2. /\ x.id \in Items /\ x.cal \in Cals /\ x.item \in Item /\ x.old \in Item
      /\ x.action \in {"add", "modify", "delete"} /\ x.item.cal = x.cal /\ x.item.ver # 0
      /\ x.action = "modify" => x.old.cal \in Cals /\ x.old.ver # 0
      /\ Moves(x) => x.oldCal = x.old.cal /\ x.old.cal # x.cal
      /\ x.action # "delete" => After(x) = x.item
      /\ x.action = "delete" => After(x) = NoItem
  BY <1>1 DEF Txn, Sound, TxnFits, Moves, After
<1>3. ASSUME NEW c, calls = <<c>>, Accepts(c) PROVE \A k \in DOMAIN calls : Accepts(calls[k])
  <2>1. \A k \in DOMAIN <<c>> : <<c>>[k] = c
    OBVIOUS
  <2> QED
    BY <1>3, <2>1
<1>4. ASSUME cals[x.cal][x.id] = Content(x.item)
      PROVE  Accepts(Ask("delete", x.cal, t, x.id, x.item, NoItem))
  <2>1. PICK c : c = Ask("delete", x.cal, t, x.id, x.item, NoItem)
    OBVIOUS
  <2>2. c.op = "delete" /\ c.cal = x.cal /\ c.id = x.id /\ c.item = x.item
    BY <2>1 DEF Ask
  <2>3. Accepts(c)
    BY <1>2, <1>4, <2>2, CurrentAccepted
  <2> QED
    BY <2>1, <2>3
<1>5. ASSUME NEW b, NEW item, cals[b][x.id] = Gone
      PROVE  Accepts(Ask("add", b, t, x.id, item, NoItem))
  <2>1. PICK c : c = Ask("add", b, t, x.id, item, NoItem)
    OBVIOUS
  <2>2. c.op = "add" /\ c.cal = b /\ c.id = x.id
    BY <2>1 DEF Ask
  <2>3. Accepts(c)
    BY <1>5, <2>2, CurrentAccepted
  <2> QED
    BY <2>1, <2>3
<1>6. CASE calls = UndoCalls(t, x) /\ Holds(x.id, After(x))
  <2>1. CASE x.action = "add"
    <3>1. calls = <<Ask("delete", x.cal, t, x.id, x.item, NoItem)>>
      BY <1>6, <2>1 DEF UndoCalls
    <3>2. cals[x.cal][x.id] = Content(x.item)
      BY <1>2, <1>6, <2>1 DEF Holds
    <3> QED
      BY <1>3, <1>4, <3>1, <3>2
  <2>2. CASE x.action = "delete"
    <3>1. calls = <<Ask("add", x.cal, t, x.id, x.item, NoItem)>>
      BY <1>6, <2>2 DEF UndoCalls
    <3>2. cals[x.cal][x.id] = Gone
      BY <1>2, <1>6, <2>2, CalendarNames DEF Holds, NoItem
    <3> QED
      BY <1>3, <1>5, <3>1, <3>2
  <2>3. CASE x.action = "modify" /\ ~Moves(x)
    <3>1. PICK c : c = Ask("modify", x.cal, t, x.id, x.old, x.item)
      OBVIOUS
    <3>2. c.op = "modify" /\ c.cal = x.cal /\ c.id = x.id /\ c.old = x.item
      BY <3>1 DEF Ask
    <3>3. calls = <<c>>
      BY <1>6, <2>3, <3>1 DEF UndoCalls
    <3>4. cals[x.cal][x.id] = Content(x.item)
      BY <1>2, <1>6, <2>3 DEF Holds
    <3> QED
      BY <1>2, <1>3, <3>2, <3>3, <3>4, CurrentAccepted
  <2>4. CASE x.action = "modify" /\ Moves(x)
    <3>1. PICK c, d : /\ c = Ask("delete", x.cal, t, x.id, x.item, NoItem)
                      /\ d = Ask("add", x.oldCal, t, x.id, x.old, NoItem)
      OBVIOUS
    <3>2. calls = <<c, d>>
      BY <1>6, <2>4, <3>1 DEF UndoCalls
    <3>3. cals[x.cal][x.id] = Content(x.item) /\ cals[x.oldCal][x.id] = Gone
      BY <1>2, <1>6, <2>4 DEF Holds
    <3>4. Accepts(c) /\ Accepts(d)
      BY <1>4, <1>5, <3>1, <3>3
    <3>5. \A k \in DOMAIN <<c, d>> : <<c, d>>[k] = c \/ <<c, d>>[k] = d
      OBVIOUS
    <3> QED
      BY <3>2, <3>4, <3>5
  <2> QED
    BY <1>2, <2>1, <2>2, <2>3, <2>4
<1>7. CASE /\ Moves(x) /\ calls = <<Ask("delete", x.cal, t, x.id, x.item, NoItem)>>
           /\ HoldsBoth(x.id, x.item, x.old)
  <2>1. cals[x.cal][x.id] = Content(x.item)
    BY <1>2, <1>7 DEF HoldsBoth
  <2> QED
    BY <1>3, <1>4, <1>7, <2>1
<1>8. CASE /\ Moves(x) /\ calls = <<Ask("add", x.oldCal, t, x.id, x.old, NoItem)>>
           /\ Holds(x.id, NoItem)
  <2>1. cals[x.oldCal][x.id] = Gone
    BY <1>2, <1>8, CalendarNames DEF Holds, NoItem, Moves
  <2> QED
    BY <1>3, <1>5, <1>8, <2>1
<1> QED
  BY <1>6, <1>7, <1>8 DEF Undoing

LEMMA SoundAccepted == IInv /\ SInv => NothingStale
<1> SUFFICES ASSUME IInv, SInv, ~refused PROVE \A k \in DOMAIN calls : Accepts(calls[k])
  BY DEF NothingStale
<1>1. PICK now \in [Items -> Item] : Line(now) /\ Going(now)
  BY DEF SInv, Going
<1>2. CASE Quiet(now)
  <2>1. DOMAIN <<>> = {}
    OBVIOUS
  <2> QED
    BY <1>2, <2>1 DEF Quiet
<1>3. CASE \E t \in DOMAIN txns, x \in Txn : Busy(t, x, now)
  <2>1. PICK t \in DOMAIN txns, x \in Txn : Busy(t, x, now)
    BY <1>3
  <2>2. CASE Redoing(t, x, now)
    BY <1>1, <2>1, <2>2, RedoAccepted DEF Busy
  <2>3. CASE Undoing(t, x, now)
    BY <1>1, <2>1, <2>3, UndoAccepted DEF Busy
  <2> QED
    BY <2>1, <2>2, <2>3 DEF Busy
<1> QED
  BY <1>1, <1>2, <1>3 DEF Going

\* UndoRestores: undo restores what a transaction found and redo what it made, over any
\* sequence of transactions on any items, moves included, if the user waits for the answers.
THEOREM UndoRestores == "impatient" \notin Disturbances => (Spec => []Restored)
<1>1. Init => SoundInv
  BY InitSoundInv
<1>2. SoundInv => Restored
  BY SoundRestored DEF SoundInv
<1>3. ASSUME "impatient" \notin Disturbances PROVE Spec => []Restored
  <2>1. SoundInv /\ [Next]_vars => SoundInv'
    BY <1>3, SoundStep
  <2> QED
    BY <1>1, <1>2, <2>1, PTL DEF Spec
<1> QED
  BY <1>3

\* TransactionsCurrent: what a transaction asks for is never refused for a generation, a content
\* or an id that is not the stored one, by a storage calendar or by one in memory, if the user
\* waits for the answers.
THEOREM TransactionsCurrent == "impatient" \notin Disturbances => (Spec => []NothingStale)
<1>1. Init => SoundInv
  BY InitSoundInv
<1>2. SoundInv => NothingStale
  BY SoundAccepted DEF SoundInv
<1>3. ASSUME "impatient" \notin Disturbances PROVE Spec => []NothingStale
  <2>1. SoundInv /\ [Next]_vars => SoundInv'
    BY <1>3, SoundStep
  <2> QED
    BY <1>1, <1>2, <2>1, PTL DEF Spec
<1> QED
  BY <1>3
=============================================================================
