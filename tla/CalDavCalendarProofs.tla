------------------------- MODULE CalDavCalendarProofs -------------------------
(***************************************************************************)
(* Theorems about CalDavCalendar: its types, that a change of the user     *)
(* replaces only what he has seen, and that the stored sync token stands   *)
(* for what the cache holds.  They are for all sets of items and           *)
(* refreshes and batches of any size.  The first holds whatever happens;   *)
(* the second and the third need that the cache tells flags before the     *)
(* next answer of the server, and the third that answers come in order and *)
(* that no multiget fails in a way the calendar does not notice (Prompt).  *)
(***************************************************************************)
EXTENDS CalDavCalendar, SequenceTheorems, FiniteSetTheorems, TLAPS

-----------------------------------------------------------------------------
(* The inductive invariants *)

ServerTyped ==
    /\ mode \in {"ctag", "sync"}
    /\ server \in [Items -> Stamps] /\ changed \in [Items -> Stamps]
    /\ stamp \in Stamps /\ failures \in 0 .. MaxFailures
CacheTyped ==
    /\ etag \in [Items -> Stamps] /\ row \in [Items -> Stamps]
    /\ known \in [Items -> BOOLEAN] /\ late \in [Items -> Stamps]
FlagsTyped ==
    /\ tag \in Stamps /\ saved \in BOOLEAN /\ checked \in BOOLEAN
    /\ refreshed \in BOOLEAN /\ disabled \in BOOLEAN
    /\ waiting \in BOOLEAN
WireTyped == answer \in [Chains -> Answer] /\ wire \in Seq(Chains)

\* A request that is well formed: what is fetched is not empty, now or with a later batch.
Formed(q) ==
    /\ q \in Request
    /\ q.kind = "multi" => q.about # {}
    /\ q.kind = "batch" => q.need # {}
ChainsTyped == chain \in [Chains -> Request] /\ \A c \in Chains : Formed(chain[c])

\* TypeOK in groups, and that a batch is left for the timer.
TInv == ServerTyped /\ CacheTyped /\ FlagsTyped /\ WireTyped /\ ChainsTyped /\ overlapped \in BOOLEAN

\* The rows have meta data.  What waits for a flag is what the etag stands for.  The
\* user changes what the row holds, which does not change while a flag is asked for, so
\* that the If-Match header names the content he has changed.
Matched ==
    /\ RowsTagged
    /\ \A i \in Items :
        /\ row[i] # 0 => known[i]
        /\ late[i] # 0 => known[i] /\ late[i] = etag[i] /\ chain[i].kind # "flag"
        /\ chain[i].kind = "flag" => row[i] # 0 /\ chain[i].base = row[i]
        /\ chain[i].kind \in {"modify", "delete"} => chain[i].match = chain[i].base

KInv == TInv /\ Matched

LEMMA TInvTypes == TInv => TypeOK
BY DEF TInv, TypeOK, ServerTyped, CacheTyped, FlagsTyped, WireTyped, ChainsTyped, Formed

-----------------------------------------------------------------------------
(* Requests *)

\* A request that is neither a change of the user nor the question for its flag.
Plain(q) == Formed(q) /\ q.kind \notin {"flag", "modify", "delete"}

LEMMA Zero == 0 \in Stamps
BY CalDavConstants DEF Stamps

LEMMA AskPlain ==
    ASSUME NEW k \in {"none", "type", "caps", "ctag", "etags", "report"}
    PROVE  Plain(Ask(k)) /\ Ask(k).kind = k
BY Zero DEF Ask, Plain, Formed, Request, Queries

LEMMA IdlePlain == Plain(Idle)
BY AskPlain DEF Idle

LEMMA NothingTyped == Nothing \in [Items -> Stamps] /\ \A i \in Items : Nothing[i] = 0
BY Zero DEF Nothing

LEMMA NoAnswerTyped == NoAnswer \in Answer
BY Zero, NothingTyped DEF NoAnswer, Answer

LEMMA GetUpdatedItemsPlain ==
    ASSUME ServerTyped, NEW t \in Stamps, NEW off \in BOOLEAN
    PROVE  Plain(GetUpdatedItems(t, off))
<1>1. CASE off
  BY <1>1, AskPlain DEF GetUpdatedItems
<1>2. CASE ~off /\ mode = "sync"
  <2>1. GetUpdatedItems(t, off) = [Ask("report") EXCEPT !.token = t]
    BY <1>2 DEF GetUpdatedItems
  <2> QED
    BY <2>1, Zero DEF Ask, Plain, Formed, Request, Queries
<1>3. CASE ~off /\ mode = "ctag"
  BY <1>3, AskPlain DEF GetUpdatedItems
<1> QED
  BY <1>1, <1>2, <1>3 DEF ServerTyped

LEMMA SafeRefreshPlain ==
    ASSUME ServerTyped, NEW t \in Stamps, NEW done \in BOOLEAN, NEW off \in BOOLEAN
    PROVE  Plain(SafeRefresh(t, done, off))
BY GetUpdatedItemsPlain, AskPlain DEF SafeRefresh

\* A batch of what needs fetching is not empty.
LEMMA BatchNotEmpty ==
    ASSUME NEW need \in SUBSET Items, need # {}, NEW b \in Batches(need)
    PROVE  b \in SUBSET Items /\ b # {}
<1>1. Cardinality({}) = 0
  BY FS_EmptySet
<1> QED
  BY <1>1, CalDavConstants DEF Batches

LEMMA DoMultiGetPlain ==
    ASSUME NEW r \in Request, NEW need \in SUBSET Items, need # {}, NEW off \in BOOLEAN,
           NEW q \in DoMultiGet(r, need, off)
    PROVE  Plain(q)
<1>1. CASE off
  BY <1>1, AskPlain DEF DoMultiGet
<1>2. CASE ~off
  <2>1. PICK b \in Batches(need) :
            q = [r EXCEPT !.kind = "multi", !.about = b, !.need = need \ b]
    BY <1>2 DEF DoMultiGet
  <2>2. b \in SUBSET Items /\ b # {}
    BY BatchNotEmpty
  <2> QED
    BY <2>1, <2>2 DEF Plain, Formed, Request, Queries
<1> QED
  BY <1>1, <1>2

\* A chain goes on with a plain request: the others are as they were.
LEMMA BecomesPlain ==
    ASSUME ChainsTyped, NEW c \in Chains, NEW q, Plain(q), Become(c, q)
    PROVE  /\ ChainsTyped'
           /\ \A i \in Items : chain'[i].kind \in {"flag", "modify", "delete"} =>
                  chain'[i] = chain[i]
<1>1. chain' = [chain EXCEPT ![c] = q] /\ q \in Request
  BY DEF Become, Plain, Formed
<1>2. chain' \in [Chains -> Request]
  BY <1>1 DEF ChainsTyped
<1>3. \A d \in Chains : chain'[d] = IF d = c THEN q ELSE chain[d]
  BY <1>1 DEF ChainsTyped
<1> QED
  BY <1>2, <1>3 DEF ChainsTyped, Plain, Chains, Formed, Request

-----------------------------------------------------------------------------
(* The wire *)

LEMMA ReplyTyped ==
    ASSUME WireTyped, NEW c \in Chains, NEW about \in SUBSET Items,
           NEW status \in {"ok", "partial", "conflict", "gone", "failed", "cut", "other"},
           server' \in [Items -> Stamps], stamp' \in Stamps, Reply(c, status, about)
    PROVE  WireTyped'
<1>1. wire' \in Seq(Chains)
  BY AppendProperties DEF Reply, WireTyped
<1>2. [status |-> status, about |-> about, seen |-> server', stamp |-> stamp'] \in Answer
  BY DEF Answer
<1>3. answer' \in [Chains -> Answer]
  BY <1>2 DEF Reply, WireTyped
<1> QED
  BY <1>1, <1>3 DEF WireTyped

\* An answer arrives: the wire stays a sequence, and nobody asks for a flag.
LEMMA HandlesTyped ==
    ASSUME TInv, NEW c \in Chains, NEW kinds, Handles(c, kinds)
    PROVE  /\ WireTyped' /\ ServerTyped'
           /\ "slow" \notin Disturbances =>
                  \A i \in Items : chain[i].kind # "flag" /\ late[i] = 0
<1>1. PICK k \in DOMAIN wire :
          wire' = [j \in 1 .. Len(wire) - 1 |-> IF j < k THEN wire[j] ELSE wire[j + 1]]
  BY DEF Handles, Arrives
<1>2. wire \in Seq(Chains) /\ Len(wire) \in Nat /\ DOMAIN wire = 1 .. Len(wire)
      /\ \A j \in 1 .. Len(wire) : wire[j] \in Chains
  BY LenProperties, ElementOfSeq DEF TInv, WireTyped
<1>3. Len(wire) - 1 \in Nat
  BY <1>1, <1>2
<1>4. \A j \in 1 .. Len(wire) - 1 : (IF j < k THEN wire[j] ELSE wire[j + 1]) \in Chains
  BY <1>2
<1>5. wire' \in Seq(Chains)
  BY <1>1, <1>3, <1>4, IsASeq
<1>6. answer' \in [Chains -> Answer]
  BY NoAnswerTyped DEF Handles, TInv, WireTyped
<1>7. ServerTyped'
  BY DEF Handles, serverVars, TInv, ServerTyped
<1>8. "slow" \notin Disturbances => \A i \in Items : ~FlagPending(i)
  BY DEF Handles, Arrives
<1> QED
  BY <1>5, <1>6, <1>7, <1>8 DEF WireTyped, FlagPending

-----------------------------------------------------------------------------
(* The server's steps *)

\* What a step of the server, or of others, leaves alone.
ClientUnchanged == UNCHANGED <<cacheVars, flagVars, tag, saved, waiting, chain>>

LEMMA ReplyLeaves ==
    ASSUME NEW c, NEW status, NEW about, Reply(c, status, about)
    PROVE  ClientUnchanged /\ mode' = mode
BY DEF Reply, ClientUnchanged

LEMMA ServerKeeps ==
    ASSUME TInv, ClientUnchanged, ServerTyped', WireTyped', overlapped' \in BOOLEAN
    PROVE  TInv' /\ (Matched => Matched')
BY DEF TInv, ClientUnchanged, cacheVars, flagVars, CacheTyped, FlagsTyped, ChainsTyped, Formed,
       Matched, RowsTagged

LEMMA NextStamp ==
    ASSUME ServerTyped, stamp < MaxStamp
    PROVE  stamp + 1 \in Stamps
BY CalDavConstants DEF ServerTyped, Stamps

LEMMA ServerSteps ==
    ASSUME TInv, NEW c \in Chains, ServerStep(c)
    PROVE  ClientUnchanged /\ ServerTyped' /\ WireTyped'
<1> USE DEF TInv
<1>1. CASE AnswerQuery(c)
  <2>1. Reported(chain[c]) \in SUBSET Items
    BY DEF Reported, ChainsTyped, Request
  <2>2. PICK status \in {"ok", "other"}, about \in SUBSET Items :
            Reply(c, status, about) /\ UNCHANGED <<server, changed, stamp, failures>>
    BY <1>1, <2>1 DEF AnswerQuery
  <2>3. ClientUnchanged /\ ServerTyped'
    BY <2>2, ReplyLeaves DEF ServerTyped
  <2> QED
    BY <2>1, <2>2, <2>3, ReplyTyped DEF ServerTyped
<1>2. CASE AnswerFailure(c)
  <2>1. UNCHANGED <<server, changed, stamp>> /\ failures' \in 0 .. MaxFailures
    BY <1>2, CalDavConstants DEF AnswerFailure, ServerTyped
  <2>2. PICK status \in {"ok", "partial", "gone", "failed", "cut"}, about \in SUBSET Items :
            Reply(c, status, about)
    <3>1. chain[c].about \in SUBSET Items
      BY DEF ChainsTyped, Request
    <3> QED
      BY <1>2, <3>1 DEF AnswerFailure
  <2>3. ClientUnchanged /\ ServerTyped'
    BY <2>1, <2>2, ReplyLeaves DEF ServerTyped
  <2> QED
    BY <2>1, <2>2, <2>3, ReplyTyped DEF ServerTyped
<1>3. CASE c \in Items /\ AnswerWrite(c)
  <2>1. PICK status \in {"ok", "failed", "conflict"} : Reply(c, status, {c})
    BY <1>3 DEF AnswerWrite
  <2>2. server' \in [Items -> Stamps] /\ changed' \in [Items -> Stamps] /\ stamp' \in Stamps
        /\ failures' \in 0 .. MaxFailures
    <3>1. CASE Accepted(chain[c], c) /\ stamp < MaxStamp /\ failures' = failures
               /\ stamp' = stamp + 1
               /\ changed' = [changed EXCEPT ![c] = stamp']
               /\ \E s \in {0, stamp'} : server' = [server EXCEPT ![c] = s]
      BY <3>1, NextStamp, Zero DEF ServerTyped
    <3>2. CASE UNCHANGED <<server, changed, stamp>> /\ failures' \in {failures, failures + 1}
               /\ failures' <= MaxFailures
      BY <3>2, CalDavConstants DEF ServerTyped
    <3> QED
      BY <1>3, <3>1, <3>2 DEF AnswerWrite
  <2>3. ClientUnchanged /\ ServerTyped'
    BY <2>1, <2>2, ReplyLeaves DEF ServerTyped
  <2> QED
    BY <1>3, <2>1, <2>2, <2>3, ReplyTyped DEF ServerTyped
<1>4. CASE c \in Items /\ AnswerHead(c)
  <2>1. PICK status \in {"ok", "gone"} : Reply(c, status, {c})
    BY <1>4 DEF AnswerHead
  <2>2. ClientUnchanged /\ ServerTyped'
    BY <1>4, <2>1, ReplyLeaves DEF ServerTyped, AnswerHead
  <2> QED
    BY <1>4, <2>1, <2>2, ReplyTyped DEF ServerTyped
<1> QED
  BY <1>1, <1>2, <1>3, <1>4 DEF ServerStep

LEMMA OthersSteps ==
    ASSUME TInv, NEW i \in Items, Others(i)
    PROVE  ClientUnchanged /\ ServerTyped' /\ WireTyped'
<1>1. ClientUnchanged /\ WireTyped'
  BY DEF Others, ClientUnchanged, TInv, WireTyped, cacheVars, flagVars
<1>2. stamp < MaxStamp
  <2>1. Cardinality(Writing) \in Nat
    BY CalDavConstants, FS_Subset, FS_CardinalityType DEF Writing
  <2> QED
    BY <2>1, CalDavConstants DEF Others, RoomToWrite, TInv, ServerTyped, Stamps
<1>3. stamp + 1 \in Stamps
  BY <1>2, NextStamp DEF TInv
<1> QED
  BY <1>1, <1>3, Zero DEF Others, TInv, ServerTyped

-----------------------------------------------------------------------------
(* What the calendar does *)

\* What is stored in the cache is what is put in the index.
LEMMA UpdateTyped ==
    ASSUME CacheTyped, NEW fresh \in SUBSET Items, NEW gone \in SUBSET Items,
           NEW etags \in [Items -> Stamps], NEW rows \in [Items -> Stamps],
           Update(fresh, gone, etags, rows), late' \in [Items -> Stamps]
    PROVE  CacheTyped'
BY Zero DEF Update, CacheTyped

LEMMA AnswerTyped ==
    ASSUME TInv, NEW c \in Chains
    PROVE  /\ answer[c] \in Answer /\ answer[c].about \in SUBSET Items
           /\ answer[c].seen \in [Items -> Stamps] /\ answer[c].stamp \in Stamps
           /\ Differing(answer[c]) \in SUBSET Items
           /\ chain[c] \in Request /\ Formed(chain[c])
BY DEF TInv, WireTyped, Answer, Differing, ChainsTyped

\* What a step of the calendar has to show: a chain goes on with a plain request.
Goes(c) == \E q : Plain(q) /\ Become(c, q)

LEMMA GoesOn ==
    ASSUME TInv, NEW c \in Chains, Goes(c), ServerTyped', WireTyped', CacheTyped', FlagsTyped',
           overlapped' \in BOOLEAN
    PROVE  /\ TInv'
           /\ \A i \in Items : chain'[i].kind \in {"flag", "modify", "delete"} =>
                  chain'[i] = chain[i]
BY BecomesPlain DEF Goes, TInv

LEMMA GoesFetching ==
    ASSUME TInv, NEW c \in Chains, NEW r \in Request, NEW need \in SUBSET Items, need # {},
           \E q \in DoMultiGet(r, need, disabled) : Become(c, q)
    PROVE  Goes(c)
BY DoMultiGetPlain DEF Goes, TInv, FlagsTyped

LEMMA FinalizeTyped ==
    ASSUME TInv, NEW c \in Chains, NEW token \in Stamps, Finalize(c, token)
    PROVE  /\ tag' \in Stamps /\ saved' \in BOOLEAN /\ refreshed' \in BOOLEAN
           /\ waiting' \in BOOLEAN /\ Goes(c)
BY IdlePlain DEF Finalize, Notify, Goes, TInv, FlagsTyped

\* The steps that leave the cache alone.
LEMMA TypeSteps ==
    ASSUME TInv, NEW c \in Chains, OnType(c) \/ OnCaps(c) \/ OnCtag(c)
    PROVE  Goes(c) /\ FlagsTyped' /\ UNCHANGED cacheVars
<1> USE DEF TInv, FlagsTyped
<1>1. answer[c].stamp \in Stamps
  BY AnswerTyped
<1>2. CASE OnType(c)
  <2>1. Goes(c)
    BY <1>2, AskPlain, IdlePlain DEF OnType, Goes
  <2>2. FlagsTyped'
    BY <1>1, <1>2 DEF OnType, Notify
  <2> QED
    BY <1>2, <2>1, <2>2 DEF OnType
<1>3. CASE OnCaps(c)
  <2>1. Goes(c)
    BY <1>3, SafeRefreshPlain, IdlePlain DEF OnCaps, Goes
  <2>2. FlagsTyped'
    BY <1>3 DEF OnCaps, Notify
  <2> QED
    BY <1>3, <2>1, <2>2 DEF OnCaps
<1>4. CASE OnCtag(c)
  <2>1. Goes(c)
    BY <1>1, <1>4, GetUpdatedItemsPlain, AskPlain, IdlePlain DEF OnCtag, Goes
  <2>2. FlagsTyped'
    BY <1>1, <1>4 DEF OnCtag, Notify, flagVars
  <2> QED
    BY <1>4, <2>1, <2>2 DEF OnCtag
<1> QED
  BY <1>2, <1>3, <1>4

\* What the cache holds fits together.
CacheMatched ==
    \A i \in Items :
        /\ row[i] # 0 => known[i] /\ etag[i] = row[i]
        /\ late[i] # 0 => known[i] /\ late[i] = etag[i]

\* The cache does not look for a flag.
Quiet == \A i \in Items : chain[i].kind # "flag" /\ late[i] = 0

LEMMA EtagsStep ==
    ASSUME TInv, NEW c \in Chains, OnEtags(c)
    PROVE  Goes(c) /\ FlagsTyped' /\ CacheTyped' /\ (Quiet /\ CacheMatched => CacheMatched')
<1> USE DEF TInv
<1>1. Goes(c)
  <2>1. CASE answer[c].status = "ok" /\ Differing(answer[c]) # {}
    <3>1. Idle \in Request /\ Differing(answer[c]) \in SUBSET Items
      BY IdlePlain, AnswerTyped DEF Plain, Formed
    <3>2. \E q \in DoMultiGet(Idle, Differing(answer[c]), disabled) : Become(c, q)
      BY <2>1 DEF OnEtags
    <3> QED
      BY <2>1, <3>1, <3>2, GoesFetching
  <2>2. CASE ~(answer[c].status = "ok" /\ Differing(answer[c]) # {})
    BY <2>2, IdlePlain DEF OnEtags, Goes
  <2> QED
    BY <2>1, <2>2
<1>2. FlagsTyped'
  BY DEF OnEtags, Notify, FlagsTyped
<1>3. CacheTyped'
  BY Zero DEF OnEtags, CacheTyped
<1>4. Quiet /\ CacheMatched => CacheMatched'
  BY DEF OnEtags, CacheMatched, Quiet, CacheTyped
<1> QED
  BY <1>1, <1>2, <1>3, <1>4

LEMMA ReportStep ==
    ASSUME TInv, NEW c \in Chains, OnReport(c)
    PROVE  Goes(c) /\ FlagsTyped' /\ CacheTyped' /\ (Quiet /\ CacheMatched => CacheMatched')
<1> USE DEF TInv
<1>1. CASE answer[c].status = "ok"
  <2> DEFINE gone == Deletable((answer[c].about \ {i \in answer[c].about : answer[c].seen[i] # 0})
                       \cup (IF tag = 0 THEN Items \ {i \in answer[c].about : answer[c].seen[i] # 0}
                             ELSE {}))
  <2>1. ReportRead(c) /\ late' = late /\ checked' = checked
    BY <1>1 DEF OnReport
  <2>2. Update({}, gone, etag, row) /\ gone \in SUBSET Items
    BY <2>1, AnswerTyped DEF ReportRead, Deletable
  <2>3. CacheTyped'
    BY <2>1, <2>2, UpdateTyped DEF CacheTyped
  <2>4. Quiet /\ CacheMatched => CacheMatched'
    BY <2>1, <2>2 DEF Update, CacheMatched, Quiet, CacheTyped
  <2>5. CASE Differing(answer[c]) = {}
    <3>1. Finalize(c, answer[c].stamp) /\ disabled' = disabled
      BY <2>1, <2>5 DEF ReportRead
    <3>2. answer[c].stamp \in Stamps
      BY AnswerTyped
    <3> QED
      BY <2>1, <2>3, <2>4, <3>1, <3>2, FinalizeTyped DEF FlagsTyped
  <2>6. CASE Differing(answer[c]) # {}
    <3>1. [Idle EXCEPT !.token = answer[c].stamp] \in Request
      BY IdlePlain, AnswerTyped DEF Plain, Formed, Request
    <3>2. Differing(answer[c]) \in SUBSET Items
      BY AnswerTyped
    <3>3. \E q \in DoMultiGet([Idle EXCEPT !.token = answer[c].stamp], Differing(answer[c]), disabled) :
              Become(c, q)
      BY <2>1, <2>6 DEF ReportRead
    <3>4. Goes(c)
      BY <2>6, <3>1, <3>2, <3>3, GoesFetching
    <3>5. FlagsTyped'
      BY <2>1, <2>6 DEF ReportRead, FlagsTyped
    <3> QED
      BY <2>3, <2>4, <3>4, <3>5
  <2> QED
    BY <2>5, <2>6
<1>2. CASE answer[c].status # "ok"
  <2>1. UNCHANGED cacheVars
    BY <1>2 DEF OnReport, cacheVars
  <2>2. Goes(c)
    BY <1>2, SafeRefreshPlain, Zero, IdlePlain DEF OnReport, Goes, FlagsTyped
  <2>3. FlagsTyped'
    BY <1>2, Zero DEF OnReport, Notify, FlagsTyped
  <2> QED
    BY <2>1, <2>2, <2>3 DEF cacheVars, CacheTyped, CacheMatched
<1> QED
  BY <1>1, <1>2

LEMMA MultiReadStep ==
    ASSUME TInv, NEW c \in Chains, MultiRead(c)
    PROVE  CacheTyped' /\ (Quiet /\ CacheMatched => CacheMatched')
<1> DEFINE a == answer[c]
           fresh == Differing(a)
           gone == Deletable({i \in a.about : a.seen[i] = 0})
           rows == IF chain[c].op = "delete" THEN Nothing ELSE a.seen
<1>1. a.seen \in [Items -> Stamps] /\ fresh \in SUBSET Items /\ gone \in SUBSET Items
      /\ rows \in [Items -> Stamps]
  BY AnswerTyped, NothingTyped DEF Deletable
<1>2. Update(fresh, gone, a.seen, rows)
  BY DEF MultiRead
<1>3. late' = [i \in Items |-> IF i \in fresh /\ chain[c].op = "modify" THEN a.seen[i] ELSE late[i]]
  BY DEF MultiRead
<1>4. CacheTyped'
  <2>1. late' \in [Items -> Stamps]
    BY <1>1, <1>3 DEF TInv, CacheTyped
  <2> QED
    BY <1>1, <1>2, <2>1, UpdateTyped DEF TInv
<1>5. ASSUME Quiet, CacheMatched  PROVE CacheMatched'
  <2> SUFFICES ASSUME NEW i \in Items
               PROVE  /\ row'[i] # 0 => known'[i] /\ etag'[i] = row'[i]
                      /\ late'[i] # 0 => known'[i] /\ late'[i] = etag'[i]
    BY DEF CacheMatched
  <2>1. rows[i] # 0 => rows[i] = a.seen[i]
    BY NothingTyped
  <2>2. CASE i \in fresh
    BY <1>2, <1>3, <1>5, <2>1, <2>2 DEF Update, Quiet
  <2>3. CASE i \notin fresh
    BY <1>2, <1>3, <1>5, <2>3 DEF Update, Quiet, CacheMatched
  <2> QED
    BY <2>2, <2>3
<1> QED
  BY <1>4, <1>5

LEMMA MultiStep ==
    ASSUME TInv, NEW c \in Chains, OnMulti(c)
    PROVE  Goes(c) /\ FlagsTyped' /\ CacheTyped' /\ (Quiet /\ CacheMatched => CacheMatched')
<1>1. chain[c] \in Request /\ UNCHANGED <<checked, disabled>>
  BY AnswerTyped DEF OnMulti
<1>2. chain[c].token \in Stamps
  BY <1>1 DEF Request
<1>3. CASE answer[c].status = "ok" /\ chain[c].need = {}
  <2>1. MultiRead(c) /\ Finalize(c, chain[c].token)
    BY <1>3 DEF OnMulti
  <2> QED
    BY <1>1, <1>2, <2>1, MultiReadStep, FinalizeTyped DEF TInv, FlagsTyped
<1>4. CASE answer[c].status = "ok" /\ chain[c].need # {}
  <2>1. MultiRead(c) /\ Become(c, [chain[c] EXCEPT !.kind = "batch", !.about = {}])
        /\ UNCHANGED <<waiting, tag, saved, refreshed>>
    BY <1>4 DEF OnMulti
  <2>2. Plain([chain[c] EXCEPT !.kind = "batch", !.about = {}])
    BY <1>1, <1>4 DEF Plain, Formed, Request, Pauses
  <2> QED
    BY <1>1, <2>1, <2>2, MultiReadStep DEF Goes, TInv, FlagsTyped
<1>5. CASE answer[c].status = "partial"
  <2>1. MultiRead(c) /\ Notify(c) /\ Become(c, Idle) /\ UNCHANGED <<tag, saved, refreshed>>
    BY <1>5 DEF OnMulti
  <2> QED
    BY <1>1, <2>1, MultiReadStep, IdlePlain DEF Goes, Notify, TInv, FlagsTyped
<1>6. CASE answer[c].status \notin {"ok", "partial"}
  <2>1. Notify(c) /\ UNCHANGED <<cacheVars, tag, saved, refreshed>>
        /\ Become(c, IF chain[c].need = {} THEN [chain[c] EXCEPT !.kind = "stop"] ELSE Idle)
    BY <1>6 DEF OnMulti
  <2>2. Plain([chain[c] EXCEPT !.kind = "stop"])
    BY <1>1 DEF Plain, Formed, Request, Pauses
  <2>3. Goes(c)
    BY <2>1, <2>2, IdlePlain DEF Goes
  <2> QED
    BY <1>1, <2>1, <2>3 DEF Notify, TInv, FlagsTyped, cacheVars, CacheTyped, CacheMatched
<1> QED
  BY <1>3, <1>4, <1>5, <1>6

\* The ends of a batch and of a user's requests.
LEMMA PlainSteps ==
    ASSUME TInv, NEW c \in Chains,
           OnStop(c) \/ OnBatch(c) \/ (c \in Items /\ (OnPut(c) \/ OnHead(c) \/ OnPrompt(c)))
    PROVE  Goes(c) /\ FlagsTyped' /\ UNCHANGED cacheVars
<1> USE DEF TInv, FlagsTyped
<1>1. chain[c] \in Request /\ Formed(chain[c]) /\ chain[c].token \in Stamps
      /\ chain[c].need \in SUBSET Items
  BY AnswerTyped DEF Request
<1>2. CASE OnStop(c)
  BY <1>1, <1>2, FinalizeTyped DEF OnStop
<1>3. CASE OnBatch(c)
  <2>1. chain[c].need # {} /\ \E q \in DoMultiGet(chain[c], chain[c].need, disabled) : Become(c, q)
    BY <1>1, <1>3 DEF OnBatch, Formed
  <2>2. Goes(c)
    BY <1>1, <2>1, GoesFetching
  <2> QED
    BY <1>3, <2>2 DEF OnBatch, flagVars
<1>4. ASSUME c \in Items, GetUpdatedItem(c)
      PROVE  Goes(c)
  <2>1. [Idle EXCEPT !.op = chain[c].op] \in Request
    BY <1>1, IdlePlain DEF Plain, Formed, Request
  <2> QED
    BY <1>4, <2>1, GoesFetching DEF GetUpdatedItem
<1>5. ASSUME NEW k \in {"prompt", "overwrite", "erase"}
      PROVE  Plain([chain[c] EXCEPT !.kind = k])
  BY <1>1 DEF Plain, Formed, Request, Writes, Pauses
<1>6. CASE c \in Items /\ OnPut(c)
  <2>1. Goes(c)
    BY <1>4, <1>5, <1>6, IdlePlain DEF OnPut, Goes
  <2> QED
    BY <1>6, <2>1 DEF OnPut
<1>7. CASE c \in Items /\ OnHead(c)
  <2>1. Goes(c)
    BY <1>5, <1>7, IdlePlain DEF OnHead, Goes
  <2> QED
    BY <1>7, <2>1 DEF OnHead, flagVars
<1>8. CASE c \in Items /\ OnPrompt(c)
  <2>1. Goes(c)
    BY <1>4, <1>5, <1>8, IdlePlain DEF OnPrompt, Goes
  <2> QED
    BY <1>8, <2>1 DEF OnPrompt, flagVars
<1> QED
  BY <1>2, <1>3, <1>6, <1>7, <1>8

LEMMA DeleteStep ==
    ASSUME TInv, NEW c \in Items, OnDelete(c)
    PROVE  Goes(c) /\ FlagsTyped' /\ CacheTyped' /\ (Quiet /\ CacheMatched => CacheMatched')
<1>1. chain[c] \in Request
  BY AnswerTyped DEF Chains
<1>2. Plain([chain[c] EXCEPT !.kind = "head"])
  BY <1>1 DEF OnDelete, Handles, Plain, Formed, Request
<1>3. Goes(c)
  BY <1>2, IdlePlain DEF OnDelete, Goes
<1>4. FlagsTyped'
  BY DEF OnDelete, TInv, FlagsTyped
<1>5. CASE UNCHANGED cacheVars
  BY <1>3, <1>4, <1>5 DEF TInv, cacheVars, CacheTyped, CacheMatched
<1>6. CASE /\ known' = [known EXCEPT ![c] = FALSE]
           /\ etag' = [etag EXCEPT ![c] = 0] /\ row' = [row EXCEPT ![c] = 0] /\ late' = late
  BY <1>3, <1>4, <1>6, Zero DEF TInv, CacheTyped, CacheMatched, Quiet
<1> QED
  BY <1>5, <1>6 DEF OnDelete, cacheVars

\* The steps of an answer: they wait until the cache has told the flags.
AnswerStep(c) ==
    \/ OnType(c) \/ OnCaps(c) \/ OnCtag(c) \/ OnEtags(c) \/ OnReport(c) \/ OnMulti(c)
    \/ c \in Items /\ (OnPut(c) \/ OnDelete(c) \/ OnHead(c))

LEMMA AnswerSteps ==
    ASSUME TInv, NEW c \in Chains, AnswerStep(c), overlapped' \in BOOLEAN
    PROVE  TInv' /\ ("slow" \notin Disturbances /\ Matched => Matched')
<1>1. PICK kinds : Handles(c, kinds)
  BY DEF AnswerStep, OnType, OnCaps, OnCtag, OnEtags, OnReport, OnMulti, OnPut, OnDelete, OnHead
<1>2. WireTyped' /\ ServerTyped' /\ ("slow" \notin Disturbances => Quiet)
  BY <1>1, HandlesTyped DEF Quiet
<1>3. Goes(c) /\ FlagsTyped' /\ CacheTyped' /\ (Quiet /\ CacheMatched => CacheMatched')
  <2>1. CASE OnType(c) \/ OnCaps(c) \/ OnCtag(c) \/ (c \in Items /\ (OnPut(c) \/ OnHead(c)))
    BY <2>1, TypeSteps, PlainSteps DEF TInv, cacheVars, CacheTyped, CacheMatched
  <2>2. CASE OnEtags(c) \/ OnReport(c) \/ OnMulti(c) \/ (c \in Items /\ OnDelete(c))
    BY <2>2, EtagsStep, ReportStep, MultiStep, DeleteStep
  <2> QED
    BY <2>1, <2>2 DEF AnswerStep
<1>4. TInv' /\ \A i \in Items : chain'[i].kind \in {"flag", "modify", "delete"} =>
                  chain'[i] = chain[i]
  BY <1>2, <1>3, GoesOn
<1>5. ASSUME "slow" \notin Disturbances, Matched
      PROVE  Matched'
  <2>1. CacheMatched
    BY <1>5 DEF Matched, RowsTagged, CacheMatched
  <2>2. Quiet /\ CacheMatched'
    BY <1>2, <1>3, <1>5, <2>1
  <2>3. \A i \in Items : chain'[i].kind # "flag"
    BY <1>4, <2>2 DEF Quiet
  <2>4. \A i \in Items : chain'[i].kind \in {"modify", "delete"} => chain'[i].match = chain'[i].base
    BY <1>4, <1>5 DEF Matched
  <2> QED
    BY <2>2, <2>3, <2>4 DEF Matched, RowsTagged, CacheMatched
<1> QED
  BY <1>4, <1>5

\* The other steps that leave the cache alone and go on with a plain request.
LEMMA PauseSteps ==
    ASSUME TInv, NEW c \in Chains, OnStop(c) \/ OnBatch(c) \/ (c \in Items /\ OnPrompt(c)),
           overlapped' \in BOOLEAN
    PROVE  TInv' /\ (Matched => Matched')
<1>1. Goes(c) /\ FlagsTyped' /\ UNCHANGED cacheVars
  BY PlainSteps
<1>2. WireTyped' /\ ServerTyped' /\ CacheTyped'
  BY <1>1 DEF TInv, OnStop, OnBatch, OnPrompt, WireTyped, serverVars, ServerTyped, cacheVars, CacheTyped
<1>3. TInv' /\ \A i \in Items : chain'[i].kind \in {"flag", "modify", "delete"} =>
                  chain'[i] = chain[i]
  BY <1>1, <1>2, GoesOn
<1> QED
  BY <1>1, <1>3 DEF cacheVars, Matched, RowsTagged

LEMMA FlagStep ==
    ASSUME TInv, NEW i \in Items, OnFlag(i), overlapped' \in BOOLEAN
    PROVE  TInv' /\ (Matched => Matched')
<1> DEFINE q == IF etag[i] = 0 THEN Idle ELSE [chain[i] EXCEPT !.kind = chain[i].op, !.match = etag[i]]
<1>1. chain[i] \in Request /\ i \in Chains /\ etag[i] \in Stamps
  BY AnswerTyped DEF Chains, TInv, CacheTyped
<1>2. q \in Request /\ Formed(q) /\ q.kind # "flag"
  BY <1>1, IdlePlain DEF Plain, Formed, Request, Writes
<1>3. chain' = [chain EXCEPT ![i] = q]
  BY DEF OnFlag
<1>4. \A d \in Chains : chain'[d] = IF d = i THEN q ELSE chain[d]
  BY <1>1, <1>3 DEF TInv, ChainsTyped
<1>5. ChainsTyped'
  <2>1. chain' \in [Chains -> Request]
    BY <1>1, <1>2, <1>3 DEF TInv, ChainsTyped
  <2> QED
    BY <1>2, <1>4, <2>1 DEF TInv, ChainsTyped, Formed
<1>6. TInv'
  BY <1>5 DEF OnFlag, TInv, WireTyped, serverVars, ServerTyped, cacheVars, CacheTyped, flagVars, FlagsTyped
<1>7. ASSUME Matched  PROVE Matched'
  <2>1. UNCHANGED cacheVars /\ chain[i].kind = "flag"
    BY DEF OnFlag
  <2>2. q.kind \in {"modify", "delete"} => q.match = q.base
    BY <1>1, <1>7, <2>1, IdlePlain DEF Matched, RowsTagged, Request, Plain
  <2> QED
    BY <1>2, <1>4, <1>7, <2>1, <2>2 DEF Matched, RowsTagged, cacheVars, Chains
<1> QED
  BY <1>6, <1>7

LEMMA LateStep ==
    ASSUME TInv, NEW i \in Items, OnLate(i), overlapped' \in BOOLEAN
    PROVE  TInv' /\ (Matched => Matched')
<1>1. TInv'
  BY Zero DEF OnLate, TInv, WireTyped, serverVars, ServerTyped, CacheTyped, flagVars, FlagsTyped,
              ChainsTyped, Formed
<1>2. ASSUME Matched  PROVE Matched'
  BY <1>2 DEF OnLate, Matched, RowsTagged, TInv, CacheTyped
<1> QED
  BY <1>1, <1>2

-----------------------------------------------------------------------------
(* What the user does *)

LEMMA SynchronizeStep ==
    ASSUME TInv, Synchronize, overlapped' \in BOOLEAN
    PROVE  TInv' /\ (Matched => Matched')
<1>1. PICK c \in Refreshes :
          Become(c, IF checked THEN SafeRefresh(tag, refreshed, disabled) ELSE Ask("type"))
  BY DEF Synchronize, Become
<1>2. c \in Chains
  BY DEF Chains
<1>3. Goes(c)
  BY <1>1, SafeRefreshPlain, AskPlain DEF Goes, TInv, FlagsTyped
<1>4. WireTyped' /\ ServerTyped' /\ CacheTyped' /\ FlagsTyped' /\ UNCHANGED cacheVars
  BY DEF TInv, Synchronize, WireTyped, serverVars, ServerTyped, cacheVars, CacheTyped, flagVars, FlagsTyped
<1>5. TInv' /\ \A i \in Items : chain'[i].kind \in {"flag", "modify", "delete"} =>
                  chain'[i] = chain[i]
  BY <1>2, <1>3, <1>4, GoesOn
<1> QED
  BY <1>4, <1>5 DEF cacheVars, Matched, RowsTagged

LEMMA ChangeStep ==
    ASSUME TInv, NEW i \in Items, NEW kind \in {"add", "modify", "delete"}, Change(i, kind),
           kind # "add" => row[i] # 0, overlapped' \in BOOLEAN
    PROVE  TInv' /\ (Matched => Matched')
<1> DEFINE k == IF kind = "add" THEN kind ELSE "flag"
           q == [Ask(k) EXCEPT !.op = kind, !.about = {i}, !.base = row[i]]
<1>1. q \in Request /\ Formed(q) /\ q.kind = k /\ q.base = row[i]
  BY Zero DEF Ask, Formed, Request, Writes, Pauses, TInv, CacheTyped
<1>2. chain' = [chain EXCEPT ![i] = q] /\ late[i] = 0 /\ i \in Chains
  BY DEF Change, Chains
<1>3. \A d \in Chains : chain'[d] = IF d = i THEN q ELSE chain[d]
  BY <1>2 DEF TInv, ChainsTyped
<1>4. ChainsTyped'
  <2>1. chain' \in [Chains -> Request]
    BY <1>1, <1>2 DEF TInv, ChainsTyped
  <2> QED
    BY <1>1, <1>3, <2>1 DEF TInv, ChainsTyped, Formed
<1>5. TInv' /\ UNCHANGED cacheVars
  BY <1>4 DEF Change, TInv, WireTyped, serverVars, ServerTyped, cacheVars, CacheTyped, flagVars, FlagsTyped
<1>6. ASSUME Matched  PROVE Matched'
  BY <1>1, <1>2, <1>3, <1>5, <1>6 DEF Matched, RowsTagged, cacheVars, Chains
<1> QED
  BY <1>5, <1>6

\* In the idle state there is nothing to know but the types.
LEMMA AllIdle ==
    /\ [c \in Chains |-> Idle] \in [Chains -> Request] /\ [c \in Chains |-> NoAnswer] \in [Chains -> Answer]
    /\ Formed(Idle) /\ Idle.kind = "none"
BY IdlePlain, AskPlain, NoAnswerTyped DEF Plain, Formed, Idle

LEMMA RestartStep ==
    ASSUME TInv, Restart, overlapped' \in BOOLEAN
    PROVE  TInv' /\ (Matched => Matched')
<1>1. WireTyped'
  BY AllIdle, EmptySeq DEF Restart, WireTyped
<1>2. ChainsTyped'
  BY AllIdle DEF Restart, ChainsTyped
<1>3. CacheTyped'
  BY Zero, NothingTyped DEF Restart, TInv, CacheTyped
<1>4. ServerTyped' /\ FlagsTyped'
  BY DEF Restart, TInv, serverVars, ServerTyped, FlagsTyped
<1>5. ASSUME Matched  PROVE Matched'
  <2>1. \A i \in Items : chain'[i].kind = "none" /\ late'[i] = 0
    BY AllIdle, NothingTyped DEF Restart, Chains
  <2>2. row' = row /\ known' = known
    BY DEF Restart
  <2>3. \A i \in Items : etag'[i] = IF known[i] THEN etag[i] ELSE 0
    BY DEF Restart
  <2> QED
    BY <1>5, <2>1, <2>2, <2>3 DEF Matched, RowsTagged
<1> QED
  BY <1>1, <1>2, <1>3, <1>4, <1>5 DEF TInv

-----------------------------------------------------------------------------
(* The invariants *)

LEMMA InitInv == Init => KInv
<1> SUFFICES ASSUME Init  PROVE KInv
  OBVIOUS
<1>1. 1 \in Stamps /\ 0 \in 0 .. MaxFailures
  BY CalDavConstants DEF Stamps
<1>2. ServerTyped
  BY <1>1, Zero, CalDavConstants DEF Init, ServerTyped
<1>3. CacheTyped /\ \A i \in Items : row[i] = 0 /\ late[i] = 0
  BY NothingTyped DEF Init, CacheTyped
<1>4. FlagsTyped /\ overlapped \in BOOLEAN
  BY Zero DEF Init, FlagsTyped
<1>5. WireTyped
  BY AllIdle, EmptySeq DEF Init, WireTyped
<1>6. ChainsTyped /\ \A i \in Items : chain[i].kind = "none"
  BY AllIdle DEF Init, ChainsTyped, Chains
<1>7. Matched
  BY <1>3, <1>6 DEF Matched, RowsTagged
<1> QED
  BY <1>2, <1>3, <1>4, <1>5, <1>6, <1>7 DEF KInv, TInv

\* Every step, one kind after the other.
LEMMA Steps ==
    ASSUME TInv, Next
    PROVE  TInv' /\ ("slow" \notin Disturbances /\ Matched => Matched')
<1>1. overlapped' \in BOOLEAN
  BY DEF Next, History, TInv
<1>2. ASSUME NEW c \in Chains, ServerStep(c)
      PROVE  TInv' /\ (Matched => Matched')
  BY <1>1, <1>2, ServerSteps, ServerKeeps
<1>3. ASSUME NEW c \in Chains, ClientStep(c)
      PROVE  TInv' /\ ("slow" \notin Disturbances /\ Matched => Matched')
  <2>1. CASE AnswerStep(c)
    BY <1>1, <2>1, AnswerSteps
  <2>2. CASE OnStop(c) \/ OnBatch(c)
    BY <1>1, <2>2, PauseSteps
  <2>3. CASE c \in Items /\ (OnFlag(c) \/ OnLate(c))
    BY <1>1, <2>3, FlagStep, LateStep
  <2> QED
    BY <1>3, <2>1, <2>2, <2>3 DEF ClientStep, AnswerStep
<1>4. ASSUME NEW i \in Items, AddItem(i) \/ ModifyItem(i) \/ DeleteItem(i) \/ OnPrompt(i) \/ Others(i)
      PROVE  TInv' /\ (Matched => Matched')
  <2>1. CASE AddItem(i)
    BY <1>1, <2>1, ChangeStep DEF AddItem
  <2>2. CASE ModifyItem(i)
    BY <1>1, <2>2, ChangeStep DEF ModifyItem
  <2>3. CASE DeleteItem(i)
    BY <1>1, <2>3, ChangeStep DEF DeleteItem
  <2>4. CASE OnPrompt(i)
    BY <1>1, <2>4, PauseSteps DEF Chains
  <2>5. CASE Others(i)
    BY <1>1, <2>5, OthersSteps, ServerKeeps
  <2> QED
    BY <1>4, <2>1, <2>2, <2>3, <2>4, <2>5
<1>5. CASE Synchronize \/ Restart
  BY <1>1, <1>5, SynchronizeStep, RestartStep
<1> QED
  BY <1>2, <1>3, <1>4, <1>5 DEF Next, UserStep

LEMMA Stutters ==
    ASSUME UNCHANGED vars
    PROVE  (TInv => TInv') /\ (Matched => Matched')
<1>1. TInv => TInv'
  BY DEF vars, serverVars, cacheVars, flagVars, TInv, ServerTyped, CacheTyped, FlagsTyped,
         WireTyped, ChainsTyped, Formed
<1>2. Matched => Matched'
  BY DEF vars, cacheVars, Matched, RowsTagged
<1> QED
  BY <1>1, <1>2

LEMMA AlwaysTyped == Spec => []TInv
<1>1. Init => TInv
  BY InitInv DEF KInv
<1>2. TInv /\ [Next]_vars => TInv'
  BY Steps, Stutters
<1> QED
  BY <1>1, <1>2, PTL DEF Spec

LEMMA AlwaysMatched == "slow" \notin Disturbances => (Spec => []KInv)
<1> SUFFICES ASSUME "slow" \notin Disturbances  PROVE Spec => []KInv
  OBVIOUS
<1>1. KInv /\ [Next]_vars => KInv'
  BY Steps, Stutters DEF KInv
<1> QED
  BY <1>1, InitInv, PTL DEF Spec

\* Whatever the server answers and whenever: the requests, the cache and the index keep
\* their types, and no multiget of getUpdatedItem, etagsHandler or webDavSyncHandler asks
\* for nothing.
THEOREM DavTyped == Spec => []TypeOK
BY AlwaysTyped, TInvTypes, PTL

\* The etag in mItemInfoCache is that of the content in the cache, in whatever order
\* answers, failures, restarts and the changes of the user come, if the query for a flag
\* in modifyItem and deleteItem is over before the next answer of the server.
THEOREM RowsStayTagged == "slow" \notin Disturbances => (Spec => []RowsTagged)
<1> SUFFICES ASSUME "slow" \notin Disturbances  PROVE Spec => []RowsTagged
  OBVIOUS
<1>1. KInv => RowsTagged
  BY DEF KInv, Matched
<1> QED
  BY <1>1, AlwaysMatched, PTL

LEMMA SeenStep ==
    ASSUME KInv, Next, NEW i \in Items, chain[i].kind \in {"modify", "delete"},
           server'[i] # server[i], OnWire(i)', ~OnWire(i)
    PROVE  server[i] = chain[i].base
<1>1. wire' # wire /\ server' # server
  BY DEF OnWire
<1>2. i \in Items /\ AnswerWrite(i)
  <2>1. PICK c \in Chains : ServerStep(c)
    BY <1>1 DEF Next, UserStep, ClientStep, serverVars, Synchronize, Restart, AddItem, ModifyItem,
                DeleteItem, Change, OnPrompt, Others, OnType, OnCaps, OnCtag, OnEtags, OnReport,
                OnMulti, OnStop, OnBatch, OnFlag, OnPut, OnDelete, OnHead, OnLate, Handles
  <2>2. c \in Items /\ AnswerWrite(c)
    BY <1>1, <2>1 DEF ServerStep, AnswerQuery, AnswerFailure, AnswerHead
  <2>3. c = i
    BY <2>2 DEF AnswerWrite, KInv, TInv, ServerTyped
  <2> QED
    BY <2>2, <2>3
<1>3. Accepted(chain[i], i)
  BY <1>1, <1>2 DEF AnswerWrite
<1>4. server[i] = chain[i].match
  BY <1>3 DEF Accepted
<1> QED
  BY <1>4 DEF KInv, Matched

\* The If-Match header of a change is the etag of what the user has seen when he made it:
\* the server never takes a PUT or a DELETE that replaces something else, unless the user
\* has been asked (promptOverwrite).
THEOREM ChangesSeen == "slow" \notin Disturbances => (Spec => SeenBefore)
<1> SUFFICES ASSUME "slow" \notin Disturbances  PROVE Spec => SeenBefore
  OBVIOUS
<1>1. KInv /\ [Next]_vars =>
          [\A i \in Items :
              chain[i].kind \in {"modify", "delete"} /\ server'[i] # server[i] /\ OnWire(i)' /\ ~OnWire(i)
                => server[i] = chain[i].base]_vars
  BY SeenStep
<1> QED
  BY <1>1, AlwaysMatched, PTL DEF Spec, SeenBefore

-----------------------------------------------------------------------------
(* The sync token.  Answers are handled in the order they were given, so what is on the *)
(* wire is never older than the token that is stored or the one that is being earned.   *)

\* No answer overtakes another or a flag, the last batch of a sync does not fail as a whole,
\* no item of a batch is skipped uncounted (a body cut off, data without an item), and the
\* user does not take back a deletion.  Each of them loses what the token stands for.
Prompt == Disturbances \subseteq {"cut", "foreign"}

OnceOnWire == \A j, k \in DOMAIN wire : wire[j] = wire[k] => j = k
InOrder == \A j, k \in DOMAIN wire : j <= k => answer[wire[j]].stamp <= answer[wire[k]].stamp

StampsGrow ==
    /\ tag <= stamp
    /\ \A i \in Items : changed[i] <= stamp
    /\ \A c \in Chains : chain[c].token <= stamp

\* A token is held by the refresh that sent it or that earns it; the one it sends is
\* the one that is stored.
Fetches(q) == q.kind \in {"multi", "batch"}
Fits(q, t) ==
    /\ q.token # 0 => q.op = "none" /\ q.kind \in {"report", "multi", "batch"}
    /\ q.kind = "report" => q.op = "none" /\ q.token = t
    /\ q.kind \notin {"etags", "ctag"}
    /\ Fetches(q) \/ q.kind \in {"add", "modify", "overwrite"} => q.op # "delete"
    /\ q.kind = "batch" => q.about = {}

\* An answer under way is what the server was at its stamp, and no older than a token.
Fresh(a, t) ==
    /\ a.stamp <= stamp /\ t <= a.stamp
    /\ \A d \in Chains : Fetches(chain[d]) => chain[d].token <= a.stamp
    /\ \A i \in Items : changed[i] <= a.stamp => a.seen[i] = server[i]
AboutMulti(q, a) ==
    /\ a.status = "ok" => a.about = q.about
    /\ a.status \notin {"ok", "partial"} /\ q.need = {} => q.token = 0
AboutReport(q, a) ==
    a.status = "ok" =>
        \A i \in Items \ a.about :
            IF q.token = 0 THEN a.seen[i] = 0 ELSE changed[i] <= q.token \/ a.stamp < changed[i]
Answered(c) ==
    /\ chain[c].kind \in Queries \cup Writes \cup {"head"}
    /\ Fresh(answer[c], tag)
    /\ chain[c].kind = "multi" => AboutMulti(chain[c], answer[c])
    /\ chain[c].kind = "report" => AboutReport(chain[c], answer[c])
    /\ chain[c].kind \in {"delete", "erase"} /\ answer[c].status = "ok" => answer[c].seen[c] = 0

\* What a token stands for: the items that have not changed since.  While it is being
\* earned, those that are not yet fetched are left out.
Current(i, t) == changed[i] <= t => row[i] = server[i]
Earned(q) ==
    Fetches(q) /\ q.token # 0 => \A i \in Items \ (q.about \cup q.need) : Current(i, q.token)

IndexTrue == \A i \in Items : known[i] => row[i] = etag[i]

Synced ==
    /\ ~Overlap /\ OnceOnWire /\ InOrder /\ StampsGrow /\ IndexTrue
    /\ \A c \in Chains : Fits(chain[c], tag)
    /\ tag # 0 => \A i \in Items : Current(i, tag)
    /\ \A c \in Chains : Earned(chain[c])
    /\ \A c \in Chains : OnWire(c) => Answered(c)

SInv == KInv /\ (mode = "sync" /\ ~overlapped => Synced)

LEMMA StampsAre == \A x \in Stamps : x \in Nat
BY CalDavConstants DEF Stamps

LEMMA ChainTyped ==
    ASSUME TInv, NEW c \in Chains
    PROVE  /\ chain[c] \in Request /\ chain[c].token \in Nat
           /\ chain[c].about \in SUBSET Items /\ chain[c].need \in SUBSET Items
           /\ answer[c].stamp \in Nat /\ tag \in Nat /\ stamp \in Nat
           /\ \A i \in Items : changed[i] \in Nat
<1>1. chain[c] \in Request
  BY DEF TInv, ChainsTyped
<1>2. chain[c].token \in Stamps /\ chain[c].about \in SUBSET Items /\ chain[c].need \in SUBSET Items
  BY <1>1 DEF Request
<1>3. answer[c].stamp \in Stamps
  BY AnswerTyped
<1>4. tag \in Stamps /\ stamp \in Stamps /\ \A i \in Items : changed[i] \in Stamps
  BY DEF TInv, FlagsTyped, ServerTyped
<1> QED
  BY <1>1, <1>2, <1>3, <1>4, StampsAre

\* An answer leaves the wire: it is the oldest.
LEMMA Popped ==
    ASSUME TInv, "crossing" \notin Disturbances, OnceOnWire, InOrder,
           NEW c \in Chains, NEW kinds, Handles(c, kinds)
    PROVE  /\ OnWire(c) /\ OnceOnWire' /\ InOrder'
           /\ \A d \in Chains : OnWire(d)' =>
                 /\ OnWire(d) /\ d # c /\ answer'[d] = answer[d]
                 /\ answer[c].stamp <= answer[d].stamp
           /\ UNCHANGED serverVars
<1>1. /\ wire \in Seq(Chains) /\ Len(wire) \in Nat /\ DOMAIN wire = 1 .. Len(wire)
      /\ \A j \in 1 .. Len(wire) : wire[j] \in Chains
  BY LenProperties, ElementOfSeq DEF TInv, WireTyped
<1>2. PICK first \in DOMAIN wire :
          /\ wire[first] = c /\ first = 1
          /\ wire' = [j \in 1 .. Len(wire) - 1 |-> IF j < first THEN wire[j] ELSE wire[j + 1]]
  BY DEF Handles, Arrives
<1>3. /\ wire[1] = c /\ 1 \in DOMAIN wire
      /\ wire' = [j \in 1 .. Len(wire) - 1 |-> IF j < 1 THEN wire[j] ELSE wire[j + 1]]
  BY <1>2
<1>4. DOMAIN wire' = 1 .. Len(wire) - 1 /\ \A j \in 1 .. Len(wire) - 1 : wire'[j] = wire[j + 1]
  BY <1>1, <1>3
<1>5. \A j \in 1 .. Len(wire) - 1 : j + 1 \in DOMAIN wire /\ j + 1 # 1 /\ 1 <= j + 1
  BY <1>1
<1>6. answer \in [Chains -> Answer] /\ answer' = [answer EXCEPT ![c] = NoAnswer]
  BY DEF Handles, TInv, WireTyped
<1>7. \A j \in 1 .. Len(wire) - 1 : wire'[j] \in Chains /\ wire'[j] # c
  BY <1>1, <1>3, <1>4, <1>5 DEF OnceOnWire
<1>8. \A d \in Chains : d # c => answer'[d] = answer[d]
  BY <1>6
<1>9. OnceOnWire'
  <2> SUFFICES ASSUME NEW j \in 1 .. Len(wire) - 1, NEW k \in 1 .. Len(wire) - 1, wire'[j] = wire'[k]
               PROVE  j = k
    BY <1>4 DEF OnceOnWire
  <2>1. wire[j + 1] = wire[k + 1]
    BY <1>4
  <2>2. j + 1 = k + 1
    BY <1>5, <2>1 DEF OnceOnWire
  <2> QED
    BY <1>1, <2>2
<1>10. InOrder'
  <2> SUFFICES ASSUME NEW j \in 1 .. Len(wire) - 1, NEW k \in 1 .. Len(wire) - 1, j <= k
               PROVE  answer'[wire'[j]].stamp <= answer'[wire'[k]].stamp
    BY <1>4 DEF InOrder
  <2>1. j + 1 <= k + 1
    BY <1>1
  <2>2. answer[wire[j + 1]].stamp <= answer[wire[k + 1]].stamp
    BY <1>5, <2>1 DEF InOrder
  <2>3. answer'[wire'[j]] = answer[wire[j + 1]] /\ answer'[wire'[k]] = answer[wire[k + 1]]
    BY <1>4, <1>7, <1>8
  <2> QED
    BY <2>2, <2>3
<1>11. ASSUME NEW d \in Chains, OnWire(d)'
       PROVE  /\ OnWire(d) /\ d # c /\ answer'[d] = answer[d]
              /\ answer[c].stamp <= answer[d].stamp
  <2>1. PICK j \in 1 .. Len(wire) - 1 : wire'[j] = d
    BY <1>4, <1>11 DEF OnWire
  <2>2. wire[j + 1] = d /\ d # c
    BY <1>4, <1>7, <2>1
  <2>3. answer[wire[1]].stamp <= answer[wire[j + 1]].stamp
    BY <1>3, <1>5 DEF InOrder
  <2> QED
    BY <1>3, <1>5, <1>8, <2>2, <2>3 DEF OnWire
<1> QED
  BY <1>3, <1>9, <1>10, <1>11 DEF OnWire, Handles

\* An answer comes onto the wire: it is the newest.
LEMMA Pushed ==
    ASSUME TInv, OnceOnWire, InOrder, NEW c \in Chains, NEW status, NEW about, Reply(c, status, about),
           \A d \in Chains : OnWire(d) => answer[d].stamp <= stamp', stamp' \in Nat
    PROVE  /\ OnceOnWire' /\ InOrder' /\ ~OnWire(c)
           /\ \A d \in Chains : OnWire(d)' => d = c \/ (OnWire(d) /\ d # c /\ answer'[d] = answer[d])
           /\ answer'[c] = [status |-> status, about |-> about, seen |-> server', stamp |-> stamp']
<1>1. /\ wire \in Seq(Chains) /\ Len(wire) \in Nat /\ DOMAIN wire = 1 .. Len(wire)
      /\ \A j \in 1 .. Len(wire) : wire[j] \in Chains
  BY LenProperties, ElementOfSeq DEF TInv, WireTyped
<1>2. wire' = Append(wire, c) /\ ~OnWire(c)
  BY DEF Reply
<1>3. /\ wire' \in Seq(Chains) /\ Len(wire') = Len(wire) + 1
      /\ \A j \in 1 .. Len(wire) : wire'[j] = wire[j]
      /\ wire'[Len(wire) + 1] = c
  BY <1>1, <1>2, AppendProperties
<1>4. DOMAIN wire' = 1 .. Len(wire) + 1
  BY <1>1, <1>3, LenProperties
<1>5. \A j \in 1 .. Len(wire) : wire[j] # c /\ OnWire(wire[j])
  BY <1>1, <1>2 DEF OnWire
<1>6. \A j \in 1 .. Len(wire) + 1 : j \in 1 .. Len(wire) \/ j = Len(wire) + 1
  BY <1>1
<1>7. answer \in [Chains -> Answer]
      /\ answer' = [answer EXCEPT ![c] = [status |-> status, about |-> about,
                                          seen |-> server', stamp |-> stamp']]
  BY DEF Reply, TInv, WireTyped
<1>8. /\ answer'[c] = [status |-> status, about |-> about, seen |-> server', stamp |-> stamp']
      /\ \A d \in Chains : d # c => answer'[d] = answer[d]
  BY <1>7
<1>9. OnceOnWire'
  BY <1>1, <1>3, <1>4, <1>5, <1>6 DEF OnceOnWire
<1>10. InOrder'
  <2> SUFFICES ASSUME NEW j \in 1 .. Len(wire) + 1, NEW k \in 1 .. Len(wire) + 1, j <= k
               PROVE  answer'[wire'[j]].stamp <= answer'[wire'[k]].stamp
    BY <1>4 DEF InOrder
  <2>1. CASE k \in 1 .. Len(wire)
    <3>1. j \in 1 .. Len(wire)
      BY <1>1, <1>6, <2>1
    <3>2. answer[wire[j]].stamp <= answer[wire[k]].stamp
      BY <1>1, <2>1, <3>1 DEF InOrder
    <3> QED
      BY <1>1, <1>3, <1>5, <1>8, <2>1, <3>1, <3>2
  <2>2. CASE k = Len(wire) + 1
    <3>1. answer'[wire'[k]].stamp = stamp'
      BY <1>3, <1>8, <2>2
    <3>2. CASE j = Len(wire) + 1
      BY <2>2, <3>1, <3>2
    <3>3. CASE j \in 1 .. Len(wire)
      BY <1>1, <1>3, <1>5, <1>8, <3>1, <3>3
    <3> QED
      BY <1>6, <3>2, <3>3
  <2> QED
    BY <1>6, <2>1, <2>2
<1>11. ASSUME NEW d \in Chains, OnWire(d)', d # c
       PROVE  OnWire(d) /\ answer'[d] = answer[d]
  <2>1. PICK j \in 1 .. Len(wire) + 1 : wire'[j] = d
    BY <1>4, <1>11 DEF OnWire
  <2>2. j \in 1 .. Len(wire)
    BY <1>3, <1>6, <1>11, <2>1
  <2> QED
    BY <1>1, <1>3, <1>8, <1>11, <2>1, <2>2 DEF OnWire
<1> QED
  BY <1>2, <1>8, <1>9, <1>10, <1>11

-----------------------------------------------------------------------------
(* The sync token: the server's steps *)

\* The server has not changed, or it has one more change.
Moved ==
    \A i \in Items :
        /\ stamp <= stamp' /\ changed'[i] <= stamp'
        /\ (changed'[i] = changed[i] /\ server'[i] = server[i]) \/ stamp < changed'[i]

LEMMA MovesOnce ==
    ASSUME TInv, NEW i \in Items,
           \/ UNCHANGED <<server, changed, stamp>>
           \/ /\ stamp' = stamp + 1 /\ changed' = [changed EXCEPT ![i] = stamp']
              /\ \E s : server' = [server EXCEPT ![i] = s],
           StampsGrow
    PROVE  Moved /\ stamp' \in Nat /\ stamp <= stamp'
<1>1. stamp \in Nat /\ \A j \in Items : changed[j] \in Nat /\ changed[j] <= stamp
  BY ChainTyped, i \in Chains DEF StampsGrow, Chains
<1>2. changed \in [Items -> Stamps] /\ server \in [Items -> Stamps]
  BY DEF TInv, ServerTyped
<1>3. CASE UNCHANGED <<server, changed, stamp>>
  BY <1>1, <1>3 DEF Moved
<1>4. CASE /\ stamp' = stamp + 1 /\ changed' = [changed EXCEPT ![i] = stamp']
           /\ \E s : server' = [server EXCEPT ![i] = s]
  <2>1. changed'[i] = stamp + 1
    BY <1>2, <1>4
  <2>2. \A j \in Items : j # i => changed'[j] = changed[j] /\ server'[j] = server[j]
    BY <1>2, <1>4
  <2> QED
    BY <1>1, <1>4, <2>1, <2>2 DEF Moved
<1> QED
  BY <1>3, <1>4

\* What is current for a stamp of the past stays so.
LEMMA CurrentStays ==
    ASSUME Moved, row' = row, NEW i \in Items, NEW t \in Nat, t <= stamp, stamp \in Nat,
           changed'[i] \in Nat, Current(i, t)
    PROVE  changed'[i] <= t => row'[i] = server'[i]
BY DEF Moved, Current

LEMMA FreshStays ==
    ASSUME TInv, TInv', Moved, ClientUnchanged, NEW c \in Chains, answer'[c] = answer[c], Answered(c),
           stamp <= stamp'
    PROVE  Answered(c)'
<1>1. UNCHANGED <<tag, chain>> /\ answer'[c] = answer[c]
  BY DEF ClientUnchanged
<1>2. /\ answer[c].stamp \in Nat /\ stamp \in Nat /\ stamp' \in Nat /\ chain[c].token \in Nat
      /\ \A i \in Items : changed[i] \in Nat /\ changed'[i] \in Nat
  BY ChainTyped, StampsAre DEF TInv, ServerTyped
<1>3. answer[c].stamp <= stamp
  BY DEF Answered, Fresh
<1>4. answer[c].stamp <= stamp'
  BY <1>2, <1>3
<1>5. \A i \in Items : changed'[i] <= answer[c].stamp => answer[c].seen[i] = server'[i]
  <2> SUFFICES ASSUME NEW i \in Items, changed'[i] <= answer[c].stamp
               PROVE  answer[c].seen[i] = server'[i]
    OBVIOUS
  <2>1. changed'[i] = changed[i] /\ server'[i] = server[i]
    BY <1>2, <1>3 DEF Moved
  <2> QED
    BY <2>1 DEF Answered, Fresh
<1>6. Fresh(answer[c], tag)'
  BY <1>1, <1>4, <1>5 DEF Answered, Fresh
<1>7. chain[c].kind = "report" => AboutReport(chain[c], answer[c])'
  <2> SUFFICES ASSUME chain[c].kind = "report", answer[c].status = "ok",
                      NEW i \in Items \ answer[c].about
               PROVE  IF chain[c].token = 0 THEN answer[c].seen[i] = 0
                      ELSE changed'[i] <= chain[c].token \/ answer[c].stamp < changed'[i]
    BY <1>1 DEF AboutReport
  <2>1. IF chain[c].token = 0 THEN answer[c].seen[i] = 0
        ELSE changed[i] <= chain[c].token \/ answer[c].stamp < changed[i]
    BY DEF Answered, AboutReport
  <2> QED
    BY <1>2, <1>3, <2>1 DEF Moved
<1> QED
  BY <1>1, <1>6, <1>7 DEF Answered, AboutMulti

\* What an answer has to be when it is given.
Truthful(q, c, a) ==
    /\ q.kind \in Queries \cup Writes \cup {"head"}
    /\ q.kind = "multi" => AboutMulti(q, a)
    /\ q.kind = "report" /\ a.status = "ok" =>
          \A i \in Items \ a.about : IF q.token = 0 THEN a.seen[i] = 0 ELSE changed[i] <= q.token
    /\ q.kind \in {"delete", "erase"} /\ a.status = "ok" => a.seen[c] = 0

LEMMA FreshAnswer ==
    ASSUME TInv, TInv', Synced, ClientUnchanged, stamp <= stamp', NEW c \in Chains, NEW a,
           answer'[c] = a, a.stamp = stamp', a.seen = server',
           Truthful(chain[c], c, a),
           chain[c].kind = "report" => changed' = changed
    PROVE  Answered(c)'
<1>1. UNCHANGED <<tag, chain>>
  BY DEF ClientUnchanged
<1>2. tag \in Nat /\ stamp \in Nat /\ stamp' \in Nat /\ \A d \in Chains : chain[d].token \in Nat
  BY ChainTyped, StampsAre DEF TInv, ServerTyped
<1>3. tag <= stamp' /\ \A d \in Chains : chain[d].token <= stamp'
  BY <1>2 DEF Synced, StampsGrow
<1>4. Fresh(answer[c], tag)'
  BY <1>1, <1>2, <1>3 DEF Fresh
<1>5. AboutReport(chain[c], answer[c])' \/ chain[c].kind # "report"
  BY <1>1 DEF AboutReport, Truthful
<1> QED
  BY <1>1, <1>4, <1>5 DEF Answered, Truthful, AboutMulti

\* The calendar goes on as it was when the server, or somebody else, has changed.
LEMMA ServerInSync ==
    ASSUME TInv, TInv', Synced, Moved, stamp <= stamp', ClientUnchanged,
           OnceOnWire', InOrder',
           \A d \in Chains : OnWire(d)' => Answered(d)'
    PROVE  Synced'
<1>1. UNCHANGED <<tag, chain, known, row, etag>>
  BY DEF ClientUnchanged, cacheVars
<1>2. tag \in Nat /\ stamp \in Nat /\ stamp' \in Nat /\ \A d \in Chains : chain[d].token \in Nat
  BY ChainTyped, StampsAre DEF TInv, ServerTyped, FlagsTyped
<1>3. tag <= stamp /\ \A d \in Chains : chain[d].token <= stamp
  BY DEF Synced, StampsGrow
<1>4. StampsGrow'
  BY <1>1, <1>2, <1>3 DEF StampsGrow, Moved
<1>5. ~Overlap' /\ IndexTrue' /\ \A c \in Chains : Fits(chain[c], tag)'
  BY <1>1 DEF Synced, Overlap, Refreshing, IndexTrue, Fits, Fetches
<1>6. \A i \in Items : changed'[i] \in Nat
  BY StampsAre DEF TInv, ServerTyped
<1>7. tag # 0 => \A i \in Items : Current(i, tag)'
  BY <1>1, <1>2, <1>3, <1>6, CurrentStays DEF Synced, Current
<1>8. ASSUME NEW c \in Chains  PROVE Earned(chain[c])'
  <2>1. Earned(chain[c])
    BY DEF Synced
  <2>2. chain[c].token \in Nat /\ chain[c].token <= stamp
    BY <1>2, <1>3
  <2>3. \A i \in Items : Current(i, chain[c].token) =>
            (changed'[i] <= chain[c].token => row'[i] = server'[i])
    BY <1>1, <1>2, <1>6, <2>2, CurrentStays
  <2> QED
    BY <1>1, <2>1, <2>3 DEF Earned, Fetches, Current
<1> QED
  BY <1>1, <1>4, <1>5, <1>7, <1>8 DEF Synced

LEMMA ReplyInSync ==
    ASSUME TInv, TInv', Synced, NEW c \in Chains, NEW status, NEW about, NEW a,
           a = [status |-> status, about |-> about, seen |-> server', stamp |-> stamp'],
           Reply(c, status, about), Truthful(chain[c], c, a),
           Moved, stamp <= stamp', chain[c].kind = "report" => changed' = changed
    PROVE  Synced'
<1>1. ClientUnchanged
  BY ReplyLeaves
<1>2. stamp \in Nat /\ stamp' \in Nat /\ \A d \in Chains : answer[d].stamp \in Nat
  BY ChainTyped, StampsAre DEF TInv, ServerTyped
<1>3. \A d \in Chains : OnWire(d) => answer[d].stamp <= stamp /\ Answered(d)
  BY DEF Synced, Answered, Fresh
<1>4. \A d \in Chains : OnWire(d) => answer[d].stamp <= stamp'
  BY <1>2, <1>3
<1>5. OnceOnWire /\ InOrder
  BY DEF Synced
<1>6. /\ OnceOnWire' /\ InOrder'
      /\ \A d \in Chains : OnWire(d)' => d = c \/ (OnWire(d) /\ d # c /\ answer'[d] = answer[d])
      /\ answer'[c] = a
  BY <1>2, <1>4, <1>5, Pushed
<1>7. ASSUME NEW d \in Chains, OnWire(d)'
      PROVE  Answered(d)'
  <2>1. CASE d = c
    BY <1>1, <1>6, <2>1, FreshAnswer
  <2>2. CASE d # c
    <3>1. OnWire(d) /\ answer'[d] = answer[d]
      BY <1>6, <1>7, <2>2
    <3>2. Answered(d)
      BY <1>3, <3>1
    <3> QED
      BY <1>1, <3>1, <3>2, FreshStays
  <2> QED
    BY <2>1, <2>2
<1> QED
  BY <1>1, <1>6, <1>7, ServerInSync

LEMMA NotMoved ==
    ASSUME TInv, StampsGrow, UNCHANGED <<server, changed, stamp>>
    PROVE  Moved /\ stamp <= stamp'
BY StampsAre DEF TInv, ServerTyped, StampsGrow, Moved

LEMMA QueriesInSync ==
    ASSUME TInv, TInv', Synced, NEW c \in Chains, AnswerQuery(c)
    PROVE  Synced'
<1>1. UNCHANGED <<server, changed, stamp>>
  BY DEF AnswerQuery
<1>2. Moved /\ stamp <= stamp'
  BY <1>1, NotMoved DEF Synced
<1>3. PICK status, about :
          /\ Reply(c, status, about)
          /\ \/ status = "ok" /\ about = Reported(chain[c])
             \/ status = "other" /\ chain[c].kind = "type"
  BY DEF AnswerQuery
<1>4. PICK a : a = [status |-> status, about |-> about, seen |-> server', stamp |-> stamp']
  OBVIOUS
<1>5. a.status = status /\ a.about = about /\ a.seen = server
  BY <1>1, <1>4
<1>6. chain[c].kind \in Queries /\ chain[c].kind \notin {"delete", "erase"}
  BY DEF AnswerQuery, Queries
<1>7. chain[c].kind = "multi" => status = "ok" /\ about = chain[c].about
  BY <1>3 DEF Reported
<1>8. chain[c].kind = "report" =>
          \A i \in Items \ about : IF chain[c].token = 0 THEN server[i] = 0 ELSE changed[i] <= chain[c].token
  BY <1>3, ChainTyped DEF Reported
<1>9. Truthful(chain[c], c, a)
  BY <1>5, <1>6, <1>7, <1>8 DEF Truthful, AboutMulti
<1> QED
  BY <1>1, <1>2, <1>3, <1>4, <1>9, ReplyInSync

\* A sync token never waits for an answer that fails, or that skips items.
LEMMA FailuresInSync ==
    ASSUME TInv, TInv', Synced, Prompt, NEW c \in Chains, AnswerFailure(c)
    PROVE  Synced'
<1>1. UNCHANGED <<server, changed, stamp>>
  BY DEF AnswerFailure
<1>2. Moved /\ stamp <= stamp'
  BY <1>1, NotMoved DEF Synced
<1>3. "lost" \notin Disturbances /\ "skipped" \notin Disturbances
  BY DEF Prompt
<1>4. PICK status, about :
          /\ Reply(c, status, about) /\ status \in {"failed", "partial", "gone", "cut"}
          /\ chain[c].kind \in Queries \cup Writes \cup {"head"}
          /\ status = "partial" \/ chain[c].kind # "multi" \/ ~LastOfSync(chain[c])
  <2>1. CASE chain[c].kind \in Queries \cup Writes \cup {"head"} /\ ~LastOfSync(chain[c]) /\ Reply(c, "failed", {})
    BY <2>1
  <2>2. CASE /\ chain[c].kind = "multi"
             /\ \E handled \in SUBSET chain[c].about \ {chain[c].about} : Reply(c, "partial", handled)
    BY <2>2 DEF Queries
  <2>3. CASE chain[c].kind = "report" /\ Reply(c, "gone", {})
    BY <2>3 DEF Queries
  <2>4. CASE chain[c].kind \in {"caps", "head"} /\ Reply(c, "cut", {})
    BY <2>4 DEF Queries
  <2> QED
    BY <1>3, <2>1, <2>2, <2>3, <2>4 DEF AnswerFailure
<1>5. PICK a : a = [status |-> status, about |-> about, seen |-> server', stamp |-> stamp']
  OBVIOUS
<1>6. a.status = status /\ status # "ok"
  BY <1>4, <1>5
<1>7. chain[c].kind = "multi" => AboutMulti(chain[c], a)
  BY <1>4, <1>6 DEF AboutMulti, LastOfSync
<1>8. Truthful(chain[c], c, a)
  BY <1>4, <1>6, <1>7 DEF Truthful
<1> QED
  BY <1>1, <1>2, <1>4, <1>5, <1>8, ReplyInSync

LEMMA WritesInSync ==
    ASSUME TInv, TInv', Synced, NEW c \in Items, AnswerWrite(c) \/ AnswerHead(c)
    PROVE  Synced'
<1>1. c \in Chains /\ StampsGrow /\ server \in [Items -> Stamps]
  BY DEF Chains, Synced, TInv, ServerTyped
<1>2. chain[c].kind \in Writes \cup {"head"}
  BY DEF AnswerWrite, AnswerHead
<1>3. chain[c].kind \notin {"multi", "report"}
  BY <1>2 DEF Writes
<1>4. CASE \/ UNCHANGED <<server, changed, stamp>>
           \/ /\ stamp' = stamp + 1 /\ changed' = [changed EXCEPT ![c] = stamp']
              /\ \E s : server' = [server EXCEPT ![c] = s]
  <2>1. Moved /\ stamp <= stamp'
    BY <1>1, <1>4, MovesOnce
  <2>2. PICK status : /\ Reply(c, status, {c})
                      /\ chain[c].kind \in {"delete", "erase"} /\ status = "ok" => server'[c] = 0
    <3>1. CASE AnswerHead(c)
      BY <3>1 DEF AnswerHead
    <3>2. CASE AnswerWrite(c) /\ Reply(c, "ok", {c})
               /\ server' = [server EXCEPT ![c] = IF chain[c].kind \in {"delete", "erase"} THEN 0 ELSE stamp']
      BY <1>1, <3>2
    <3>3. CASE AnswerWrite(c) /\ Reply(c, IF chain[c].kind = "erase" THEN "failed" ELSE "conflict", {c})
      BY <3>3
    <3> QED
      BY <3>1, <3>2, <3>3 DEF AnswerWrite
  <2>3. PICK a : a = [status |-> status, about |-> {c}, seen |-> server', stamp |-> stamp']
    OBVIOUS
  <2>4. a.status = status /\ a.seen = server'
    BY <2>3
  <2>5. Truthful(chain[c], c, a)
    BY <1>2, <1>3, <2>2, <2>4 DEF Truthful
  <2> QED
    BY <1>1, <1>3, <2>1, <2>2, <2>3, <2>5, ReplyInSync
<1>5. \/ UNCHANGED <<server, changed, stamp>>
      \/ /\ stamp' = stamp + 1 /\ changed' = [changed EXCEPT ![c] = stamp']
         /\ \E s : server' = [server EXCEPT ![c] = s]
  BY DEF AnswerWrite, AnswerHead
<1> QED
  BY <1>4, <1>5

LEMMA OthersInSync ==
    ASSUME TInv, TInv', Synced, NEW i \in Items, Others(i)
    PROVE  Synced'
<1>1. ClientUnchanged /\ UNCHANGED <<wire, answer>>
  BY DEF Others, ClientUnchanged, cacheVars, flagVars
<1>2. Moved /\ stamp <= stamp'
  BY MovesOnce DEF Others, Synced
<1>3. OnceOnWire' /\ InOrder'
  BY <1>1 DEF Synced, OnceOnWire, InOrder
<1>4. ASSUME NEW d \in Chains, OnWire(d)'
      PROVE  Answered(d)'
  <2>1. OnWire(d) /\ answer'[d] = answer[d]
    BY <1>1, <1>4 DEF OnWire
  <2>2. Answered(d)
    BY <2>1 DEF Synced
  <2> QED
    BY <1>1, <1>2, <2>1, <2>2, FreshStays
<1> QED
  BY <1>1, <1>2, <1>3, <1>4, ServerInSync

-----------------------------------------------------------------------------
(* The sync token: the calendar's steps *)

\* What is current for a stamp when the step is over.
Fetched(i, t) == changed[i] <= t => row'[i] = server[i]

\* The rows are as they were, or as the server's, or what some token does not stand for.
RowsFollow ==
    \A i \in Items :
        \/ row'[i] = row[i] \/ row'[i] = server[i]
        \/ tag < changed[i] /\ \A d \in Chains : Fetches(chain[d]) => chain[d].token < changed[i]

\* A chain goes on.  The answers on the wire are no older than what it stores or earns.
LEMMA GoesInSync ==
    ASSUME TInv, TInv', Synced, ~Overlap', UNCHANGED <<server, changed, stamp>>,
           NEW c \in Chains, NEW q \in Request, Become(c, q),
           OnceOnWire', InOrder', IndexTrue', RowsFollow,
           \A d \in Chains : OnWire(d)' =>
               /\ OnWire(d) /\ d # c /\ answer'[d] = answer[d]
               /\ tag' <= answer[d].stamp /\ (Fetches(q) => q.token <= answer[d].stamp),
           tag' <= stamp, q.token <= stamp,
           Fits(q, tag'), tag' # tag => Refreshing(c),
           tag' = tag \/ tag' = 0 \/ \A i \in Items : Fetched(i, tag'),
           Fetches(q) /\ q.token # 0 => \A i \in Items \ (q.about \cup q.need) : Fetched(i, q.token)
    PROVE  Synced'
<1>1. chain \in [Chains -> Request] /\ chain' = [chain EXCEPT ![c] = q]
  BY DEF TInv, ChainsTyped, Become
<1>2. chain'[c] = q /\ \A d \in Chains : d # c => chain'[d] = chain[d]
  BY <1>1
<1>3. /\ tag \in Nat /\ tag' \in Nat /\ stamp \in Nat
      /\ \A d \in Chains : chain[d].token \in Nat /\ chain'[d].token \in Nat
      /\ \A i \in Items : changed[i] \in Nat
  <2>1. tag' \in Stamps
    BY DEF TInv, FlagsTyped
  <2>2. \A d \in Chains : chain'[d] \in Request
    BY DEF TInv, ChainsTyped
  <2>3. \A d \in Chains : chain'[d].token \in Stamps
    BY <2>2 DEF Request
  <2> QED
    BY <2>1, <2>3, ChainTyped, StampsAre
<1>4. StampsGrow'
  BY <1>2 DEF Synced, StampsGrow
<1>5. \A d \in Chains : Fits(chain[d], tag)'
  <2> SUFFICES ASSUME NEW d \in Chains  PROVE Fits(chain'[d], tag')
    BY DEF Fits, Fetches
  <2>1. CASE d = c
    BY <1>2, <2>1
  <2>2. CASE d # c
    <3>1. Fits(chain[d], tag) /\ chain'[d] = chain[d]
      BY <1>2, <2>2 DEF Synced
    <3>2. CASE tag' = tag
      BY <3>1, <3>2
    <3>3. CASE tag' # tag
      <4>1. ~Refreshing(d)
        BY <2>2, <3>3 DEF Synced, Overlap
      <4>2. chain[d].kind # "report"
        BY <3>1, <4>1 DEF Refreshing, Fits
      <4> QED
        BY <3>1, <4>2 DEF Fits
    <3> QED
      BY <3>2, <3>3
  <2> QED
    BY <2>1, <2>2
<1>6. tag' # 0 => \A i \in Items : Current(i, tag)'
  <2>1. CASE tag' = tag
    BY <1>3, <2>1 DEF Synced, Current, RowsFollow
  <2>2. CASE \A i \in Items : Fetched(i, tag')
    BY <2>2 DEF Current, Fetched
  <2> QED
    BY <2>1, <2>2
<1>7. ASSUME NEW d \in Chains  PROVE Earned(chain[d])'
  <2>1. CASE d = c
    BY <1>2, <2>1 DEF Earned, Current, Fetched, Fetches
  <2>2. CASE d # c
    <3>1. Earned(chain[d]) /\ chain'[d] = chain[d] /\ chain[d].token \in Nat
      BY <1>2, <1>3, <2>2 DEF Synced
    <3>2. ASSUME Fetches(chain[d]), NEW i \in Items, Current(i, chain[d].token)
          PROVE  changed[i] <= chain[d].token => row'[i] = server[i]
      BY <1>3, <3>1, <3>2 DEF RowsFollow, Current
    <3> QED
      BY <3>1, <3>2 DEF Earned, Fetches, Current
  <2> QED
    BY <2>1, <2>2
<1>8. ASSUME NEW d \in Chains, OnWire(d)'
      PROVE  Answered(d)'
  <2>1. OnWire(d) /\ d # c /\ answer'[d] = answer[d] /\ chain'[d] = chain[d] /\ Answered(d)
    BY <1>2, <1>8 DEF Synced
  <2>2. \A e \in Chains : Fetches(chain'[e]) => chain'[e].token <= answer[d].stamp
    BY <1>2, <1>8, <2>1 DEF Answered, Fresh
  <2>3. Fresh(answer[d], tag)'
    <3>1. tag' <= answer[d].stamp
      BY <1>8
    <3> QED
      BY <2>1, <2>2, <3>1 DEF Answered, Fresh, Fetches
  <2> QED
    BY <2>1, <2>3 DEF Answered, AboutMulti, AboutReport
<1> QED
  BY <1>4, <1>5, <1>6, <1>7, <1>8 DEF Synced

\* An answer is handled.  It is the oldest, so what it says of the items is no older than
\* the token, and the answers that are left are no older than what it says.
LEMMA HandledInSync ==
    ASSUME TInv, TInv', Synced, ~Overlap', "crossing" \notin Disturbances,
           NEW c \in Chains, NEW kinds, Handles(c, kinds), NEW q \in Request, Become(c, q),
           IndexTrue', \A i \in Items : row'[i] = row[i] \/ row'[i] = answer[c].seen[i],
           tag' <= answer[c].stamp, Fetches(q) => q.token <= answer[c].stamp, q.token <= stamp,
           Fits(q, tag'), tag' # tag => Refreshing(c),
           tag' = tag \/ tag' = 0 \/ \A i \in Items : Fetched(i, tag'),
           Fetches(q) /\ q.token # 0 => \A i \in Items \ (q.about \cup q.need) : Fetched(i, q.token)
    PROVE  Synced'
<1>1. OnceOnWire /\ InOrder
  BY DEF Synced
<1>2. /\ OnWire(c) /\ OnceOnWire' /\ InOrder'
      /\ \A d \in Chains : OnWire(d)' =>
            /\ OnWire(d) /\ d # c /\ answer'[d] = answer[d]
            /\ answer[c].stamp <= answer[d].stamp
      /\ UNCHANGED serverVars
  BY <1>1, Popped
<1>3. Fresh(answer[c], tag)
  BY <1>2 DEF Synced, Answered
<1>4. /\ tag \in Nat /\ tag' \in Nat /\ stamp \in Nat /\ q.token \in Nat
      /\ \A d \in Chains : answer[d].stamp \in Nat /\ chain[d].token \in Nat
      /\ \A i \in Items : changed[i] \in Nat
  <2>1. tag' \in Stamps /\ q.token \in Stamps
    BY DEF TInv, FlagsTyped, Request
  <2> QED
    BY <2>1, ChainTyped, StampsAre
<1>5. RowsFollow
  <2> SUFFICES ASSUME NEW i \in Items, row'[i] = answer[c].seen[i], answer[c].stamp < changed[i]
               PROVE  tag < changed[i] /\ \A d \in Chains : Fetches(chain[d]) => chain[d].token < changed[i]
    <3>1. \A i \in Items : answer[c].stamp < changed[i] \/ answer[c].seen[i] = server[i]
      BY <1>3, <1>4 DEF Fresh
    <3> QED
      BY <3>1 DEF RowsFollow
  <2> QED
    BY <1>3, <1>4 DEF Fresh
<1>6. tag' <= stamp
  BY <1>3, <1>4 DEF Fresh
<1>7. \A d \in Chains : OnWire(d)' =>
          /\ OnWire(d) /\ d # c /\ answer'[d] = answer[d]
          /\ tag' <= answer[d].stamp /\ (Fetches(q) => q.token <= answer[d].stamp)
  BY <1>2, <1>4
<1>8. UNCHANGED <<server, changed, stamp>>
  BY <1>2 DEF serverVars
<1> QED
  BY <1>2, <1>5, <1>6, <1>7, <1>8, GoesInSync

\* What is known of an answer that is handled.
LEMMA Arrived ==
    ASSUME TInv, Synced, "crossing" \notin Disturbances, NEW c \in Chains, NEW kinds, Handles(c, kinds)
    PROVE  /\ Answered(c) /\ Fresh(answer[c], tag) /\ Fits(chain[c], tag)
           /\ UNCHANGED <<server, changed, stamp>>
           /\ \A i \in Items : changed[i] <= answer[c].stamp => answer[c].seen[i] = server[i]
           /\ tag <= answer[c].stamp /\ answer[c].stamp <= stamp
           /\ Fetches(chain[c]) => chain[c].token <= answer[c].stamp
<1>1. OnceOnWire /\ InOrder
  BY DEF Synced
<1>2. OnWire(c) /\ UNCHANGED serverVars
  BY <1>1, Popped
<1>3. Answered(c)
  BY <1>2 DEF Synced
<1>4. Fresh(answer[c], tag)
  BY <1>3 DEF Answered
<1> QED
  BY <1>2, <1>3, <1>4 DEF Fresh, Synced, serverVars

\* A step that hears of no answer.
LEMMA PauseInSync ==
    ASSUME TInv, TInv', Synced, ~Overlap', UNCHANGED <<server, changed, stamp, tag, wire, answer, row>>,
           IndexTrue', NEW c \in Chains, chain[c].kind \notin Queries \cup Writes \cup {"head"},
           NEW q \in Request, Become(c, q), Fits(q, tag), q.token <= stamp,
           Fetches(q) => q.token = 0 \/ (Fetches(chain[c]) /\ q.token = chain[c].token),
           Fetches(q) /\ q.token # 0 => \A i \in Items \ (q.about \cup q.need) : Current(i, q.token)
    PROVE  Synced'
<1>1. OnceOnWire' /\ InOrder' /\ RowsFollow
  BY DEF Synced, OnceOnWire, InOrder, RowsFollow
<1>2. ASSUME NEW d \in Chains, OnWire(d)'
      PROVE  /\ OnWire(d) /\ d # c /\ answer'[d] = answer[d]
             /\ tag' <= answer[d].stamp /\ (Fetches(q) => q.token <= answer[d].stamp)
  <2>1. OnWire(d) /\ answer'[d] = answer[d]
    BY <1>2 DEF OnWire
  <2>2. Answered(d)
    BY <2>1 DEF Synced
  <2>3. d # c /\ Fresh(answer[d], tag)
    BY <2>2 DEF Answered
  <2>4. answer[d].stamp \in Nat
    BY ChainTyped
  <2> QED
    BY <2>1, <2>3, <2>4 DEF Fresh
<1>3. tag' <= stamp
  BY DEF Synced, StampsGrow
<1>4. Fetches(q) /\ q.token # 0 => \A i \in Items \ (q.about \cup q.need) : Fetched(i, q.token)
  BY DEF Current, Fetched
<1> QED
  BY <1>1, <1>2, <1>3, <1>4, GoesInSync

-----------------------------------------------------------------------------
(* The sync token: the requests *)

\* A request that fetches no content and carries no token fits any token.
Bare(q) == q \in Request /\ q.token = 0 /\ ~Fetches(q) /\ q.kind \notin {"report", "etags", "ctag"}

LEMMA BareFits ==
    ASSUME NEW q, Bare(q), q.kind \notin {"add", "modify", "overwrite"} \/ q.op # "delete", NEW t
    PROVE  Fits(q, t)
BY DEF Bare, Fits, Fetches

LEMMA AskBare ==
    ASSUME NEW k \in {"none", "type", "caps"}
    PROVE  Bare(Ask(k)) /\ Ask(k).kind = k /\ Ask(k).op = "none"
<1>1. Ask(k) \in Request
  BY AskPlain DEF Plain, Formed
<1> QED
  BY <1>1 DEF Ask, Bare, Fetches

\* What a refresh starts with, on a server that has sync tokens.
LEMMA RefreshAsks ==
    ASSUME TInv, mode = "sync", NEW t \in Stamps, NEW done \in BOOLEAN, NEW off \in BOOLEAN,
           NEW q, q = SafeRefresh(t, done, off)
    PROVE  q \in Request /\ Fits(q, t) /\ ~Fetches(q) /\ q.token \in {0, t}
<1>1. q \in Request
  BY SafeRefreshPlain DEF TInv, Plain, Formed
<1>2. q = GetUpdatedItems(t, off)
  BY DEF SafeRefresh
<1>3. CASE off
  BY <1>2, <1>3, AskBare, BareFits DEF GetUpdatedItems, Bare
<1>4. CASE ~off
  <2>1. q = [Ask("report") EXCEPT !.token = t]
    BY <1>2, <1>4 DEF GetUpdatedItems
  <2>2. q.kind = "report" /\ q.token = t /\ q.op = "none"
    BY <2>1 DEF Ask
  <2> QED
    BY <1>1, <2>2 DEF Fits, Fetches
<1> QED
  BY <1>3, <1>4

\* What doMultiGet asks for: the server is checked, or the items are fetched, some now and
\* the others later.
LEMMA MultiGetAsks ==
    ASSUME NEW r \in Request, r.op # "delete", r.token # 0 => r.op = "none",
           NEW need \in SUBSET Items, need # {}, NEW off \in BOOLEAN,
           NEW q \in DoMultiGet(r, need, off), NEW t
    PROVE  /\ q \in Request /\ Fits(q, t) /\ q.token \in {0, r.token}
           /\ Fetches(q) => q.token = r.token /\ q.about \cup q.need = need
<1>1. q \in Request
  BY DoMultiGetPlain DEF Plain, Formed
<1>2. CASE off
  <2>1. q = Ask("type")
    BY <1>2 DEF DoMultiGet
  <2> QED
    BY <1>1, <2>1, AskBare, BareFits DEF Bare
<1>3. CASE ~off
  <2>1. PICK b \in Batches(need) :
            q = [r EXCEPT !.kind = "multi", !.about = b, !.need = need \ b]
    BY <1>3 DEF DoMultiGet
  <2>2. b \in SUBSET need
    BY DEF Batches
  <2>3. q.kind = "multi" /\ q.about = b /\ q.need = need \ b /\ q.token = r.token /\ q.op = r.op
    BY <2>1 DEF Request
  <2> QED
    BY <1>1, <2>2, <2>3 DEF Fits, Fetches
<1> QED
  BY <1>2, <1>3

-----------------------------------------------------------------------------
(* The sync token: one step after the other *)

\* The answers that change nothing in the cache, and no token.
LEMMA LookInSync ==
    ASSUME TInv, TInv', Synced, ~Overlap', Prompt, NEW c \in Chains, NEW kinds, Handles(c, kinds),
           UNCHANGED <<cacheVars, tag>>,
           NEW q \in Request, Become(c, q), Fits(q, tag), ~Fetches(q) \/ q.token = 0, q.token <= stamp
    PROVE  Synced'
<1>1. "crossing" \notin Disturbances
  BY DEF Prompt
<1>2. tag <= answer[c].stamp
  BY <1>1, Arrived
<1>3. answer[c].stamp \in Nat
  BY ChainTyped
<1>4. Fetches(q) => q.token <= answer[c].stamp
  BY <1>3
<1>5. IndexTrue' /\ row' = row /\ tag' = tag
  BY DEF cacheVars, Synced, IndexTrue
<1> QED
  BY <1>1, <1>2, <1>4, <1>5, HandledInSync

LEMMA ZeroGrows ==
    ASSUME TInv, Synced
    PROVE  0 <= stamp /\ tag <= stamp /\ tag \in Stamps
BY StampsAre DEF TInv, ServerTyped, FlagsTyped, Synced, StampsGrow

LEMMA TypeInSync ==
    ASSUME TInv, TInv', Synced, ~Overlap', Prompt, mode = "sync", NEW c \in Chains,
           OnType(c) \/ OnCaps(c) \/ OnCtag(c) \/ OnEtags(c)
    PROVE  Synced'
<1>1. "crossing" \notin Disturbances
  BY DEF Prompt
<1>2. 0 <= stamp /\ tag <= stamp /\ tag \in Stamps
  BY ZeroGrows
<1>3. CASE OnType(c)
  <2>1. Handles(c, {"type"}) /\ UNCHANGED <<cacheVars, tag>>
    BY <1>3 DEF OnType
  <2>2. PICK q : q \in {Ask("caps"), Idle} /\ Become(c, q)
    BY <1>3 DEF OnType
  <2>3. Bare(q) /\ q.kind \in {"none", "caps"}
    BY <2>2, AskBare DEF Idle
  <2>4. Fits(q, tag)
    BY <2>3, BareFits
  <2> QED
    BY <1>2, <2>1, <2>2, <2>3, <2>4, LookInSync DEF Bare
<1>4. CASE OnCaps(c)
  <2>1. Handles(c, {"caps"}) /\ UNCHANGED <<cacheVars, tag>>
    BY <1>4 DEF OnCaps
  <2>2. PICK q : q \in {SafeRefresh(tag, refreshed, disabled), Idle} /\ Become(c, q)
    BY <1>4 DEF OnCaps
  <2>3. CASE q = Idle
    <3>1. Bare(q) /\ q.kind = "none"
      BY <2>3, AskBare DEF Idle
    <3>2. Fits(q, tag)
      BY <3>1, BareFits
    <3> QED
      BY <1>2, <2>1, <2>2, <3>1, <3>2, LookInSync DEF Bare
  <2>4. CASE q = SafeRefresh(tag, refreshed, disabled)
    <3>1. refreshed \in BOOLEAN /\ disabled \in BOOLEAN
      BY DEF TInv, FlagsTyped
    <3>2. q \in Request /\ Fits(q, tag) /\ ~Fetches(q) /\ q.token \in {0, tag}
      BY <1>2, <2>4, <3>1, RefreshAsks
    <3> QED
      BY <1>2, <2>1, <2>2, <3>2, LookInSync
  <2> QED
    BY <2>2, <2>3, <2>4
<1>5. CASE OnCtag(c) \/ OnEtags(c)
  <2>1. PICK k \in {"ctag", "etags"} : Handles(c, {k})
    BY <1>5 DEF OnCtag, OnEtags
  <2>2. chain[c].kind \in {"ctag", "etags"} /\ Fits(chain[c], tag)
    BY <2>1 DEF Handles, Synced
  <2> QED
    BY <2>2 DEF Fits
<1> QED
  BY <1>3, <1>4, <1>5

\* The answers to what the user does, those that leave the cache alone.
LEMMA UsersAnswersInSync ==
    ASSUME TInv, TInv', Synced, ~Overlap', Prompt, NEW c \in Items,
           OnPut(c) \/ OnHead(c) \/ (OnDelete(c) /\ answer[c].status # "ok")
    PROVE  Synced'
<1>1. c \in Chains /\ chain[c] \in Request /\ Fits(chain[c], tag) /\ "crossing" \notin Disturbances
  BY ChainTyped DEF Chains, Synced, Prompt
<1>2. 0 <= stamp /\ disabled \in BOOLEAN
  BY ZeroGrows DEF TInv, FlagsTyped
<1>3. PICK kinds : Handles(c, kinds) /\ kinds \in SUBSET {"add", "modify", "overwrite", "delete", "erase", "head"}
  BY DEF OnPut, OnHead, OnDelete
<1>4. chain[c].kind \in {"add", "modify", "overwrite", "delete", "erase", "head"}
  BY <1>3 DEF Handles
<1>5. chain[c].token = 0
  BY <1>1, <1>4 DEF Fits
<1>6. UNCHANGED <<cacheVars, tag>>
  BY DEF OnPut, OnHead, OnDelete, cacheVars
<1>7. CASE \E q \in {Idle} : Become(c, q)
  <2>1. Bare(Idle) /\ Idle.kind = "none"
    BY AskBare DEF Idle
  <2>2. Fits(Idle, tag)
    BY <2>1, BareFits
  <2> QED
    BY <1>1, <1>2, <1>3, <1>6, <1>7, <2>1, <2>2, LookInSync DEF Bare
<1>8. CASE \E k \in {"prompt", "head"} : Become(c, [chain[c] EXCEPT !.kind = k])
  <2>1. PICK k \in {"prompt", "head"} : Become(c, [chain[c] EXCEPT !.kind = k])
    BY <1>8
  <2>2. PICK q : q = [chain[c] EXCEPT !.kind = k]
    OBVIOUS
  <2>3. q \in Request
    BY <1>1, <2>2 DEF Request, Pauses
  <2>4. q.kind = k /\ q.token = 0
    BY <1>1, <1>5, <2>2 DEF Request
  <2>5. Bare(q) /\ q.kind \notin {"add", "modify", "overwrite"}
    BY <2>3, <2>4 DEF Bare, Fetches
  <2>6. Fits(q, tag)
    BY <2>5, BareFits
  <2> QED
    BY <1>1, <1>2, <1>3, <1>6, <2>1, <2>2, <2>5, <2>6, LookInSync DEF Bare
<1>9. CASE OnPut(c) /\ GetUpdatedItem(c)
  <2>1. chain[c].op # "delete" /\ chain[c].op \in {"none", "add", "modify", "delete"}
    BY <1>1, <1>9 DEF OnPut, Handles, Fits, Request
  <2>2. PICK r : r = [Idle EXCEPT !.op = chain[c].op]
    OBVIOUS
  <2>3. r \in Request /\ r.op # "delete" /\ r.token = 0
    BY <2>1, <2>2, IdlePlain DEF Plain, Formed, Request, Idle, Ask
  <2>4. PICK q \in DoMultiGet(r, {c}, disabled) : Become(c, q)
    BY <1>9, <2>2 DEF GetUpdatedItem
  <2>5. {c} \in SUBSET Items /\ {c} # {} /\ (r.token # 0 => r.op = "none")
    BY <2>3
  <2>6. q \in Request /\ Fits(q, tag) /\ q.token \in {0, r.token}
    BY <1>2, <2>3, <2>4, <2>5, MultiGetAsks
  <2> QED
    BY <1>1, <1>2, <1>3, <1>6, <2>3, <2>4, <2>6, LookInSync
<1> QED
  BY <1>7, <1>8, <1>9 DEF OnPut, OnHead, OnDelete

\* A deletion: the server has not got the item.
LEMMA DeletionInSync ==
    ASSUME TInv, TInv', Synced, ~Overlap', Prompt, NEW c \in Items, OnDelete(c), answer[c].status = "ok"
    PROVE  Synced'
<1>1. c \in Chains /\ chain[c] \in Request /\ "crossing" \notin Disturbances
  BY ChainTyped DEF Chains, Prompt
<1>2. Handles(c, {"delete", "erase"}) /\ Become(c, Idle) /\ tag' = tag
      /\ known' = [known EXCEPT ![c] = FALSE]
      /\ etag' = [etag EXCEPT ![c] = 0] /\ row' = [row EXCEPT ![c] = 0]
  BY DEF OnDelete
<1>3. Answered(c) /\ tag <= answer[c].stamp
  BY <1>1, <1>2, Arrived
<1>4. chain[c].kind \in {"delete", "erase"}
  BY <1>2 DEF Handles
<1>5. answer[c].seen[c] = 0
  BY <1>3, <1>4 DEF Answered
<1>6. \A i \in Items : row'[i] = row[i] \/ row'[i] = answer[c].seen[i]
  BY <1>2, <1>5 DEF TInv, CacheTyped
<1>7. IndexTrue'
  BY <1>2 DEF TInv, CacheTyped, Synced, IndexTrue
<1>8. Bare(Idle) /\ Idle.kind = "none"
  BY AskBare DEF Idle
<1>9. Fits(Idle, tag)
  BY <1>8, BareFits
<1>10. 0 <= stamp
  BY ZeroGrows
<1> QED
  BY <1>1, <1>2, <1>3, <1>6, <1>7, <1>8, <1>9, <1>10, HandledInSync DEF Bare

\* What the cache has when a report, or a batch, has been read: of the items that the answer
\* lists and that do not differ, what the server had.
LEMMA SameAsSeen ==
    ASSUME TInv, Matched, IndexTrue, NEW c \in Chains, NEW i \in answer[c].about,
           i \notin Differing(answer[c])
    PROVE  /\ answer[c].seen[i] # 0 => row[i] = answer[c].seen[i]
           /\ answer[c].seen[i] = 0 /\ i \notin Deletable({i}) => row[i] = 0
<1>1. i \in Items
  BY AnswerTyped
<1> QED
  BY <1>1 DEF Differing, IndexTrue, Matched, Deletable

LEMMA ReportInSync ==
    ASSUME KInv, TInv', Synced, ~Overlap', Prompt, mode = "sync", NEW c \in Chains,
           OnReport(c), answer[c].status = "ok"
    PROVE  Synced'
<1> DEFINE a == answer[c]
           listed == {i \in a.about : a.seen[i] # 0}
           gone == (a.about \ listed) \cup (IF tag = 0 THEN Items \ listed ELSE {})
<1>1. TInv /\ Matched /\ IndexTrue /\ "crossing" \notin Disturbances
  BY DEF KInv, Synced, Prompt
<1>2. Handles(c, {"report"}) /\ ReportRead(c)
  BY DEF OnReport
<1>3. chain[c].kind = "report"
  BY <1>2 DEF Handles
<1>4. /\ Answered(c) /\ Fits(chain[c], tag) /\ UNCHANGED <<server, changed, stamp>>
      /\ \A i \in Items : changed[i] <= a.stamp => a.seen[i] = server[i]
      /\ tag <= a.stamp /\ a.stamp <= stamp
  BY <1>1, <1>2, Arrived
<1>5. chain[c].token = tag /\ chain[c].op = "none" /\ Refreshing(c)
  BY <1>3, <1>4 DEF Fits, Refreshing
<1>6. \A i \in Items \ a.about :
          IF tag = 0 THEN a.seen[i] = 0 ELSE changed[i] <= tag \/ a.stamp < changed[i]
  BY <1>3, <1>4, <1>5 DEF Answered, AboutReport
<1>7. /\ \A i \in Items : changed[i] \in Nat
      /\ tag \in Nat /\ a.stamp \in Nat /\ stamp \in Nat /\ a.stamp \in Stamps
      /\ a.about \in SUBSET Items /\ Differing(a) \in SUBSET Items
  BY <1>1, ChainTyped, AnswerTyped
<1>8. Update({}, Deletable(gone), etag, row)
  BY <1>2 DEF ReportRead
<1>9. \A i \in Items : /\ row'[i] = IF i \in Deletable(gone) THEN 0 ELSE row[i]
                       /\ known'[i] => known[i] /\ i \notin Deletable(gone)
                       /\ etag'[i] = IF i \in Deletable(gone) THEN 0 ELSE etag[i]
  BY <1>1, <1>8 DEF Update, TInv, CacheTyped
<1>10. IndexTrue'
  BY <1>1, <1>9 DEF IndexTrue
<1>11. \A i \in Items : i \in gone => a.seen[i] = 0
  BY <1>6
<1>12. \A i \in Items : row'[i] = row[i] \/ row'[i] = a.seen[i]
  BY <1>9, <1>11 DEF Deletable
<1>13. ASSUME NEW i \in Items, i \notin Differing(a)
       PROVE  Fetched(i, a.stamp)
  <2> SUFFICES ASSUME changed[i] <= a.stamp  PROVE row'[i] = server[i]
    BY DEF Fetched
  <2>1. server[i] = a.seen[i]
    BY <1>4
  <2>2. CASE i \in gone
    <3>1. a.seen[i] = 0
      BY <1>11, <2>2
    <3>2. i \notin Deletable(gone) => row[i] = 0
      BY <1>1, <2>2 DEF Deletable, Matched
    <3> QED
      BY <1>9, <2>1, <3>1, <3>2
  <2>3. CASE i \in listed
    <3>1. row[i] = a.seen[i]
      BY <1>1, <1>13, <2>3, SameAsSeen
    <3>2. i \notin Deletable(gone)
      BY <1>11, <2>3 DEF Deletable
    <3> QED
      BY <1>9, <2>1, <3>1, <3>2
  <2>4. CASE i \notin gone /\ i \notin a.about
    <3>1. tag # 0 /\ changed[i] <= tag
      BY <1>6, <1>7, <2>4
    <3>2. row[i] = server[i]
      BY <3>1 DEF Synced, Current
    <3> QED
      BY <1>9, <2>4, <3>2 DEF Deletable
  <2> QED
    BY <2>2, <2>3, <2>4
<1>14. CASE Differing(a) = {}
  <2>1. Become(c, Idle) /\ tag' = IF a.stamp # 0 THEN a.stamp ELSE tag
    BY <1>2, <1>14 DEF ReportRead, Finalize
  <2>2. tag' = a.stamp
    BY <1>4, <1>7, <2>1
  <2>3. Bare(Idle) /\ Idle.kind = "none"
    BY AskBare DEF Idle
  <2>4. Fits(Idle, tag')
    BY <2>3, BareFits
  <2>5. tag' <= a.stamp /\ \A i \in Items : Fetched(i, tag')
    BY <1>7, <1>13, <1>14, <2>2
  <2>6. 0 <= stamp
    BY <1>7
  <2> QED
    BY <1>1, <1>2, <1>5, <1>10, <1>12, <2>1, <2>3, <2>4, <2>5, <2>6, HandledInSync DEF Bare
<1>15. CASE Differing(a) # {}
  <2>1. PICK r : r = [Idle EXCEPT !.token = a.stamp]
    OBVIOUS
  <2>2. r \in Request /\ r.op = "none" /\ r.token = a.stamp
    BY <1>7, <2>1, IdlePlain DEF Plain, Formed, Request, Idle, Ask
  <2>3. tag' = tag /\ disabled \in BOOLEAN
    BY <1>1, <1>2, <1>15 DEF ReportRead, TInv, FlagsTyped
  <2>4. PICK q \in DoMultiGet(r, Differing(a), disabled) : Become(c, q)
    BY <1>2, <1>15, <2>1 DEF ReportRead
  <2>5. r.op # "delete"
    BY <2>2
  <2>6. /\ q \in Request /\ Fits(q, tag) /\ q.token \in {0, a.stamp}
        /\ Fetches(q) => q.token = a.stamp /\ q.about \cup q.need = Differing(a)
    BY <1>7, <1>15, <2>2, <2>3, <2>4, <2>5, MultiGetAsks
  <2>7. q.token <= a.stamp /\ q.token <= stamp
    BY <1>4, <1>7, <2>6
  <2>8. Fetches(q) /\ q.token # 0 => \A i \in Items \ (q.about \cup q.need) : Fetched(i, q.token)
    BY <1>13, <2>6
  <2> QED
    BY <1>1, <1>2, <1>4, <1>10, <1>12, <2>3, <2>4, <2>6, <2>7, <2>8, HandledInSync
<1> QED
  BY <1>14, <1>15

\* A report that fails: the token is dropped, or the calendar is disabled.
LEMMA ReportLost ==
    ASSUME KInv, TInv', Synced, ~Overlap', Prompt, mode = "sync", NEW c \in Chains,
           OnReport(c), answer[c].status # "ok"
    PROVE  Synced'
<1>1. TInv /\ IndexTrue /\ "crossing" \notin Disturbances /\ 0 <= stamp
  BY ZeroGrows DEF KInv, Synced, Prompt
<1>2. Handles(c, {"report"}) /\ UNCHANGED cacheVars
  BY DEF OnReport, cacheVars
<1>3. IndexTrue' /\ row' = row
  BY <1>1, <1>2 DEF IndexTrue, cacheVars
<1>4. chain[c].kind = "report"
  BY <1>2 DEF Handles
<1>5. Fits(chain[c], tag) /\ answer[c].stamp \in Nat
  BY <1>1, <1>2, Arrived, ChainTyped
<1>6. CASE answer[c].status = "gone" /\ tag # 0
  <2>1. tag' = 0 /\ Become(c, SafeRefresh(0, refreshed, disabled))
    BY <1>6 DEF OnReport
  <2>2. PICK q : q = SafeRefresh(0, refreshed, disabled)
    OBVIOUS
  <2>3. refreshed \in BOOLEAN /\ disabled \in BOOLEAN
    BY <1>1 DEF TInv, FlagsTyped
  <2>4. q \in Request /\ Fits(q, 0) /\ ~Fetches(q) /\ q.token = 0
    BY <1>1, <2>2, <2>3, Zero, RefreshAsks
  <2>5. Refreshing(c) /\ 0 <= answer[c].stamp
    BY <1>4, <1>5 DEF Fits, Refreshing
  <2> QED
    BY <1>1, <1>2, <1>3, <2>1, <2>2, <2>4, <2>5, HandledInSync
<1>7. CASE ~(answer[c].status = "gone" /\ tag # 0)
  <2>1. Become(c, Idle) /\ tag' = tag
    BY <1>7 DEF OnReport
  <2>2. Bare(Idle) /\ Idle.kind = "none"
    BY AskBare DEF Idle
  <2>3. Fits(Idle, tag)
    BY <2>2, BareFits
  <2> QED
    BY <1>1, <1>2, <2>1, <2>2, <2>3, LookInSync DEF Bare
<1> QED
  BY <1>6, <1>7

\* A batch is read: the cache has of its items what the server had.
LEMMA MultiReads ==
    ASSUME TInv, Matched, IndexTrue, NEW c \in Chains, MultiRead(c), chain[c].op # "delete"
    PROVE  /\ IndexTrue'
           /\ \A i \in Items : row'[i] = row[i] \/ row'[i] = answer[c].seen[i]
           /\ \A i \in answer[c].about : row'[i] = answer[c].seen[i]
<1> DEFINE a == answer[c]
           fresh == Differing(a)
           gone == Deletable({i \in a.about : a.seen[i] = 0})
<1>1. Update(fresh, gone, a.seen, a.seen)
  BY DEF MultiRead
<1>2. \A i \in Items : /\ row'[i] = IF i \in fresh THEN a.seen[i] ELSE IF i \in gone THEN 0 ELSE row[i]
                       /\ known'[i] <=> i \in fresh \/ (known[i] /\ i \notin gone)
                       /\ etag'[i] = IF i \in fresh THEN a.seen[i] ELSE IF i \in gone THEN 0 ELSE etag[i]
  BY <1>1 DEF Update
<1>3. IndexTrue'
  BY <1>2 DEF IndexTrue
<1>4. \A i \in gone : a.seen[i] = 0
  BY DEF Deletable
<1>5. \A i \in Items : row'[i] = row[i] \/ row'[i] = a.seen[i]
  BY <1>2, <1>4
<1>6. ASSUME NEW i \in a.about  PROVE row'[i] = a.seen[i]
  <2>1. i \in Items
    BY AnswerTyped
  <2>2. CASE i \in fresh
    BY <1>2, <2>1, <2>2
  <2>3. CASE i \notin fresh /\ a.seen[i] # 0
    <3>1. row[i] = a.seen[i] /\ i \notin gone
      BY <1>4, <2>3, SameAsSeen
    <3> QED
      BY <1>2, <2>1, <2>3, <3>1
  <2>4. CASE i \notin fresh /\ a.seen[i] = 0
    <3>1. i \in gone \/ row[i] = 0
      BY <2>1, <2>4 DEF Deletable, Matched
    <3> QED
      BY <1>2, <2>1, <2>4, <3>1
  <2> QED
    BY <2>2, <2>3, <2>4
<1> QED
  BY <1>3, <1>5, <1>6

LEMMA MultiInSync ==
    ASSUME KInv, TInv', Synced, ~Overlap', Prompt, NEW c \in Chains, OnMulti(c)
    PROVE  Synced'
<1> DEFINE a == answer[c]
           t == chain[c].token
<1>1. TInv /\ Matched /\ IndexTrue /\ "crossing" \notin Disturbances /\ 0 <= stamp
  BY ZeroGrows DEF KInv, Synced, Prompt
<1>2. Handles(c, {"multi"})
  BY DEF OnMulti
<1>3. chain[c].kind = "multi" /\ Fetches(chain[c]) /\ chain[c] \in Request
  BY <1>1, <1>2, ChainTyped DEF Handles, Fetches
<1>4. /\ Answered(c) /\ Fits(chain[c], tag)
      /\ \A i \in Items : changed[i] <= a.stamp => a.seen[i] = server[i]
      /\ tag <= a.stamp /\ a.stamp <= stamp /\ t <= a.stamp
  BY <1>1, <1>2, <1>3, Arrived
<1>5. chain[c].op # "delete" /\ (t # 0 => Refreshing(c) /\ chain[c].op = "none")
      /\ AboutMulti(chain[c], a) /\ Earned(chain[c])
  BY <1>3, <1>4 DEF Fits, Refreshing, Answered, Synced
<1>6. /\ t \in Nat /\ tag \in Nat /\ a.stamp \in Nat /\ stamp \in Nat
      /\ chain[c].need \in SUBSET Items /\ \A i \in Items : changed[i] \in Nat
  BY <1>1, ChainTyped
<1>7. Bare(Idle) /\ Idle.kind = "none"
  BY AskBare DEF Idle
<1>8. Fits(Idle, tag) /\ Fits(Idle, tag')
  BY <1>7, BareFits
<1>9. CASE a.status \in {"ok", "partial"}
  <2>1. MultiRead(c)
    BY <1>9 DEF OnMulti
  <2>2. /\ IndexTrue'
        /\ \A i \in Items : row'[i] = row[i] \/ row'[i] = a.seen[i]
        /\ \A i \in a.about : row'[i] = a.seen[i]
    BY <1>1, <1>5, <2>1, MultiReads
  <2>3. CASE a.status = "partial"
    <3>1. Become(c, Idle) /\ tag' = tag
      BY <2>3 DEF OnMulti
    <3> QED
      BY <1>1, <1>2, <1>4, <1>7, <1>8, <2>2, <3>1, HandledInSync DEF Bare
  <2>4. ASSUME a.status = "ok", t # 0, NEW i \in Items \ chain[c].need
        PROVE  Fetched(i, t)
    <3>1. CASE i \in chain[c].about
      <4>1. i \in a.about
        BY <1>5, <2>4, <3>1 DEF AboutMulti
      <4>2. row'[i] = a.seen[i]
        BY <2>2, <4>1
      <4> QED
        BY <1>4, <1>6, <4>2 DEF Fetched
    <3>2. CASE i \notin chain[c].about
      <4>1. Current(i, t)
        BY <1>3, <1>5, <2>4, <3>2 DEF Earned
      <4> QED
        BY <1>4, <1>6, <2>2, <4>1 DEF Current, Fetched
    <3> QED
      BY <3>1, <3>2
  <2>5. CASE a.status = "ok" /\ chain[c].need = {}
    <3>1. Become(c, Idle) /\ tag' = IF t # 0 THEN t ELSE tag
      BY <2>5 DEF OnMulti, Finalize
    <3>2. tag' <= a.stamp /\ (tag' # tag => Refreshing(c))
          /\ (tag' = tag \/ \A i \in Items : Fetched(i, tag'))
      BY <1>4, <1>5, <2>4, <2>5, <3>1
    <3> QED
      BY <1>1, <1>2, <1>7, <1>8, <2>2, <3>1, <3>2, HandledInSync DEF Bare
  <2>6. CASE a.status = "ok" /\ chain[c].need # {}
    <3>1. PICK q : q = [chain[c] EXCEPT !.kind = "batch", !.about = {}]
      OBVIOUS
    <3>2. Become(c, q) /\ tag' = tag
      BY <2>6, <3>1 DEF OnMulti
    <3>3. q \in Request
      BY <1>3, <3>1 DEF Request, Pauses
    <3>4. q.kind = "batch" /\ q.about = {} /\ q.need = chain[c].need /\ q.token = t /\ q.op = chain[c].op
      BY <1>3, <3>1 DEF Request
    <3>5. Fits(q, tag) /\ q.token <= a.stamp /\ q.token <= stamp
      BY <1>4, <1>5, <1>6, <3>4 DEF Fits, Fetches
    <3>6. q.token # 0 => \A i \in Items \ (q.about \cup q.need) : Fetched(i, q.token)
      BY <2>4, <2>6, <3>4
    <3> QED
      BY <1>1, <1>2, <1>4, <2>2, <3>2, <3>3, <3>5, <3>6, HandledInSync
  <2> QED
    BY <1>9, <2>3, <2>5, <2>6
<1>10. CASE a.status \notin {"ok", "partial"}
  <2>1. UNCHANGED <<cacheVars, tag>>
        /\ Become(c, IF chain[c].need = {} THEN [chain[c] EXCEPT !.kind = "stop"] ELSE Idle)
    BY <1>10 DEF OnMulti
  <2>2. CASE chain[c].need = {}
    <3>1. t = 0
      BY <1>5, <1>10, <2>2 DEF AboutMulti
    <3>2. PICK q : q = [chain[c] EXCEPT !.kind = "stop"]
      OBVIOUS
    <3>3. q \in Request
      BY <1>3, <3>2 DEF Request, Pauses
    <3>4. q.kind = "stop" /\ q.token = 0
      BY <1>3, <3>1, <3>2 DEF Request
    <3>5. Bare(q) /\ q.kind \notin {"add", "modify", "overwrite"}
      BY <3>3, <3>4 DEF Bare, Fetches
    <3>6. Fits(q, tag)
      BY <3>5, BareFits
    <3> QED
      BY <1>1, <1>2, <2>1, <2>2, <3>2, <3>5, <3>6, LookInSync DEF Bare
  <2>3. CASE chain[c].need # {}
    BY <1>1, <1>2, <1>7, <1>8, <2>1, <2>3, LookInSync DEF Bare
  <2> QED
    BY <2>2, <2>3
<1> QED
  BY <1>9, <1>10

LEMMA PausesInSync ==
    ASSUME TInv, TInv', Synced, ~Overlap', Prompt, NEW c \in Chains,
           OnStop(c) \/ OnBatch(c) \/ (c \in Items /\ (OnPrompt(c) \/ OnFlag(c)))
    PROVE  Synced'
<1>1. chain[c] \in Request /\ Fits(chain[c], tag) /\ Earned(chain[c]) /\ Formed(chain[c])
      /\ chain[c].token <= stamp /\ chain[c].token \in Nat /\ chain[c].need \in SUBSET Items
  BY ChainTyped DEF Synced, StampsGrow, TInv, ChainsTyped
<1>2. chain[c].kind \in {"stop", "batch", "prompt", "flag"}
  BY DEF OnStop, OnBatch, OnPrompt, OnFlag
<1>3. chain[c].kind \notin Queries \cup Writes \cup {"head"}
  BY <1>2 DEF Queries, Writes
<1>4. 0 <= stamp /\ disabled \in BOOLEAN
  BY ZeroGrows DEF TInv, FlagsTyped
<1>5. chain[c].kind # "batch" => chain[c].token = 0
  BY <1>1, <1>2 DEF Fits
<1>6. UNCHANGED <<server, changed, stamp, tag, wire, answer, row>> /\ UNCHANGED cacheVars
  BY <1>5 DEF OnStop, Finalize, OnBatch, OnPrompt, OnFlag, serverVars, cacheVars
<1>7. IndexTrue'
  BY <1>6 DEF Synced, IndexTrue, cacheVars
<1>8. CASE OnBatch(c)
  <2>1. chain[c].kind = "batch" /\ chain[c].need # {} /\ Fetches(chain[c])
    BY <1>1, <1>8 DEF OnBatch, Formed, Fetches
  <2>2. PICK q \in DoMultiGet(chain[c], chain[c].need, disabled) : Become(c, q)
    BY <1>8 DEF OnBatch
  <2>3. chain[c].op # "delete" /\ (chain[c].token # 0 => chain[c].op = "none") /\ chain[c].about = {}
    BY <1>1, <2>1 DEF Fits
  <2>4. /\ q \in Request /\ Fits(q, tag) /\ q.token \in {0, chain[c].token}
        /\ Fetches(q) => q.token = chain[c].token /\ q.about \cup q.need = chain[c].need
    BY <1>1, <1>4, <2>1, <2>3, MultiGetAsks
  <2>5. Fetches(q) /\ q.token # 0 => \A i \in Items \ (q.about \cup q.need) : Current(i, q.token)
    BY <1>1, <2>1, <2>3, <2>4 DEF Earned
  <2> QED
    BY <1>1, <1>3, <1>4, <1>6, <1>7, <2>1, <2>2, <2>4, <2>5, PauseInSync
<1>9. CASE Become(c, Idle)
  <2>1. Bare(Idle) /\ Idle.kind = "none"
    BY AskBare DEF Idle
  <2>2. Fits(Idle, tag)
    BY <2>1, BareFits
  <2> QED
    BY <1>3, <1>4, <1>6, <1>7, <1>9, <2>1, <2>2, PauseInSync DEF Bare
<1>10. CASE chain[c].kind = "prompt" /\ chain[c].op # "delete" /\ GetUpdatedItem(c) /\ c \in Items
  <2>1. PICK r : r = [Idle EXCEPT !.op = chain[c].op]
    OBVIOUS
  <2>2. chain[c].op \in {"none", "add", "modify", "delete"}
    BY <1>1 DEF Request
  <2>3. r \in Request /\ r.op # "delete" /\ r.token = 0
    BY <1>10, <2>1, <2>2, IdlePlain DEF Plain, Formed, Request, Idle, Ask
  <2>4. PICK q \in DoMultiGet(r, {c}, disabled) : Become(c, q)
    BY <1>10, <2>1 DEF GetUpdatedItem
  <2>5. {c} \in SUBSET Items /\ {c} # {} /\ (r.token # 0 => r.op = "none")
    BY <1>10, <2>3
  <2>6. q \in Request /\ Fits(q, tag) /\ q.token \in {0, r.token}
    BY <1>4, <2>3, <2>4, <2>5, MultiGetAsks
  <2> QED
    BY <1>3, <1>4, <1>6, <1>7, <2>3, <2>4, <2>6, PauseInSync
<1>11. CASE chain[c].kind = "prompt"
            /\ Become(c, [chain[c] EXCEPT !.kind = IF chain[c].op = "delete" THEN "erase" ELSE "overwrite"])
  <2>1. PICK k \in {"erase", "overwrite"} :
            Become(c, [chain[c] EXCEPT !.kind = k]) /\ (k = "overwrite" => chain[c].op # "delete")
    BY <1>11
  <2>2. PICK q : q = [chain[c] EXCEPT !.kind = k]
    OBVIOUS
  <2>3. q \in Request
    BY <1>1, <2>2 DEF Request, Writes
  <2>4. q.kind = k /\ q.token = 0 /\ q.op = chain[c].op
    BY <1>1, <1>5, <1>11, <2>2 DEF Request
  <2>5. Bare(q) /\ (q.kind \notin {"add", "modify", "overwrite"} \/ q.op # "delete")
    BY <2>1, <2>3, <2>4 DEF Bare, Fetches
  <2>6. Fits(q, tag)
    BY <2>5, BareFits
  <2> QED
    BY <1>3, <1>4, <1>6, <1>7, <2>1, <2>2, <2>5, <2>6, PauseInSync DEF Bare
<1>12. CASE c \in Items /\ OnFlag(c) /\ etag[c] # 0
  <2>1. Become(c, [chain[c] EXCEPT !.kind = chain[c].op, !.match = etag[c]])
    BY <1>12 DEF OnFlag, Become
  <2>2. PICK q : q = [chain[c] EXCEPT !.kind = chain[c].op, !.match = etag[c]]
    OBVIOUS
  <2>3. etag[c] \in Stamps /\ chain[c].op \in {"none", "add", "modify", "delete"}
    BY <1>1, <1>12 DEF TInv, CacheTyped, Request
  <2>4. q \in Request
    BY <1>1, <2>2, <2>3 DEF Request, Writes
  <2>5. q.kind = chain[c].op /\ q.op = chain[c].op /\ q.token = 0
    BY <1>1, <1>5, <1>12, <2>2 DEF Request, OnFlag
  <2>6. Bare(q) /\ (q.kind \notin {"add", "modify", "overwrite"} \/ q.op # "delete")
    BY <2>3, <2>4, <2>5 DEF Bare, Fetches
  <2>7. Fits(q, tag)
    BY <2>6, BareFits
  <2> QED
    BY <1>3, <1>4, <1>6, <1>7, <2>1, <2>2, <2>6, <2>7, PauseInSync DEF Bare
<1>13. OnStop(c) => Become(c, Idle)
  BY DEF OnStop, Finalize
<1>14. ASSUME c \in Items, OnFlag(c)
       PROVE  Become(c, Idle) \/ etag[c] # 0
  BY <1>14 DEF OnFlag, Become
<1>15. ASSUME c \in Items, OnPrompt(c)
       PROVE  \/ Become(c, Idle)
              \/ Become(c, [chain[c] EXCEPT !.kind = IF chain[c].op = "delete" THEN "erase" ELSE "overwrite"])
              \/ chain[c].op # "delete" /\ GetUpdatedItem(c)
  BY <1>15 DEF OnPrompt, Prompt
<1> QED
  BY <1>8, <1>9, <1>10, <1>11, <1>12, <1>13, <1>14, <1>15 DEF OnPrompt

\* A refresh, or a change of the user, starts.
LEMMA StartsInSync ==
    ASSUME TInv, TInv', Synced, ~Overlap', mode = "sync",
           \/ Synchronize
           \/ \E i \in Items, kind \in {"add", "modify", "delete"} : Change(i, kind)
    PROVE  Synced'
<1>1. 0 <= stamp /\ tag <= stamp /\ tag \in Stamps
  BY ZeroGrows
<1>2. UNCHANGED <<server, changed, stamp, tag, wire, answer, row>> /\ UNCHANGED cacheVars
  BY DEF Synchronize, Change, serverVars, cacheVars
<1>3. IndexTrue'
  BY <1>2 DEF Synced, IndexTrue, cacheVars
<1>4. "none" \notin Queries \cup Writes \cup {"head"} /\ Idle.kind = "none"
  BY AskBare DEF Queries, Writes, Idle
<1>5. CASE Synchronize
  <2>1. PICK c \in Refreshes :
            chain[c] = Idle /\ Become(c, IF checked THEN SafeRefresh(tag, refreshed, disabled) ELSE Ask("type"))
    BY <1>5 DEF Synchronize, Become
  <2>2. c \in Chains /\ refreshed \in BOOLEAN /\ disabled \in BOOLEAN
    BY DEF Chains, TInv, FlagsTyped
  <2>3. PICK q : q \in {SafeRefresh(tag, refreshed, disabled), Ask("type")} /\ Become(c, q)
    BY <2>1
  <2>4. q \in Request /\ Fits(q, tag) /\ ~Fetches(q) /\ q.token \in {0, tag}
    <3>1. CASE q = Ask("type")
      <4>1. Bare(q) /\ q.kind = "type"
        BY <3>1, AskBare
      <4>2. Fits(q, tag)
        BY <4>1, BareFits
      <4> QED
        BY <4>1, <4>2 DEF Bare
    <3>2. CASE q = SafeRefresh(tag, refreshed, disabled)
      BY <1>1, <2>2, <3>2, RefreshAsks
    <3> QED
      BY <2>3, <3>1, <3>2
  <2> QED
    BY <1>1, <1>2, <1>3, <1>4, <2>1, <2>2, <2>3, <2>4, PauseInSync
<1>6. ASSUME NEW i \in Items, NEW kind \in {"add", "modify", "delete"}, Change(i, kind)
      PROVE  Synced'
  <2> DEFINE k == IF kind = "add" THEN kind ELSE "flag"
  <2>1. PICK q : q = [Ask(k) EXCEPT !.op = kind, !.about = {i}, !.base = row[i]]
    OBVIOUS
  <2>2. q \in Request /\ q.kind = k /\ q.token = 0 /\ q.op = kind
    BY <2>1, Zero DEF Ask, Request, Writes, Pauses, TInv, CacheTyped
  <2>3. Become(i, q) /\ chain[i] = Idle /\ i \in Chains
    BY <1>6, <2>1 DEF Change, Become, Chains
  <2>4. Bare(q) /\ (q.kind \notin {"add", "modify", "overwrite"} \/ q.op # "delete")
    BY <2>2 DEF Bare, Fetches
  <2>5. Fits(q, tag)
    BY <2>4, BareFits
  <2> QED
    BY <1>1, <1>2, <1>3, <1>4, <2>3, <2>4, <2>5, PauseInSync DEF Bare
<1> QED
  BY <1>5, <1>6

\* The flag comes late: the row is stored once more, as it is.
LEMMA LateInSync ==
    ASSUME KInv, Synced, ~Overlap', NEW i \in Items, OnLate(i)
    PROVE  Synced'
<1>1. row[i] = late[i]
  BY DEF OnLate, KInv, Matched, Synced, IndexTrue
<1>2. row' = row
  BY <1>1 DEF OnLate, KInv, TInv, CacheTyped
<1>3. UNCHANGED <<server, changed, stamp, tag, wire, answer, chain, known, etag>>
  BY DEF OnLate, serverVars
<1>4. OnceOnWire' /\ InOrder' /\ StampsGrow' /\ IndexTrue'
      /\ (\A c \in Chains : Fits(chain[c], tag)')
  BY <1>2, <1>3 DEF Synced, OnceOnWire, InOrder, StampsGrow, IndexTrue, Fits, Fetches
<1>5. (tag' # 0 => \A j \in Items : Current(j, tag)') /\ \A c \in Chains : Earned(chain[c])'
  BY <1>2, <1>3 DEF Synced, Current, Earned, Fetches
<1>6. \A c \in Chains : OnWire(c)' => Answered(c)'
  BY <1>3 DEF Synced, OnWire, Answered, Fresh, AboutMulti, AboutReport, Fetches
<1> QED
  BY <1>4, <1>5, <1>6 DEF Synced

\* The program starts again: nothing is on the wire, and the cache is as it was.
LEMMA RestartInSync ==
    ASSUME KInv, Synced, ~Overlap', Restart
    PROVE  Synced'
<1>1. UNCHANGED <<server, changed, stamp, known, row, tag>> /\ wire' = <<>>
      /\ \A c \in Chains : chain'[c] = Idle
  BY DEF Restart, serverVars
<1>2. DOMAIN wire' = {}
  BY <1>1
<1>3. \A i \in Items : etag'[i] = IF known[i] THEN etag[i] ELSE 0
  BY DEF Restart
<1>4. Bare(Idle) /\ Idle.kind = "none"
  BY AskBare DEF Idle
<1>5. Fits(Idle, tag')
  BY <1>4, BareFits
<1>6. OnceOnWire' /\ InOrder' /\ \A c \in Chains : ~OnWire(c)'
  BY <1>2 DEF OnceOnWire, InOrder, OnWire
<1>7. IndexTrue'
  BY <1>1, <1>3 DEF Synced, IndexTrue
<1>8. StampsGrow'
  BY <1>1, <1>4, ZeroGrows DEF KInv, Synced, StampsGrow, Bare
<1>9. tag' # 0 => \A i \in Items : Current(i, tag)'
  BY <1>1 DEF Synced, Current
<1>10. \A c \in Chains : Earned(chain[c])' /\ Fits(chain[c], tag)'
  BY <1>1, <1>4, <1>5 DEF Earned, Bare, Fits, Fetches
<1> QED
  BY <1>6, <1>7, <1>8, <1>9, <1>10 DEF Synced

-----------------------------------------------------------------------------
(* The sync token: the invariant *)

LEMMA InitSynced == Init => SInv
<1> SUFFICES ASSUME Init  PROVE SInv
  OBVIOUS
<1>1. KInv
  BY InitInv
<1>2. /\ tag = 0 /\ stamp = 1 /\ wire = <<>>
      /\ \A i \in Items : changed[i] = 1 /\ ~known[i]
      /\ \A c \in Chains : chain[c] = Idle
  BY DEF Init
<1>3. Bare(Idle) /\ Idle.kind = "none"
  BY AskBare DEF Idle
<1>4. Fits(Idle, tag) /\ Earned(Idle) /\ Idle.token = 0
  BY <1>3, BareFits DEF Bare, Earned
<1>5. OnceOnWire /\ InOrder /\ \A c \in Chains : ~OnWire(c)
  <2>1. DOMAIN wire = {}
    BY <1>2
  <2> QED
    BY <2>1 DEF OnceOnWire, InOrder, OnWire
<1>6. StampsGrow /\ IndexTrue /\ ~Overlap
  BY <1>2, <1>3, <1>4 DEF StampsGrow, IndexTrue, Overlap, Refreshing
<1>7. Synced
  BY <1>2, <1>4, <1>5, <1>6 DEF Synced
<1> QED
  BY <1>1, <1>7 DEF SInv

LEMMA ModeStays ==
    ASSUME Next
    PROVE  mode' = mode
<1>1. \A c, status, about : Reply(c, status, about) => mode' = mode
  BY DEF Reply
<1>2. \A c, kinds : Handles(c, kinds) => mode' = mode
  BY DEF Handles, serverVars
<1>3. ASSUME NEW c \in Chains, ServerStep(c)  PROVE mode' = mode
  BY <1>1, <1>3 DEF ServerStep, AnswerQuery, AnswerFailure, AnswerWrite, AnswerHead
<1>4. ASSUME NEW c \in Chains, ClientStep(c)  PROVE mode' = mode
  BY <1>2, <1>4 DEF ClientStep, OnType, OnCaps, OnCtag, OnEtags, OnReport, OnMulti, OnStop, OnBatch,
                    OnFlag, OnPut, OnDelete, OnHead, OnLate, serverVars
<1>5. UserStep => mode' = mode
  BY DEF UserStep, Synchronize, Restart, AddItem, ModifyItem, DeleteItem, Change, OnPrompt, Others, serverVars
<1> QED
  BY <1>3, <1>4, <1>5 DEF Next

LEMMA StepInSync ==
    ASSUME KInv, TInv', Prompt, mode = "sync", Synced, ~Overlap', Next
    PROVE  Synced'
<1> USE DEF KInv
<1>1. ASSUME NEW c \in Chains, ServerStep(c)
      PROVE  Synced'
  BY <1>1, QueriesInSync, FailuresInSync, WritesInSync DEF ServerStep
<1>2. ASSUME NEW c \in Chains, ClientStep(c)
      PROVE  Synced'
  <2>1. CASE OnType(c) \/ OnCaps(c) \/ OnCtag(c) \/ OnEtags(c)
    BY <2>1, TypeInSync
  <2>2. CASE OnReport(c)
    BY <2>2, ReportInSync, ReportLost
  <2>3. CASE OnMulti(c)
    BY <2>3, MultiInSync
  <2>4. CASE OnStop(c) \/ OnBatch(c) \/ (c \in Items /\ OnFlag(c))
    BY <2>4, PausesInSync
  <2>5. CASE c \in Items /\ (OnPut(c) \/ OnHead(c) \/ OnDelete(c))
    BY <2>5, UsersAnswersInSync, DeletionInSync
  <2>6. CASE c \in Items /\ OnLate(c)
    BY <2>6, LateInSync
  <2> QED
    BY <1>2, <2>1, <2>2, <2>3, <2>4, <2>5, <2>6 DEF ClientStep
<1>3. CASE UserStep
  <2>1. ASSUME NEW i \in Items, OnPrompt(i)
        PROVE  Synced'
    BY <2>1, PausesInSync DEF Chains
  <2>2. ASSUME NEW i \in Items, AddItem(i) \/ ModifyItem(i) \/ DeleteItem(i)
        PROVE  Synced'
    BY <2>2, StartsInSync DEF AddItem, ModifyItem, DeleteItem
  <2> QED
    BY <1>3, <2>1, <2>2, StartsInSync, RestartInSync, OthersInSync DEF UserStep
<1> QED
  BY <1>1, <1>2, <1>3 DEF Next

LEMMA SyncSteps == Prompt => (SInv /\ [Next]_vars => SInv')
<1> SUFFICES ASSUME Prompt, SInv, [Next]_vars  PROVE SInv'
  OBVIOUS
<1>1. "slow" \notin Disturbances
  BY DEF Prompt
<1>2. KInv /\ KInv'
  BY <1>1, Steps, Stutters DEF SInv, KInv
<1>3. CASE Next
  <2>1. overlapped' = (overlapped \/ Overlap') /\ mode' = mode
    BY <1>3, ModeStays DEF Next, History
  <2>2. ASSUME mode' = "sync", ~overlapped'
        PROVE  Synced'
    <3>1. mode = "sync" /\ ~overlapped /\ ~Overlap' /\ Synced
      BY <2>1, <2>2 DEF SInv
    <3> QED
      BY <1>2, <1>3, <3>1, StepInSync DEF KInv
  <2> QED
    BY <1>2, <2>2 DEF SInv
<1>4. CASE UNCHANGED vars
  <2>1. Synced => Synced'
    <3>1. UNCHANGED <<server, changed, stamp, tag, etag, known, row, chain, answer, wire>>
      BY <1>4 DEF vars, serverVars, cacheVars
    <3>2. ~Overlap /\ OnceOnWire /\ InOrder /\ StampsGrow /\ IndexTrue =>
              (~Overlap /\ OnceOnWire /\ InOrder /\ StampsGrow /\ IndexTrue)'
      BY <3>1 DEF Overlap, Refreshing, OnceOnWire, InOrder, StampsGrow, IndexTrue
    <3>3. (\A c \in Chains : Fits(chain[c], tag)) => (\A c \in Chains : Fits(chain[c], tag))'
      BY <3>1 DEF Fits, Fetches
    <3>4. (tag # 0 => \A i \in Items : Current(i, tag)) => (tag # 0 => \A i \in Items : Current(i, tag))'
      BY <3>1 DEF Current
    <3>5. (\A c \in Chains : Earned(chain[c])) => (\A c \in Chains : Earned(chain[c]))'
      BY <3>1 DEF Earned, Fetches, Current
    <3>6. (\A c \in Chains : OnWire(c) => Answered(c)) => (\A c \in Chains : OnWire(c) => Answered(c))'
      BY <3>1 DEF OnWire, Answered, Fresh, AboutMulti, AboutReport, Fetches
    <3> QED
      BY <3>2, <3>3, <3>4, <3>5, <3>6 DEF Synced
  <2> QED
    BY <1>2, <1>4, <2>1 DEF SInv, vars, serverVars
<1> QED
  BY <1>3, <1>4

\* With webdav-sync the server lists only what has changed since the token that is stored
\* (mWebdavSyncToken): what has not changed since is in the cache as it is on the server, for
\* any number of items, in batches of any size, whatever is changed by others or by the user,
\* and whenever the program starts again, as far as the calendar notices that a request
\* fails: an error status, a report that is refused, items of a multistatus with a status of
\* their own.  It takes (Prompt) answers that come in the order they were given and after
\* the flags, a last batch that does not fail as a whole, multistatus bodies that are not
\* cut off and hold an item for every response, and deletions that the user does not take
\* back; and (TokenStands) refreshes that do not overlap.
THEOREM TokenTrusted == Prompt => (Spec => []TokenStands)
<1> SUFFICES ASSUME Prompt  PROVE Spec => []TokenStands
  OBVIOUS
<1>1. SInv => TokenStands
  BY DEF SInv, Synced, TokenStands, Current
<1>2. SInv /\ [Next]_vars => SInv'
  BY SyncSteps
<1> QED
  BY <1>1, <1>2, InitSynced, PTL DEF Spec
=============================================================================
