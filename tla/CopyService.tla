----------------------------- MODULE CopyService -----------------------------
(***************************************************************************)
(* mailnews/base/src/nsMsgCopyService.cpp: the queue through which every   *)
(* copy or move of messages, folders and files goes.  A request has one    *)
(* source for each folder its messages are in, and the folder it copies to *)
(* does the work (mailnews/local/src/nsLocalMailFolder.cpp): it takes one  *)
(* copy at a time and calls NotifyCompletion when it is over.              *)
(*                                                                         *)
(* All of it runs on one thread, but the calls nest: a copy may be over    *)
(* before the call that starts it returns, and the listener that hears of  *)
(* the end of a request may make the next one.  "stack" holds the calls of *)
(* the service that have not returned, the innermost first.                *)
(***************************************************************************)
EXTENDS Integers, FiniteSets, SequencesExt

CONSTANTS
    Requests,     \* the requests that are made, each once
    Plan,         \* what each asks for: see PlanOK
    None,         \* no copy
    Disturbances  \* what happens beside the copies themselves, see below

\* "chaining": a listener makes requests from OnStopCopy;
\* "twins": a request is made while one with the same source and target waits;
\* "failures": copies fail; "refusals": CopyFolder returns an error;
\* "silence": CopyMessages or CopyFolder returns and nobody will report an end.
ASSUME NoneIsNone == None \notin Requests
ASSUME DisturbancesOK ==
    Disturbances \subseteq {"chaining", "twins", "failures", "refusals", "silence"}

\* m_srcSupport, the folders of m_copySourceArray, m_dstFolder, and the folder that
\* copies and reports: the destination, or the copy of the folder in it.  An
\* "emptyFolder" is a folder without messages that comes from another server.
Folders == UNION {{Plan[r].src, Plan[r].dst, Plan[r].target} \cup Range(Plan[r].sources) :
                   r \in Requests}
ASSUME PlanOK ==
    \A r \in Requests :
        /\ Plan[r].type \in {"messages", "folder", "emptyFolder", "file"}
        /\ Plan[r].sources \in Seq(Folders) /\ Plan[r].sources # <<>>
        /\ Plan[r].type # "messages" => Plan[r].sources = <<Plan[r].src>>
        /\ Plan[r].type \in {"messages", "file"} => Plan[r].target = Plan[r].dst

Targets == {Plan[r].target : r \in Requests}
Supports == {Plan[r].src : r \in Requests}

VARIABLES
    queue,    \* m_copyRequests
    done,     \* the sources of each request with m_processed set
    copying,  \* mCopyState of each target: a request and one of its sources
    stack,    \* the calls of the service that have not returned
    heard     \* what the listener of each request has been told last

vars == <<queue, done, copying, stack, heard>>

\* TypeOK: a request is in the queue, once, from the call that makes it to the
\* OnStopCopy that answers it (m_copyRequests), and a folder copies for a source
\* of a request.
TypeOK ==
    /\ queue \in Seq(Requests) /\ IsInjective(queue)
    /\ \A r \in Requests : heard[r] = "queued" <=> r \in ToSet(queue)
    /\ \A r \in Requests : done[r] \subseteq DOMAIN Plan[r].sources
    /\ \A t \in Targets : copying[t] # None =>
            /\ copying[t].req \in Requests
            /\ copying[t].source \in DOMAIN Plan[copying[t].req].sources
    /\ heard \in [Requests -> {"nothing", "queued", "ok", "failed"}]
    /\ \A k \in DOMAIN stack : stack[k].call \in {"next", "notify", "listener"}

Init ==
    /\ queue = <<>>
    /\ done = [r \in Requests |-> {}]
    /\ copying = [t \in Targets |-> None]
    /\ stack = <<>>
    /\ heard = [r \in Requests |-> "nothing"]

-----------------------------------------------------------------------------
(* Making a request *)

\* nsCopyFoldersType.
IsFolder(r) == Plan[r].type \in {"folder", "emptyFolder"}

SamePair(r, s) == Plan[r].src = Plan[s].src /\ Plan[r].target = Plan[s].target

Call(name) == [call |-> name]
Innermost == IF stack = <<>> THEN "none" ELSE Head(stack).call

\* The sources that lie in the destination have nothing to copy: AddNewCopySource.
InPlace(r) == {j \in DOMAIN Plan[r].sources : Plan[r].sources[j] = Plan[r].dst}

\* Variant: a request waits for every other.
MustWaitForAll(r) == queue # <<>>

\* QueueRequest: whether the request has to wait for an earlier one.
MustWait(r) ==
    \E s \in ToSet(queue) :
        IF IsFolder(r) THEN IsFolder(s) /\ Plan[s].target = Plan[r].target
        ELSE Plan[s].dst = Plan[r].dst

\* CopyMessages, CopyFolders and CopyFileMessage, with DoCopy.
Request(r) ==
    /\ heard[r] = "nothing"
    /\ Innermost = "none" \/ (Innermost = "listener" /\ "chaining" \in Disturbances)
    /\ "twins" \in Disturbances \/ \A s \in ToSet(queue) : ~SamePair(r, s)
    /\ heard' = [heard EXCEPT ![r] = "queued"]
    /\ queue' = Append(queue, r)
    /\ done' = [done EXCEPT ![r] = InPlace(r)]
    /\ stack' = IF MustWait(r) THEN stack ELSE <<Call("next")>> \o stack
    /\ UNCHANGED copying

-----------------------------------------------------------------------------
(* Starting a copy *)

\* m_processed: every source of the request has been started.
Processed(r) == done[r] = DOMAIN Plan[r].sources

\* Variant: the active targets are not kept.
StartableAnywhere == {k \in DOMAIN queue : done[queue[k]] # DOMAIN Plan[queue[k]].sources}

\* The requests DoNextCopy may start: some source waits and no request ahead is
\* copying to the same destination.
Startable ==
    {k \in DOMAIN queue :
        /\ ~Processed(queue[k])
        /\ \A j \in 1 .. k - 1 :
               Plan[queue[j]].dst = Plan[queue[k]].dst => ~Processed(queue[j])}

First(k, S) == k \in S /\ \A j \in S : k <= j

\* What the folder reports as aSupport: the source, but CopyFolderAcrossServer reports
\* the new folder when there are no messages to copy into it.
Support(r, j) ==
    CASE Plan[r].type = "messages" -> Plan[r].sources[j]
      [] Plan[r].type = "emptyFolder" -> Plan[r].target
      [] OTHER -> Plan[r].src

\* A call of NotifyCompletion; left: the requests it is about (numOrigRequests).
Notify(r, j, ok) ==
    [call |-> "notify", support |-> Support(r, j), target |-> Plan[r].target,
     ok |-> ok, left |-> Len(queue)]

\* The folder has begun to copy.
CopyRuns(r, j) ==
    /\ Plan[r].type # "emptyFolder"
    /\ copying[Plan[r].target] = None
    /\ copying' = [copying EXCEPT ![Plan[r].target] = [req |-> r, source |-> j]]
    /\ stack' = Tail(stack)
    /\ UNCHANGED <<queue, heard>>

\* Nothing is copied, and OnCopyCompleted is not called: CopyMessages returns the error
\* of the message store or of the sorting, CopyFolderAcrossServer ignores that of
\* CopyMessages.
CopySilent(r) ==
    /\ "silence" \in Disturbances /\ Plan[r].type # "file"
    /\ stack' = Tail(stack)
    /\ UNCHANGED <<queue, copying, heard>>

\* The copy is over at once, or cannot start; OnCopyCompleted forgets the copy the
\* folder is busy with, whosever it is.
CopyAtOnce(r, j, ok) ==
    /\ IF ok THEN copying[Plan[r].target] = None
       ELSE /\ Plan[r].type # "emptyFolder"
            /\ copying[Plan[r].target] # None \/ "failures" \in Disturbances
    /\ copying' = [copying EXCEPT ![Plan[r].target] = None]
    /\ stack' = <<Notify(r, j, ok)>> \o Tail(stack)
    /\ UNCHANGED <<queue, heard>>

\* Variant: the first request leaves the queue, whichever is cleared.
ClearFirstRequest(k, ok, frames) ==
    /\ queue' = Tail(queue)
    /\ heard' = [heard EXCEPT ![queue[k]] = IF ok THEN "ok" ELSE "failed"]
    /\ stack' = <<Call("listener")>> \o frames

\* ClearRequest; the listener's OnStopCopy is called.
ClearRequest(k, ok, frames) ==
    /\ queue' = RemoveAt(queue, k)
    /\ heard' = [heard EXCEPT ![queue[k]] = IF ok THEN "ok" ELSE "failed"]
    /\ stack' = <<Call("listener")>> \o frames

\* CopyFolder returns an error and sends no notification.
CopyRefused(k) ==
    /\ "refusals" \in Disturbances /\ IsFolder(queue[k])
    /\ ClearRequest(k, FALSE, Tail(stack))
    /\ UNCHANGED copying

\* DoNextCopy: the next source of the first request that can start.
DoNextCopy ==
    /\ Innermost = "next"
    /\ \/ /\ Startable = {}
          /\ stack' = Tail(stack)
          /\ UNCHANGED <<queue, done, copying, heard>>
       \/ \E k \in Startable : \E j \in DOMAIN Plan[queue[k]].sources :
            /\ First(k, Startable)
            /\ First(j, DOMAIN Plan[queue[k]].sources \ done[queue[k]])
            /\ done' = [done EXCEPT ![queue[k]] = @ \cup {j}]
            /\ \/ CopyRuns(queue[k], j)
               \/ \E ok \in BOOLEAN : CopyAtOnce(queue[k], j, ok)
               \/ CopyRefused(k)
               \/ CopySilent(queue[k])

-----------------------------------------------------------------------------
(* The end of a copy *)

\* A target has copied what it was asked to, or has given up.
CopyEnds(t, ok) ==
    /\ stack = <<>> /\ copying[t] # None
    /\ ok \/ "failures" \in Disturbances
    /\ copying' = [copying EXCEPT ![t] = None]
    /\ stack' = <<Notify(copying[t].req, copying[t].source, ok)>>
    /\ UNCHANGED <<queue, done, heard>>

\* Variant: the source is not compared.
MatchingTarget(frame) == {k \in DOMAIN queue : Plan[queue[k]].target = frame.target}

\* FindRequest.
Matching(frame) ==
    {k \in DOMAIN queue : /\ Plan[queue[k]].src = frame.support
                          /\ Plan[queue[k]].target = frame.target}

\* What NotifyCompletion clears: the first request that matches, unless it was made
\* since the call, when it is over (a file has no source to wait for) or has failed.
Clears(frame, k) ==
    /\ First(k, Matching(frame))
    /\ k <= frame.left
    /\ Processed(queue[k]) \/ Plan[queue[k]].type = "file" \/ ~frame.ok

\* Variant: the end of a copy does not start the next.
NotifyWithoutNext ==
    /\ Innermost = "notify"
    /\ LET frame == Head(stack) IN
       \/ \E k \in DOMAIN queue :
            /\ Clears(frame, k)
            /\ ClearRequest(k, frame.ok, <<[frame EXCEPT !.left = @ - 1]>> \o Tail(stack))
       \/ /\ \A k \in DOMAIN queue : ~Clears(frame, k)
          /\ stack' = Tail(stack)
          /\ UNCHANGED <<queue, heard>>
    /\ UNCHANGED <<done, copying>>

\* NotifyCompletion, once round its loop.
NotifyCompletion ==
    /\ Innermost = "notify"
    /\ LET frame == Head(stack) IN
       \/ \E k \in DOMAIN queue :
            /\ Clears(frame, k)
            /\ ClearRequest(k, frame.ok, <<[frame EXCEPT !.left = @ - 1]>> \o Tail(stack))
       \/ /\ \A k \in DOMAIN queue : ~Clears(frame, k)
          /\ stack' = <<Call("next")>> \o Tail(stack)
          /\ UNCHANGED <<queue, heard>>
    /\ UNCHANGED <<done, copying>>

\* OnStopCopy returns.
ListenerReturns ==
    /\ Innermost = "listener"
    /\ stack' = Tail(stack)
    /\ UNCHANGED <<queue, done, copying, heard>>

-----------------------------------------------------------------------------

Next ==
    \/ \E r \in Requests : Request(r)
    \/ \E t \in Targets, ok \in BOOLEAN : CopyEnds(t, ok)
    \/ DoNextCopy
    \/ NotifyCompletion
    \/ ListenerReturns

\* Every copy ends, and every call of the service returns.
Fairness ==
    /\ \A t \in Targets : WF_vars(\E ok \in BOOLEAN : CopyEnds(t, ok))
    /\ WF_vars(DoNextCopy) /\ WF_vars(NotifyCompletion) /\ WF_vars(ListenerReturns)

Spec == Init /\ [][Next]_vars /\ Fairness

-----------------------------------------------------------------------------
(* What it promises *)

\* OneCopyPerTarget: only the end of a copy frees the folder that is busy with it;
\* no copy is started in a folder that copies, where InitCopyState would fail and
\* OnCopyCompleted would forget the copy under way.
OneCopyPerTarget ==
    [][\A t \in Targets : copying[t] # None /\ copying'[t] # copying[t] => stack = <<>>]_vars

\* NobodyWaits: once all calls have returned no request waits for a folder that is
\* free: every end of a copy has started the next.
NobodyWaits == stack = <<>> => Startable = {}

\* NotAnsweredEarly: OnStopCopy is not called, and the request not deleted, while a
\* folder still copies for it.
NotAnsweredEarly == \A t \in Targets : copying[t] # None => copying[t].req \in ToSet(queue)

\* Answered: the queue does not keep a request for ever: every listener hears of the
\* end of its copy.
Answered == []<>(queue = <<>>)

\* Ordinary: the requests the queue is made for.  No two name the same source and
\* destination, and each has the messages of one folder to copy, the one it is
\* made for, which is reported at the end: no folder without messages of another server.
Ordinary ==
    /\ \A r, s \in Requests : SamePair(r, s) => r = s
    /\ \A r, s \in Requests : Plan[r].target = Plan[s].target => Plan[r].dst = Plan[s].dst
    /\ \A r \in Requests : \E j \in DOMAIN Plan[r].sources :
            InPlace(r) = DOMAIN Plan[r].sources \ {j} /\ Support(r, j) = Plan[r].src
=============================================================================
