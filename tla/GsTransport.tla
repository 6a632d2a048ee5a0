---------------------------- MODULE GsTransport ----------------------------
(***************************************************************************)
(* The graphsync transport of go-data-transfer                             *)
(* (transport/graphsync/graphsync.go), seen from one node: the Transport  *)
(* struct's maps, the channel locker, OpenChannel with its cancel-and-     *)
(* reopen restart, the goroutine that drains a graphsync request, the      *)
(* graphsync hooks that fire for the requests this node makes, and the     *)
(* facade calls (Pause/Resume/Close/Cleanup/UseStore/SetEventHandler/      *)
(* Shutdown).                                                              *)
(*                                                                         *)
(* Graphsync itself is the environment: it turns a Request into a request  *)
(* that fires the outgoing-request hook (at any time before it ends, or    *)
(* never), delivers blocks and responses, and ends with a last error.      *)
(* The session layer is the environment too: its callbacks return ok,      *)
(* ErrPause or an error, chosen nondeterministically.                      *)
(*                                                                         *)
(* Each critical section under t.dataLock is one atomic step; a goroutine  *)
(* of the session (a Caller) keeps a program counter between them.         *)
(***************************************************************************)
EXTENDS Naturals, FiniteSets, Functions, TLC

CONSTANTS
    Chans,        \* channel IDs for which this node opens the graphsync request
    Callers,      \* session goroutines calling into the transport
    Local,        \* t.peerID
    Remote,       \* the peer a request is sent to (OpenChannel's dataSender)
    NoCaller,     \* the channel lock of a channel is free
    MaxRequests,  \* bound: graphsync requests (request contexts) created
    SessionCalls, \* the transport calls the session makes in a model
    GsDeliveries  \* what graphsync delivers on a request in a model

ASSUME /\ Chans # {} /\ Callers # {}
       /\ NoCaller \notin Callers /\ Local # Remote
       /\ MaxRequests \in Nat \ {0}
       /\ SessionCalls \subseteq {"open", "pause", "resume", "close",
                                  "cleanup", "useStore", "shutdown"}
       /\ GsDeliveries \subseteq {"block", "response"}

Req == 1..MaxRequests

\* graphsyncKey{requestID, p} of a request this node made: p is t.peerID
Key(r) == <<r, Local>>
Keys == {Key(r) : r \in Req}

\* the last error graphsync leaves on a request's error channel
\* ("other" is nil or any error but the two cancellation errors: the
\* executor treats them alike)
GsErrors == {"ctxCancelled", "cancelled", "other"}

\* what the executor reports to the session for a request
Outcomes == {"running", "timedOut", "silent", "completed"}

Live == {"sent", "open"}

VARIABLES
    events,               \* t.events # nil
    hooksOn,              \* the graphsync hooks are registered
    graphsyncRequestMap,  \* graphsyncKey -> channel ID
    channelIDMap,         \* channel ID -> graphsyncKey
    contextCancelMap,     \* channel ID -> request whose cancelRequest it holds
    pending,              \* channel ID -> pending latch (named by its request)
    stores,               \* channels with a registered persistence option
    chanLock,             \* t.chanLocker: channel ID -> holder
    nextReq,              \* request contexts created so far
    reqChan,              \* request -> channel it was opened for
    reqState,             \* request -> "unused" | "sent" | "open" | "done"
    reqErr,               \* request -> lastError graphsync left on errChan
    reqCancelled,         \* requests whose internal context is cancelled
    reqPaused,            \* requests graphsync holds paused
    completed,            \* requests whose cancelRequest.completed is closed
    closedLatch,          \* pending latches that have been closed
    outcome,              \* request -> what executeGsRequest told the session
    th                    \* caller -> its program counter and locals

vars == <<events, hooksOn, graphsyncRequestMap, channelIDMap,
          contextCancelMap, pending, stores, chanLock, nextReq, reqChan,
          reqState, reqErr, reqCancelled, reqPaused, completed,
          closedLatch, outcome, th>>

regVars == <<graphsyncRequestMap, channelIDMap, contextCancelMap, pending,
             stores>>
reqVars == <<nextReq, reqChan, reqState, reqErr, reqCancelled, reqPaused,
             completed, outcome>>

-----------------------------------------------------------------------------
(* Partial functions                                                       *)

Put(f, k, v) == (k :> v) @@ f
Drop(f, k) == Restrict(f, DOMAIN f \ {k})

PCs == {"idle", "oc_lock", "oc_wait", "oc_relock", "oc_request",
        "key", "await", "pause", "resume", "close"}

\* the facade calls a caller can be in
Ops == {"none", "open", "pause", "resume", "close"}

IdleThread == [pc |-> "idle", op |-> "none", ch |-> CHOOSE c \in Chans : TRUE,
               req |-> 0, old |-> 0, latch |-> 0, key |-> Key(0)]

Return(t) == th' = [th EXCEPT ![t] = IdleThread]
Goto(t, pc) == th' = [th EXCEPT ![t].pc = pc]

TypeOK ==
    /\ events \in BOOLEAN /\ hooksOn \in BOOLEAN
    /\ \E D \in SUBSET Keys : graphsyncRequestMap \in [D -> Chans]
    /\ \E D \in SUBSET Chans : channelIDMap \in [D -> Keys]
    /\ \E D \in SUBSET Chans : contextCancelMap \in [D -> Req]
    /\ \E D \in SUBSET Chans : pending \in [D -> Req]
    /\ stores \subseteq Chans
    /\ chanLock \in [Chans -> Callers \cup {NoCaller}]
    /\ nextReq \in 0..MaxRequests
    /\ reqChan \in [1..nextReq -> Chans]
    /\ reqState \in [Req -> {"unused", "sent", "open", "done"}]
    /\ reqErr \in [Req -> GsErrors]
    /\ reqCancelled \subseteq 1..nextReq
    /\ reqPaused \subseteq Req
    /\ completed \subseteq Req /\ closedLatch \subseteq Req
    /\ outcome \in [Req -> Outcomes]
    /\ th \in [Callers -> [pc : PCs, op : Ops, ch : Chans, req : 0..MaxRequests,
                          old : 0..MaxRequests, latch : 0..MaxRequests,
                          key : {Key(r) : r \in 0..MaxRequests}]]

Init ==
    /\ events = FALSE /\ hooksOn = FALSE
    /\ graphsyncRequestMap = <<>> /\ channelIDMap = <<>>
    /\ contextCancelMap = <<>> /\ pending = <<>>
    /\ stores = {}
    /\ chanLock = [c \in Chans |-> NoCaller]
    /\ nextReq = 0 /\ reqChan = <<>>
    /\ reqState = [r \in Req |-> "unused"]
    /\ reqErr = [r \in Req |-> "other"]
    /\ reqCancelled = {} /\ reqPaused = {}
    /\ completed = {} /\ closedLatch = {}
    /\ outcome = [r \in Req |-> "running"]
    /\ th = [t \in Callers |-> IdleThread]

-----------------------------------------------------------------------------
(* Transport setup and teardown                                            *)

\* SetEventHandler: fails with ErrHandlerAlreadySet once set; otherwise
\* installs the handler and registers the eleven hooks.
SetEventHandler ==
    /\ ~events
    /\ events' = TRUE /\ hooksOn' = TRUE
    /\ UNCHANGED <<regVars, chanLock, reqVars, closedLatch, th>>

\* Shutdown: unregisters every hook, then cancels every request context in
\* contextCancelMap. It does not wait for the executors.
Shutdown ==
    /\ hooksOn' = FALSE
    /\ reqCancelled' = reqCancelled \cup Range(contextCancelMap)
    /\ UNCHANGED <<events, regVars, chanLock, nextReq, reqChan, reqState,
                   reqErr, reqPaused, completed, outcome,
                   closedLatch, th>>

\* UseStore: registers the persistence option "data-transfer-<chid>" once
\* per channel. A failed registration returns the error and changes nothing.
UseStore(c) ==
    /\ c \notin stores
    /\ stores' = stores \cup {c}
    /\ UNCHANGED <<events, hooksOn, graphsyncRequestMap, channelIDMap,
                   contextCancelMap, pending, chanLock, reqVars,
                   closedLatch, th>>

-----------------------------------------------------------------------------
(* OpenChannel                                                             *)

\* The call: t.events must be set; the request context it will create is
\* named by the next request number.
OpenChannel(t, c) ==
    /\ th[t].pc = "idle"
    /\ events
    /\ nextReq < MaxRequests
    /\ nextReq' = nextReq + 1
    /\ reqChan' = reqChan @@ (nextReq + 1 :> c)
    /\ th' = [th EXCEPT ![t] = [IdleThread EXCEPT !.pc = "oc_lock", !.op = "open",
                                         !.ch = c, !.req = nextReq + 1]]
    /\ UNCHANGED <<events, hooksOn, regVars, chanLock, reqState, reqErr,
                   reqCancelled, reqPaused, completed, outcome,
                   closedLatch>>

\* Mutant: the new cancelRequest is made but not stored in contextCancelMap.
MutRegisterNoCancelRQ(c, r) ==
    /\ pending' = Put(pending, c, r)
    /\ contextCancelMap' = contextCancelMap

\* Lines 159-168: a new pending latch and cancelRequest for request r.
RegisterPending(c, r) ==
    /\ pending' = Put(pending, c, r)
    /\ contextCancelMap' = Put(contextCancelMap, c, r)

\* Mutant: OpenChannel without the per-channel lock (chanLocker.lock).
MutOpenNoChanLock(t) ==
    LET c == th[t].ch IN
    /\ th[t].pc = "oc_lock"
    /\ chanLock' = [chanLock EXCEPT ![c] = t]
    /\ IF c \in DOMAIN contextCancelMap
       THEN /\ reqCancelled' = reqCancelled \cup {contextCancelMap[c]}
            /\ th' = [th EXCEPT ![t].pc = "oc_wait",
                                ![t].old = contextCancelMap[c]]
            /\ UNCHANGED <<pending, contextCancelMap>>
       ELSE /\ RegisterPending(c, th[t].req)
            /\ Goto(t, "oc_request")
            /\ UNCHANGED reqCancelled
    /\ UNCHANGED <<events, hooksOn, graphsyncRequestMap, channelIDMap,
                   stores, nextReq, reqChan, reqState, reqErr, reqPaused,
                   completed, outcome, closedLatch>>

\* Mutant: a restart that waits for the old request without cancelling it.
MutRestartNoCancel(t) ==
    LET c == th[t].ch IN
    /\ th[t].pc = "oc_lock"
    /\ chanLock[c] = NoCaller
    /\ chanLock' = [chanLock EXCEPT ![c] = t]
    /\ IF c \in DOMAIN contextCancelMap
       THEN /\ th' = [th EXCEPT ![t].pc = "oc_wait",
                                ![t].old = contextCancelMap[c]]
            /\ UNCHANGED <<pending, contextCancelMap, reqCancelled>>
       ELSE /\ RegisterPending(c, th[t].req)
            /\ Goto(t, "oc_request")
            /\ UNCHANGED reqCancelled
    /\ UNCHANGED <<events, hooksOn, graphsyncRequestMap, channelIDMap,
                   stores, nextReq, reqChan, reqState, reqErr, reqPaused,
                   completed, outcome, closedLatch>>

\* Take the channel lock, then under dataLock: if a cancelRequest exists for
\* the channel, cancel it and go wait for its completion; otherwise register
\* the pending latch and cancelRequest of the new request.
OpenChannelLock(t) ==
    LET c == th[t].ch IN
    /\ th[t].pc = "oc_lock"
    /\ chanLock[c] = NoCaller
    /\ chanLock' = [chanLock EXCEPT ![c] = t]
    /\ IF c \in DOMAIN contextCancelMap
       THEN /\ reqCancelled' = reqCancelled \cup {contextCancelMap[c]}
            /\ th' = [th EXCEPT ![t].pc = "oc_wait",
                                ![t].old = contextCancelMap[c]]
            /\ UNCHANGED <<pending, contextCancelMap>>
       ELSE /\ RegisterPending(c, th[t].req)
            /\ Goto(t, "oc_request")
            /\ UNCHANGED reqCancelled
    /\ UNCHANGED <<events, hooksOn, graphsyncRequestMap, channelIDMap,
                   stores, nextReq, reqChan, reqState, reqErr, reqPaused,
                   completed, outcome, closedLatch>>

\* waitForCancelComplete: the completed latch closed (then the minimum
\* backoff elapses) ...
OpenChannelWaitCompleted(t) ==
    /\ th[t].pc = "oc_wait"
    /\ th[t].old \in completed
    /\ Goto(t, "oc_relock")
    /\ UNCHANGED <<events, hooksOn, regVars, chanLock, reqVars, closedLatch>>

\* Mutant: waitForCancelComplete without the maxGSCancelWait case.
MutWaitNoFailSafe(t) == FALSE

\* ... or maxGSCancelWait elapsed first: give up waiting.
OpenChannelWaitFailSafe(t) ==
    /\ th[t].pc = "oc_wait"
    /\ th[t].old \notin completed
    /\ Goto(t, "oc_relock")
    /\ UNCHANGED <<events, hooksOn, regVars, chanLock, reqVars, closedLatch>>

\* ... or the caller's context ended during either wait: return ctx.Err(),
\* the deferred unlock releases the channel lock.
OpenChannelCtxDone(t) ==
    /\ th[t].pc = "oc_wait"
    /\ chanLock' = [chanLock EXCEPT ![th[t].ch] = NoCaller]
    /\ Return(t)
    /\ UNCHANGED <<events, hooksOn, regVars, reqVars, closedLatch>>

\* Relock dataLock after the cancel and register the new request.
OpenChannelRelock(t) ==
    /\ th[t].pc = "oc_relock"
    /\ RegisterPending(th[t].ch, th[t].req)
    /\ Goto(t, "oc_request")
    /\ UNCHANGED <<events, hooksOn, graphsyncRequestMap, channelIDMap,
                   stores, chanLock, reqVars, closedLatch>>

\* gs.Request with the extensions, start executeGsRequest, return; the
\* deferred unlock releases the channel lock.
OpenChannelRequest(t) ==
    /\ th[t].pc = "oc_request"
    /\ reqState' = [reqState EXCEPT ![th[t].req] = "sent"]
    /\ chanLock' = [chanLock EXCEPT ![th[t].ch] = NoCaller]
    /\ Return(t)
    /\ UNCHANGED <<events, hooksOn, regVars, nextReq, reqChan, reqErr,
                   reqCancelled, reqPaused, completed, outcome,
                   closedLatch>>

\* A restart with doNotSendCids whose cid set fails to encode returns the
\* error after the pending latch and cancelRequest are registered: no
\* request is made and no executor will close the completed latch.
OpenChannelEncodeFails(t) ==
    /\ th[t].pc = "oc_request"
    /\ chanLock' = [chanLock EXCEPT ![th[t].ch] = NoCaller]
    /\ Return(t)
    /\ UNCHANGED <<events, hooksOn, regVars, reqVars, closedLatch>>

-----------------------------------------------------------------------------
(* Graphsync: the life of a request this node made                         *)

\* Mutant: the hook keys the request by the peer it was sent to, p,
\* instead of t.peerID.
MutHookRemoteKey(r) ==
    LET c == reqChan[r] IN
    \E opened \in BOOLEAN :
    /\ graphsyncRequestMap' = IF opened THEN Put(graphsyncRequestMap, <<r, Remote>>, c)
                                        ELSE graphsyncRequestMap
    /\ channelIDMap' = IF opened THEN Put(channelIDMap, c, <<r, Remote>>)
                                 ELSE channelIDMap
    /\ closedLatch' = IF c \in DOMAIN pending
                      THEN closedLatch \cup {pending[c]} ELSE closedLatch
    /\ pending' = Drop(pending, c)

\* gsOutgoingRequestHook: the channel ID comes from our extension; after
\* OnChannelOpened succeeds both maps record the request. The pending latch
\* of the channel, whichever request it was made for, is closed and removed.
\* A registered store makes the request use the persistence option.
GsOutgoingRequestHook(r) ==
    LET c == reqChan[r] IN
    \E opened \in BOOLEAN :   \* OnChannelOpened returned nil
    /\ graphsyncRequestMap' = IF opened THEN Put(graphsyncRequestMap, Key(r), c)
                                        ELSE graphsyncRequestMap
    /\ channelIDMap' = IF opened THEN Put(channelIDMap, c, Key(r))
                                 ELSE channelIDMap
    /\ closedLatch' = IF c \in DOMAIN pending
                      THEN closedLatch \cup {pending[c]} ELSE closedLatch
    /\ pending' = Drop(pending, c)
    \* hookActions.UsePersistenceOption for a channel in stores acts on
    \* graphsync only, which this model does not record

\* Graphsync starts sending request r; the hook runs if still registered.
OutgoingRequest(r) ==
    /\ reqState[r] = "sent"
    /\ reqState' = [reqState EXCEPT ![r] = "open"]
    /\ IF hooksOn
       THEN GsOutgoingRequestHook(r)
       ELSE UNCHANGED <<graphsyncRequestMap, channelIDMap, closedLatch,
                        pending>>
    /\ UNCHANGED <<events, hooksOn, contextCancelMap, stores, chanLock,
                   nextReq, reqChan, reqErr, reqCancelled, reqPaused,
                   completed, outcome, th>>

\* hookActions.TerminateWithError: graphsync ends the request with an error.
\* Graphsync forgets a request's pause when the request ends.
Terminate(r) ==
    /\ reqState' = [reqState EXCEPT ![r] = "done"]
    /\ reqErr' = [reqErr EXCEPT ![r] = "other"]
    /\ reqPaused' = reqPaused \ {r}

\* gsIncomingBlockHook: a block of request r arrives; the channel is looked
\* up by (request ID, t.peerID). OnDataReceived returning ErrPause pauses
\* the request, any other error terminates it (nil changes nothing here).
GsIncomingBlockHook(r) ==
    /\ reqState[r] = "open" /\ r \notin reqPaused
    /\ hooksOn
    /\ Key(r) \in DOMAIN graphsyncRequestMap
    /\ \/ /\ reqPaused' = reqPaused \cup {r}
          /\ UNCHANGED <<reqState, reqErr>>
       \/ Terminate(r)
    /\ UNCHANGED <<events, hooksOn, regVars, chanLock, nextReq, reqChan,
                   reqCancelled, completed, outcome, closedLatch,
                   th>>

\* gsIncomingResponseHook: a response of request r carries our extension;
\* processExtension rejects a request message on a channel this node did
\* not receive it on, and passes a response to OnResponseReceived. Either
\* error terminates the request.
GsIncomingResponseHook(r) ==
    /\ reqState[r] = "open"
    /\ hooksOn
    /\ Key(r) \in DOMAIN graphsyncRequestMap
    /\ Terminate(r)
    /\ UNCHANGED <<events, hooksOn, regVars, chanLock, nextReq, reqChan,
                   reqCancelled, completed, outcome,
                   closedLatch, th>>

\* The request ends: responseChan and errChan close, errChan's last value is
\* the request's last error. A request whose context was cancelled ends with
\* RequestContextCancelledErr, RequestCancelledErr or no error at all (the
\* TODO at graphsync.go:260).
FinishErrors(r) ==
    IF r \in reqCancelled THEN GsErrors ELSE GsErrors \ {"ctxCancelled"}

RequestEnds(r) ==
    /\ reqState[r] \in Live
    /\ reqState' = [reqState EXCEPT ![r] = "done"]
    /\ \E e \in FinishErrors(r) : reqErr' = [reqErr EXCEPT ![r] = e]
    /\ reqPaused' = reqPaused \ {r}
    /\ UNCHANGED <<events, hooksOn, regVars, chanLock, nextReq, reqChan,
                   reqCancelled, completed, outcome,
                   closedLatch, th>>

\* executeGsRequest, after consumeResponses has drained both channels.
Classify(r) ==
    CASE reqErr[r] = "ctxCancelled" -> "timedOut"   \* OnRequestTimedOut
      [] reqErr[r] = "cancelled"    -> "silent"
      [] r \in reqCancelled         -> "silent"     \* internalCtx.Err() # nil
      [] OTHER                      -> "completed"  \* OnChannelCompleted

ExecuteGsRequest(r) ==
    /\ reqState[r] = "done"
    /\ r \notin completed
    /\ outcome' = [outcome EXCEPT ![r] = Classify(r)]
    /\ completed' = completed \cup {r}    \* deferred onComplete
    /\ reqErr' = [reqErr EXCEPT ![r] = "other"]   \* errChan drained
    /\ UNCHANGED <<events, hooksOn, regVars, chanLock, nextReq, reqChan,
                   reqState, reqCancelled, reqPaused, closedLatch, th>>

-----------------------------------------------------------------------------
(* Pause, Resume and Close: find the graphsync key, then act on it         *)

\* The calls: t.events must be set.
CallOnKey(t, c, op) ==
    /\ th[t].pc = "idle"
    /\ events
    /\ th' = [th EXCEPT ![t] = [IdleThread EXCEPT !.pc = "key", !.op = op,
                                                  !.ch = c]]
    /\ UNCHANGED <<events, hooksOn, regVars, chanLock, reqVars, closedLatch>>

\* gsKeyFromChannelID, one turn of its loop under the read lock: the key if
\* known; else wait on the pending latch if there is one; else
\* ErrChannelNotFound.
GsKeyFromChannelID(t) ==
    LET c == th[t].ch IN
    /\ th[t].pc = "key"
    /\ CASE c \in DOMAIN channelIDMap ->
              th' = [th EXCEPT ![t].pc = th[t].op,
                               ![t].key = channelIDMap[c]]
         [] c \in DOMAIN pending ->
              th' = [th EXCEPT ![t].pc = "await", ![t].latch = pending[c]]
         [] OTHER -> Return(t)
    /\ UNCHANGED <<events, hooksOn, regVars, chanLock, reqVars, closedLatch>>

\* <-pending: the latch closed, look again.
AwaitPending(t) ==
    /\ th[t].pc = "await"
    /\ th[t].latch \in closedLatch
    /\ Goto(t, "key")
    /\ UNCHANGED <<events, hooksOn, regVars, chanLock, reqVars, closedLatch>>

\* <-ctx.Done(): ErrChannelNotFound.
AwaitCtxDone(t) ==
    /\ th[t].pc = "await"
    /\ Return(t)
    /\ UNCHANGED <<events, hooksOn, regVars, chanLock, reqVars, closedLatch>>

\* PauseChannel with a key of this node: gs.PauseRequest(requestID), which
\* fails for a request graphsync no longer runs.
PauseChannel(t) ==
    LET r == th[t].key[1] IN
    /\ th[t].pc = "pause"
    /\ reqPaused' = IF reqState[r] \in Live THEN reqPaused \cup {r}
                                            ELSE reqPaused
    /\ Return(t)
    /\ UNCHANGED <<events, hooksOn, regVars, chanLock, nextReq, reqChan,
                   reqState, reqErr, reqCancelled, completed,
                   outcome, closedLatch>>

\* ResumeChannel with a key of this node: gs.UnpauseRequest(requestID, ...).
ResumeChannel(t) ==
    LET r == th[t].key[1] IN
    /\ th[t].pc = "resume"
    /\ reqPaused' = IF reqState[r] \in Live THEN reqPaused \ {r}
                                            ELSE reqPaused
    /\ Return(t)
    /\ UNCHANGED <<events, hooksOn, regVars, chanLock, nextReq, reqChan,
                   reqState, reqErr, reqCancelled, completed,
                   outcome, closedLatch>>

\* CloseChannel with a key of this node: read the channel's cancelRequest
\* under the read lock and cancel its context (ErrChannelNotFound if none).
CloseChannel(t) ==
    LET c == th[t].ch IN
    /\ th[t].pc = "close"
    /\ reqCancelled' = IF c \in DOMAIN contextCancelMap
                       THEN reqCancelled \cup {contextCancelMap[c]}
                       ELSE reqCancelled
    /\ Return(t)
    /\ UNCHANGED <<events, hooksOn, regVars, chanLock, nextReq, reqChan,
                   reqState, reqErr, reqPaused, completed,
                   outcome, closedLatch>>

-----------------------------------------------------------------------------
(* CleanupChannel                                                          *)

\* Mutant: cleanupChannel that forgets to delete the channelIDMap entry.
MutCleanupKeepsChannelID(c, k) ==
    /\ channelIDMap' = channelIDMap
    /\ contextCancelMap' = Drop(contextCancelMap, c)
    /\ pending' = Drop(pending, c)
    /\ graphsyncRequestMap' = Drop(graphsyncRequestMap, k)
    /\ stores' = stores \ {c}

\* cleanupChannel: forget the channel in every map; the graphsync key
\* removed is the one channelIDMap holds. A registered store is
\* unregistered from graphsync.
cleanupChannel(c, k) ==
    /\ channelIDMap' = Drop(channelIDMap, c)
    /\ contextCancelMap' = Drop(contextCancelMap, c)
    /\ pending' = Drop(pending, c)
    /\ graphsyncRequestMap' = Drop(graphsyncRequestMap, k)
    /\ stores' = stores \ {c}

\* The session calls CleanupChannel "on the other side of a cancel": no
\* request of the channel is still running with a live context, and no
\* OpenChannel of the channel is in progress.
CleanupAllowed(c) ==
    /\ \A r \in DOMAIN reqChan :
          reqChan[r] = c /\ reqState[r] \in Live => r \in reqCancelled
    /\ \A t \in Callers : th[t].op = "open" => th[t].ch # c

CleanupChannel(c) ==
    /\ CleanupAllowed(c)
    /\ c \in DOMAIN channelIDMap     \* otherwise nothing to do
    /\ cleanupChannel(c, channelIDMap[c])
    /\ UNCHANGED <<events, hooksOn, chanLock, reqVars, closedLatch, th>>

-----------------------------------------------------------------------------
(* The specification                                                       *)

CallerNext(t) ==
    \/ \E c \in Chans :
          \/ "open" \in SessionCalls /\ OpenChannel(t, c)
          \/ \E op \in {"pause", "resume", "close"} \cap SessionCalls :
                CallOnKey(t, c, op)
    \/ OpenChannelLock(t)
    \/ OpenChannelWaitCompleted(t) \/ OpenChannelWaitFailSafe(t)
    \/ OpenChannelCtxDone(t)
    \/ OpenChannelRelock(t)
    \/ OpenChannelRequest(t) \/ OpenChannelEncodeFails(t)
    \/ GsKeyFromChannelID(t) \/ AwaitPending(t) \/ AwaitCtxDone(t)
    \/ PauseChannel(t) \/ ResumeChannel(t) \/ CloseChannel(t)

GraphsyncNext(r) ==
    \/ OutgoingRequest(r)
    \/ "block" \in GsDeliveries /\ GsIncomingBlockHook(r)
    \/ "response" \in GsDeliveries /\ GsIncomingResponseHook(r)
    \/ RequestEnds(r)
    \/ ExecuteGsRequest(r)

Next ==
    \/ \E t \in Callers : CallerNext(t)
    \/ \E r \in Req : GraphsyncNext(r)
    \/ \E c \in Chans :
          \/ "useStore" \in SessionCalls /\ UseStore(c)
          \/ "cleanup" \in SessionCalls /\ CleanupChannel(c)
    \/ SetEventHandler
    \/ "shutdown" \in SessionCalls /\ Shutdown

\* A caller goroutine that can run its next statement eventually does; the
\* fail-safe timer of waitForCancelComplete eventually fires; a goroutine
\* blocked on the channel lock eventually gets it (sync.Mutex's starvation
\* mode); a request's executor goroutine runs once graphsync closes its
\* channels. Graphsync and the session's decisions get no fairness; neither
\* do the ctx.Done() branches.
CallerProgress(t) ==
    \/ OpenChannelWaitCompleted(t) \/ OpenChannelWaitFailSafe(t)
    \/ OpenChannelRelock(t) \/ OpenChannelRequest(t)
    \/ GsKeyFromChannelID(t) \/ AwaitPending(t)
    \/ PauseChannel(t) \/ ResumeChannel(t) \/ CloseChannel(t)

Fairness ==
    /\ \A t \in Callers : WF_vars(CallerProgress(t))
    /\ \A t \in Callers : SF_vars(OpenChannelLock(t))
    /\ \A r \in Req : WF_vars(ExecuteGsRequest(r))

Spec == Init /\ [][Next]_vars
FairSpec == Spec /\ Fairness

-----------------------------------------------------------------------------
(* Properties                                                              *)

\* The graphsync requests of a channel whose context nobody has cancelled
\* and that graphsync still runs.
ActiveRequests(c) ==
    {r \in DOMAIN reqChan : /\ reqChan[r] = c
                            /\ reqState[r] \in Live
                            /\ r \notin reqCancelled}

\* Restart atomicity (OpenChannel): however OpenChannel calls, restarts,
\* closes, cleanups and caller timeouts interleave, every graphsync request
\* still running with a live context is the one contextCancelMap holds for
\* its channel -- so a channel never has two running requests, and
\* CloseChannel and Shutdown can always cancel what runs. The per-channel
\* lock and the cancel-before-reopen of OpenChannel must keep it so.
RunningRequestCancellable ==
    \A c \in Chans : \A r \in ActiveRequests(c) :
        c \in DOMAIN contextCancelMap /\ contextCancelMap[c] = r

\* The key that gsKeyFromChannelID hands to Pause/Resume/CloseChannel maps
\* back to the same channel in graphsyncRequestMap, through restarts, hook
\* rejections and cleanups (the hooks and CleanupChannel update the maps).
KeyMapsAgree ==
    \A c \in DOMAIN channelIDMap :
        /\ channelIDMap[c] \in DOMAIN graphsyncRequestMap
        /\ graphsyncRequestMap[channelIDMap[c]] = c

\* Spec section 3, invariant 1: the two maps are mutual inverses -- every
\* graphsync key the hooks resolve belongs to the channel's current key.
MapsInverse ==
    /\ KeyMapsAgree
    /\ \A k \in DOMAIN graphsyncRequestMap :
          /\ graphsyncRequestMap[k] \in DOMAIN channelIDMap
          /\ channelIDMap[graphsyncRequestMap[k]] = k

\* Spec section 3, invariant 2 (the direction gsKeyFromChannelID relies
\* on): while a channel has a pending latch its graphsync key is not yet
\* known, so Pause/Resume/CloseChannel wait for the new request instead of
\* acting on an old one.
PendingMeansNoKey ==
    \A c \in DOMAIN pending : c \notin DOMAIN channelIDMap

\* Spec section 3: the registry invariants hold in every state, across the
\* restarts OpenChannel performs and the outgoing-request hooks that follow.
RegistryInvariants == MapsInverse /\ PendingMeansNoKey

\* The refinement mapping: the requests GsTransport opens, as the abstract
\* ChannelRequests sees them. contextCancelMap is the channel's handle.
Requests == INSTANCE ChannelRequests WITH
    Reqs      <- Req,
    chanOf    <- reqChan,
    handle    <- contextCancelMap,
    started   <- {r \in Req : reqState[r] # "unused"},
    ended     <- {r \in Req : reqState[r] = "done"},
    cancelled <- reqCancelled

\* OpenChannel, its restart, CloseChannel, Shutdown, CleanupChannel and the
\* executor together implement ChannelRequests: no request is handed to
\* graphsync unless it is the one its channel's cancelRequest cancels, and
\* no cancelRequest is replaced or forgotten while a request of the channel
\* runs uncancelled.
ImplementsChannelRequests == Requests!Spec

OpenPCs == {"oc_lock", "oc_wait", "oc_relock", "oc_request"}

\* Every OpenChannel call returns, also a restart whose old graphsync
\* request never finishes: waitForCancelComplete's maxGSCancelWait
\* fail-safe bounds the wait while the channel lock is held.
OpenChannelReturns ==
    \A t \in Callers : th[t].pc \in OpenPCs ~> th[t].pc = "idle"

\* Spec section 3: a pending latch is "absent once closed-and-removed" --
\* no step removes or replaces a channel's pending latch without closing
\* it, so a Pause/Resume/CloseChannel waiting on it in gsKeyFromChannelID
\* is woken up instead of waiting until its own context ends.
PendingClosedWhenRemoved ==
    [][\A c \in DOMAIN pending :
          (c \notin DOMAIN pending' \/ pending'[c] # pending[c])
              => pending[c] \in closedLatch']_vars

=============================================================================
