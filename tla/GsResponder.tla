---------------------------- MODULE GsResponder ----------------------------
(***************************************************************************)
(* The graphsync transport of go-data-transfer (transport/graphsync/       *)
(* graphsync.go) on the side that answers graphsync requests: the remote   *)
(* peer is the graphsync requestor and this node streams the response.     *)
(* A channel's graphsync key is (request ID, remote peer).                 *)
(*                                                                         *)
(* Graphsync is the environment: a request for a channel arrives at any    *)
(* time -- the first one, or a restart of the channel whose older          *)
(* response may still be running because the requestor's cancel was lost  *)
(* -- and a response is cancelled by the requestor, ends, or has blocks    *)
(* and updates to report. The session's callbacks return ok, ErrPause or   *)
(* an error, chosen nondeterministically. sessPaused is the session's own  *)
(* view: whether it has paused the channel (ErrPause from a callback, a    *)
(* PauseChannel) and not resumed it since.                                 *)
(*                                                                         *)
(* The event handler is set and the hooks are registered throughout (the   *)
(* requestor model, GsTransport, covers SetEventHandler and Shutdown).     *)
(* Each critical section under t.dataLock is one atomic step.              *)
(***************************************************************************)
EXTENDS Naturals, FiniteSets, Functions, TLC

CONSTANTS
    Chans,        \* channel IDs whose graphsync request comes from Remote
    Callers,      \* session goroutines calling Pause/Resume/CloseChannel
    Local,        \* t.peerID
    Remote,       \* the graphsync requestor
    MaxRequests,  \* bound: graphsync requests received
    MaxDeferred,  \* bound: resume messages deferred for one channel
    SessionCalls  \* the transport calls the session makes in a model

ASSUME /\ Chans # {} /\ Callers # {} /\ Local # Remote
       /\ MaxRequests \in Nat \ {0} /\ MaxDeferred \in Nat \ {0}
       /\ SessionCalls \subseteq {"pause", "resume", "close", "cleanup",
                                  "useStore"}

Req == 1..MaxRequests

\* graphsyncKey{requestID, p} of a request received from p
Key(r) == <<r, Remote>>
Keys == {Key(r) : r \in Req}

\* a response as graphsync holds it; "ending" is terminated by a hook and
\* about to be completed
RespStates == {"unused", "running", "paused", "ending", "done"}

VARIABLES
    graphsyncRequestMap,    \* graphsyncKey -> channel ID
    channelIDMap,           \* channel ID -> graphsyncKey
    requestorCancelledMap,  \* channels whose requestor cancelled
    pendingExtensions,      \* channel -> number of deferred resume messages
    channelXferStarted,     \* channel -> the response was last left unpaused
    stores,                 \* channels with a registered persistence option
    nextReq,                \* graphsync requests received so far
    respChan,               \* request -> channel its extension names
    respState,              \* request -> state of graphsync's response
    sessPaused,             \* channel -> the session has it paused
    sessPausedReqs,         \* responses the session itself paused
    completedEv,            \* <<channel, request>>: OnChannelCompleted fired
    th                      \* caller -> its program counter and locals

vars == <<graphsyncRequestMap, channelIDMap, requestorCancelledMap,
          pendingExtensions, channelXferStarted, stores, nextReq, respChan,
          respState, sessPaused, sessPausedReqs, completedEv, th>>

regVars == <<graphsyncRequestMap, channelIDMap, requestorCancelledMap,
             pendingExtensions, channelXferStarted, stores>>

Put(f, k, v) == (k :> v) @@ f
Drop(f, k) == Restrict(f, DOMAIN f \ {k})

PCs == {"idle", "key", "pause", "resume", "close", "cancel"}
Ops == {"none", "pause", "resume", "close"}

IdleThread == [pc |-> "idle", op |-> "none", ch |-> CHOOSE c \in Chans : TRUE,
               key |-> Key(0)]

Return(t) == th' = [th EXCEPT ![t] = IdleThread]

TypeOK ==
    /\ \E D \in SUBSET Keys : graphsyncRequestMap \in [D -> Chans]
    /\ \E D \in SUBSET Chans : channelIDMap \in [D -> Keys]
    /\ requestorCancelledMap \subseteq Chans
    /\ \E D \in SUBSET Chans : pendingExtensions \in [D -> 1..MaxDeferred]
    /\ \E D \in SUBSET Chans : channelXferStarted \in [D -> BOOLEAN]
    /\ stores \subseteq Chans
    /\ nextReq \in 0..MaxRequests
    /\ respChan \in [1..nextReq -> Chans]
    /\ respState \in [Req -> RespStates]
    /\ sessPaused \in [Chans -> BOOLEAN]
    /\ sessPausedReqs \subseteq Req
    /\ completedEv \subseteq Chans \X Req
    /\ th \in [Callers -> [pc : PCs, op : Ops, ch : Chans,
                          key : {Key(r) : r \in 0..MaxRequests}]]

Init ==
    /\ graphsyncRequestMap = <<>> /\ channelIDMap = <<>>
    /\ requestorCancelledMap = {} /\ pendingExtensions = <<>>
    /\ channelXferStarted = <<>> /\ stores = {}
    /\ nextReq = 0 /\ respChan = <<>>
    /\ respState = [r \in Req |-> "unused"]
    /\ sessPaused = [c \in Chans |-> FALSE]
    /\ sessPausedReqs = {}
    /\ completedEv = {}
    /\ th = [t \in Callers |-> IdleThread]

\* the channel a hook finds for request r: graphsyncRequestMap[(r, p)]
Mapped(r) == Key(r) \in DOMAIN graphsyncRequestMap
ChanOf(r) == graphsyncRequestMap[Key(r)]

Live == {"running", "paused"}

-----------------------------------------------------------------------------
(* Graphsync: requests received and the life of their responses            *)

\* A requestor cancel of channel c is cleared; the extensions deferred for
\* c are sent with this response and deleted.
MutClearKeepsDeferred(c) ==
    /\ requestorCancelledMap' = requestorCancelledMap \ {c}
    /\ UNCHANGED pendingExtensions

ClearRequestorCancelled(c) ==
    /\ requestorCancelledMap' = requestorCancelledMap \ {c}
    /\ pendingExtensions' = IF c \in requestorCancelledMap
                            THEN Drop(pendingExtensions, c)
                            ELSE pendingExtensions

\* both maps record graphsync key k for channel c
MutRecordLocalKey(k, c) ==
    /\ graphsyncRequestMap' = Put(graphsyncRequestMap, <<k[1], Local>>, c)
    /\ channelIDMap' = Put(channelIDMap, c, <<k[1], Local>>)

RecordRequest(k, c) ==
    /\ graphsyncRequestMap' = Put(graphsyncRequestMap, k, c)
    /\ channelIDMap' = Put(channelIDMap, c, k)

\* gsReqRecdHook for request r whose extension names channel c, after the
\* session's OnRequestReceived returned res. An error (or a response
\* message that fails to encode) terminates the request. Otherwise, under
\* dataLock: a restart of a channel whose transfer never left the paused
\* state is paused again even if the session did not ask; the flag records
\* whether the response starts unpaused; a requestor cancel is cleared and
\* the deferred extensions are sent with this response; both maps record
\* the request. ValidateRequest then lets graphsync run the response.
GsReqRecdHook(r, c, res) ==
    \/ /\ res = "error"
       /\ respState' = [respState EXCEPT ![r] = "done"]
       /\ UNCHANGED <<regVars, sessPaused, sessPausedReqs>>
    \/ /\ res \in {"ok", "pause"}
       /\ LET paused == \/ res = "pause"
                        \/ c \in DOMAIN channelXferStarted
                           /\ ~channelXferStarted[c]
          IN /\ channelXferStarted' = Put(channelXferStarted, c, ~paused)
             /\ respState' = [respState EXCEPT ![r] =
                                 IF paused THEN "paused" ELSE "running"]
       /\ ClearRequestorCancelled(c)
       /\ RecordRequest(Key(r), c)
       /\ sessPaused' = IF res = "pause" THEN [sessPaused EXCEPT ![c] = TRUE]
                                         ELSE sessPaused
       /\ sessPausedReqs' = IF res = "pause" THEN sessPausedReqs \cup {r}
                                             ELSE sessPausedReqs
       /\ UNCHANGED stores

\* Graphsync receives request r for channel c from the requestor: a new
\* channel, or a restart, with or without the old response still running.
IncomingRequest(c) ==
    LET r == nextReq + 1 IN
    /\ nextReq < MaxRequests
    /\ nextReq' = r
    /\ respChan' = respChan @@ (r :> c)
    /\ \E res \in {"ok", "pause", "error"} : GsReqRecdHook(r, c, res)
    /\ UNCHANGED <<completedEv, th>>

\* gsRequestorCancelledListener: the requestor cancelled request r;
\* graphsync drops the response (its completed listener sees
\* RequestCancelled and returns) and the channel r maps to is flagged.
RequestorCancelled(r) ==
    /\ respState[r] \in Live
    /\ respState' = [respState EXCEPT ![r] = "done"]
    /\ requestorCancelledMap' = IF Mapped(r)
                                THEN requestorCancelledMap \cup {ChanOf(r)}
                                ELSE requestorCancelledMap
    /\ UNCHANGED <<graphsyncRequestMap, channelIDMap, pendingExtensions,
                   channelXferStarted, stores, nextReq, respChan, sessPaused,
                   sessPausedReqs,
                   completedEv, th>>

\* gsCompletedResponseListener: response r ends with a status other than
\* RequestCancelled (completed, failed, or terminated by a hook);
\* OnChannelCompleted fires for the channel r maps to.
GsCompletedResponseListener(r) ==
    completedEv' = IF Mapped(r) THEN completedEv \cup {<<ChanOf(r), r>>}
                                ELSE completedEv

ResponseEnds(r) ==
    /\ respState[r] \in Live \cup {"ending"}
    /\ respState' = [respState EXCEPT ![r] = "done"]
    /\ GsCompletedResponseListener(r)
    /\ UNCHANGED <<regVars, nextReq, respChan, sessPaused, sessPausedReqs, th>>

\* gsOutgoingBlockHook for a block of r that goes on the wire (a block the
\* do-not-send list skips fires nothing): OnDataQueued's ErrPause pauses
\* the response, an error -- or a message that fails to encode --
\* terminates it; ok changes nothing here.
GsOutgoingBlockHook(r) ==
    /\ respState[r] = "running"
    /\ Mapped(r)
    /\ \/ /\ respState' = [respState EXCEPT ![r] = "paused"]
          /\ sessPaused' = [sessPaused EXCEPT ![ChanOf(r)] = TRUE]
          /\ sessPausedReqs' = sessPausedReqs \cup {r}
       \/ /\ respState' = [respState EXCEPT ![r] = "ending"]
          /\ UNCHANGED <<sessPaused, sessPausedReqs>>
    /\ UNCHANGED <<regVars, nextReq, respChan, completedEv, th>>

\* gsRequestUpdatedHook: processExtension on the update fails (malformed
\* extension, a response on a request channel, an error from
\* OnRequestReceived, a reply that fails to encode) and terminates the
\* response. ErrPause from OnRequestReceived is not acted on here.
GsRequestUpdatedHook(r) ==
    /\ respState[r] \in Live
    /\ Mapped(r)
    /\ respState' = [respState EXCEPT ![r] = "ending"]
    /\ UNCHANGED <<regVars, nextReq, respChan, sessPaused, sessPausedReqs,
                   completedEv, th>>

-----------------------------------------------------------------------------
(* The session's calls on a channel whose key is a remote one              *)

\* a caller enters PauseChannel, ResumeChannel or CloseChannel for c (the
\* event handler is set, so ErrHandlerNotSet is never returned)
CallOnKey(t, c, op) ==
    /\ th[t].pc = "idle"
    /\ op \in SessionCalls
    /\ th' = [th EXCEPT ![t] = [IdleThread EXCEPT !.pc = "key", !.op = op,
                                                  !.ch = c]]
    /\ UNCHANGED <<regVars, nextReq, respChan, respState, sessPaused, sessPausedReqs,
                   completedEv>>

\* gsKeyFromChannelID under the read lock: the key, or ErrChannelNotFound.
\* A responder channel never has a pending latch (only OpenChannel makes
\* one), so the caller does not wait here.
GsKeyFromChannelID(t) ==
    LET c == th[t].ch IN
    /\ th[t].pc = "key"
    /\ IF c \in DOMAIN channelIDMap
       THEN th' = [th EXCEPT ![t].pc = th[t].op, ![t].key = channelIDMap[c]]
       ELSE Return(t)
    /\ UNCHANGED <<regVars, nextReq, respChan, respState, sessPaused, sessPausedReqs,
                   completedEv>>

\* PauseChannel, remote key, under the read lock: a channel whose requestor
\* cancelled is paused with nothing to do; otherwise PauseResponse, which
\* graphsync refuses unless the response is running.
PauseChannel(t) ==
    LET c == th[t].ch
        r == th[t].key[1]
    IN /\ th[t].pc = "pause"
       /\ sessPaused' = [sessPaused EXCEPT ![c] = TRUE]
       /\ sessPausedReqs' = sessPausedReqs \cup {r}
       /\ respState' = IF c \notin requestorCancelledMap
                          /\ respState[r] = "running"
                       THEN [respState EXCEPT ![r] = "paused"]
                       ELSE respState
       /\ Return(t)
       /\ UNCHANGED <<regVars, nextReq, respChan, completedEv>>

\* the resume messages deferred for c
Deferred(c) == IF c \in DOMAIN pendingExtensions THEN pendingExtensions[c]
                                                 ELSE 0

MutUnpauseNoFlag(c, r) ==
    /\ respState' = IF respState[r] = "paused"
                    THEN [respState EXCEPT ![r] = "running"]
                    ELSE respState
    /\ UNCHANGED channelXferStarted

\* the transfer-started flag is set, then graphsync's UnpauseResponse, which
\* it refuses unless the response is paused
UnpauseResponse(c, r) ==
    /\ channelXferStarted' = Put(channelXferStarted, c, TRUE)
    /\ respState' = IF respState[r] = "paused"
                    THEN [respState EXCEPT ![r] = "running"]
                    ELSE respState

\* ResumeChannel, remote key: the message's extensions are encoded before
\* the lock (a failure returns the error); then, under dataLock, a channel
\* whose requestor cancelled has them deferred for the next request;
\* otherwise UnpauseResponse.
ResumeChannel(t) ==
    LET c == th[t].ch
        r == th[t].key[1]
    IN /\ th[t].pc = "resume"
       /\ \/ /\ UNCHANGED <<regVars, respState, sessPaused, sessPausedReqs>>
          \/ /\ sessPaused' = [sessPaused EXCEPT ![c] = FALSE]
             /\ UNCHANGED sessPausedReqs
             /\ \/ /\ c \in requestorCancelledMap
                   /\ Deferred(c) < MaxDeferred
                   /\ pendingExtensions' =
                          Put(pendingExtensions, c, Deferred(c) + 1)
                   /\ UNCHANGED <<graphsyncRequestMap, channelIDMap,
                                  requestorCancelledMap, channelXferStarted,
                                  stores, respState>>
                \/ /\ c \notin requestorCancelledMap
                   /\ UnpauseResponse(c, r)
                   /\ UNCHANGED <<graphsyncRequestMap, channelIDMap,
                                  requestorCancelledMap, pendingExtensions,
                                  stores>>
       /\ Return(t)
       /\ UNCHANGED <<nextReq, respChan, completedEv>>

\* CloseChannel, remote key: the flag is read under dataLock; a channel
\* whose requestor cancelled returns nil, otherwise CancelResponse is
\* called after the unlock.
CloseChannel(t) ==
    /\ th[t].pc = "close"
    /\ IF th[t].ch \in requestorCancelledMap
       THEN Return(t)
       ELSE th' = [th EXCEPT ![t].pc = "cancel"]
    /\ UNCHANGED <<regVars, nextReq, respChan, respState, sessPaused, sessPausedReqs,
                   completedEv>>

\* graphsync's CancelResponse: the response ends with RequestCancelled, so
\* the completed listener drops it; an ended response is an error return.
CloseCancel(t) ==
    LET r == th[t].key[1] IN
    /\ th[t].pc = "cancel"
    /\ respState' = IF respState[r] \in Live \cup {"ending"}
                    THEN [respState EXCEPT ![r] = "done"]
                    ELSE respState
    /\ Return(t)
    /\ UNCHANGED <<regVars, nextReq, respChan, sessPaused, sessPausedReqs, completedEv>>

MutCleanupKeepsChannelID(c, k) ==
    /\ graphsyncRequestMap' = Drop(graphsyncRequestMap, k)
    /\ pendingExtensions' = Drop(pendingExtensions, c)
    /\ requestorCancelledMap' = requestorCancelledMap \ {c}
    /\ channelXferStarted' = Drop(channelXferStarted, c)
    /\ stores' = stores \ {c}
    /\ UNCHANGED channelIDMap

\* cleanupChannel: every registry entry of the channel goes, the
\* persistence option with its store
cleanupChannel(c, k) ==
    /\ channelIDMap' = Drop(channelIDMap, c)
    /\ graphsyncRequestMap' = Drop(graphsyncRequestMap, k)
    /\ pendingExtensions' = Drop(pendingExtensions, c)
    /\ requestorCancelledMap' = requestorCancelledMap \ {c}
    /\ channelXferStarted' = Drop(channelXferStarted, c)
    /\ stores' = stores \ {c}

\* CleanupChannel, under dataLock, for a channel that has a key
CleanupChannel(c) ==
    /\ "cleanup" \in SessionCalls
    /\ c \in DOMAIN channelIDMap
    /\ cleanupChannel(c, channelIDMap[c])
    /\ UNCHANGED <<nextReq, respChan, respState, sessPaused, sessPausedReqs,
                   completedEv, th>>

\* UseStore registers the channel's persistence option
UseStore(c) ==
    /\ "useStore" \in SessionCalls
    /\ stores' = stores \cup {c}
    /\ UNCHANGED <<graphsyncRequestMap, channelIDMap, requestorCancelledMap,
                   pendingExtensions, channelXferStarted, nextReq, respChan,
                   respState, sessPaused, sessPausedReqs, completedEv, th>>

Next ==
    \/ \E c \in Chans : IncomingRequest(c) \/ CleanupChannel(c) \/ UseStore(c)
    \/ \E r \in Req : \/ RequestorCancelled(r) \/ ResponseEnds(r)
                      \/ GsOutgoingBlockHook(r) \/ GsRequestUpdatedHook(r)
    \/ \E t \in Callers :
          \/ \E c \in Chans, op \in {"pause", "resume", "close"} :
                CallOnKey(t, c, op)
          \/ GsKeyFromChannelID(t) \/ PauseChannel(t) \/ ResumeChannel(t)
          \/ CloseChannel(t) \/ CloseCancel(t)

Spec == Init /\ [][Next]_vars

-----------------------------------------------------------------------------
(* Properties                                                              *)

\* The key channelIDMap holds for a channel is mapped back to that channel
\* by graphsyncRequestMap: the hooks of the channel's current response find
\* it (gsReqRecdHook writes both maps, cleanupChannel deletes both).
KeyMapsAgree ==
    \A c \in DOMAIN channelIDMap :
        /\ channelIDMap[c] \in DOMAIN graphsyncRequestMap
        /\ graphsyncRequestMap[channelIDMap[c]] = c

\* Resume messages are deferred only for a channel whose requestor
\* cancelled, and the next request of the channel takes them all with the
\* cancel flag (spec section 3, deferred extensions): none is left behind
\* for a later request or replayed twice.
DeferredOnlyWhileCancelled ==
    DOMAIN pendingExtensions \subseteq requestorCancelledMap

\* While the channel's current response streams, its transfer-started flag
\* is set, so a restart of the channel (gsReqRecdHook) starts unpaused
\* rather than being paused anew by the restart-while-paused rule.
RunningMeansStarted ==
    \A c \in DOMAIN channelIDMap :
        respState[channelIDMap[c][1]] = "running" =>
            c \in DOMAIN channelXferStarted /\ channelXferStarted[c]

\* Spec 4.F: "Resume sets transfer-started flag := true for the responder
\* path", and 4.D's restart-while-paused rule pauses a restarted response
\* only while the transfer has not started. So the channel's current
\* response is paused only while the session has the channel paused, or
\* when the session itself paused that response (ErrPause from its
\* request or block hook, or PauseChannel): a resume is never undone by a
\* restart that arrived during it.
ResumedNotRepaused ==
    \A c \in DOMAIN channelIDMap :
        LET r == channelIDMap[c][1] IN
        respState[r] = "paused" => sessPaused[c] \/ r \in sessPausedReqs

\* Spec section 5: no event of a channel fires after OnChannelCompleted.
\* When gsCompletedResponseListener reports a response of c complete, no
\* other response of c is still streaming.
CompletionEndsChannel ==
    \A e \in completedEv' \ completedEv :
        \A q \in DOMAIN respChan \ {e[2]} :
            respChan[q] = e[1] => respState'[q] \notin Live

\* Spec section 3: the requestor-cancelled flag is set when the requestor
\* cancelled, and while it is set CloseChannel returns without
\* CancelResponse, PauseChannel does nothing and ResumeChannel defers. So a
\* flagged channel has no response streaming under its current key.
CancelFlagMeansNoResponse ==
    \A c \in requestorCancelledMap \cap DOMAIN channelIDMap :
        respState[channelIDMap[c][1]] \notin Live

\* Spec sections 3 and 5: the events of a response the requestor has
\* replaced by a restarted request (its completion, its requestor cancel)
\* do not act on the channel while the restarted response streams.
StaleResponseIgnored ==
    [][CompletionEndsChannel /\ CancelFlagMeansNoResponse']_vars

=============================================================================
