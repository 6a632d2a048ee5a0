--------------------------- MODULE GsNetworkErrors ---------------------------
(***************************************************************************)
(* The two network-error listeners of the graphsync transport              *)
(* (gsNetworkSendErrorListener, gsNetworkReceiveErrorListener) against the *)
(* registry both sides of the transport fill: a channel whose graphsync    *)
(* request this node made has the key (request ID, local peer), one whose  *)
(* request a remote peer made has (request ID, that peer). Graphsync       *)
(* numbers each requestor's requests from 1, so the same request ID is     *)
(* used by this node and by its peers.                                     *)
(*                                                                         *)
(* Each channel's request is recorded once (restarts and cleanup are the   *)
(* other modules' subject). A listener holds dataLock for writing while it *)
(* calls the session; the session's handler may, when Reentrant, call      *)
(* back into the transport (PauseChannel, CloseChannel), whose             *)
(* gsKeyFromChannelID takes the read lock.                                 *)
(***************************************************************************)
EXTENDS Naturals, FiniteSets, Functions, TLC

CONSTANTS
    Chans,      \* channel IDs
    Local,      \* t.peerID
    Remotes,    \* the other peers
    Initiator,  \* channel -> ChannelID.Initiator
    Responder,  \* channel -> ChannelID.Responder
    Dir,        \* channel -> "out": this node makes the graphsync request,
                \*            "in": the other peer makes it
    Reentrant,  \* the session's error handlers call back into the transport
    NoOwner

Peers == {Local} \cup Remotes

\* the other party of channel c
Peer(c) == IF Initiator[c] = Local THEN Responder[c] ELSE Initiator[c]

ASSUME /\ Local \notin Remotes /\ NoOwner \notin {"send", "recv"}
       /\ Initiator \in [Chans -> Peers] /\ Responder \in [Chans -> Peers]
       /\ \A c \in Chans : Local \in {Initiator[c], Responder[c]}
                           /\ Initiator[c] # Responder[c]
       /\ Dir \in [Chans -> {"out", "in"}] /\ Reentrant \in BOOLEAN

IDs == 1..Cardinality(Chans)
Keys == IDs \X Peers

\* the two listener goroutines graphsync calls
Listeners == {"send", "recv"}

VARIABLES
    graphsyncRequestMap,  \* graphsyncKey -> channel ID
    nextID,               \* requestor -> the last request ID it used
    writer,               \* the goroutine holding dataLock, or NoOwner
    lst,                  \* listener -> [pc, peer, ch, todo]
    sendReported,         \* <<failed request's key, channel>> reported
    recvFired             \* channels OnReceiveDataError fired for, this error

vars == <<graphsyncRequestMap, nextID, writer, lst, sendReported, recvFired>>

Idle == [pc |-> "idle", peer |-> Local, ch |-> CHOOSE c \in Chans : TRUE,
         todo |-> {}]

TypeOK ==
    /\ \E D \in SUBSET Keys : graphsyncRequestMap \in [D -> Chans]
    /\ nextID \in [Peers -> 0..Cardinality(Chans)]
    /\ writer \in Listeners \cup {NoOwner}
    /\ lst \in [Listeners -> [pc : {"idle", "loop", "handler", "reenter"},
                              peer : Peers, ch : Chans, todo : SUBSET Chans]]
    /\ sendReported \subseteq Keys \X Chans
    /\ recvFired \subseteq Chans

Init ==
    /\ graphsyncRequestMap = <<>>
    /\ nextID = [p \in Peers |-> 0]
    /\ writer = NoOwner
    /\ lst = [l \in Listeners |-> Idle]
    /\ sendReported = {} /\ recvFired = {}

Unlocked == writer = NoOwner

-----------------------------------------------------------------------------
(* The hooks that record a channel's graphsync key (under dataLock)        *)

\* graphsync numbers requestor q's next request
Record(c, q) ==
    /\ graphsyncRequestMap' = (<<nextID[q] + 1, q>> :> c) @@ graphsyncRequestMap
    /\ nextID' = [nextID EXCEPT ![q] = @ + 1]

\* gsOutgoingRequestHook, the session having accepted the channel: the key
\* is (request ID, t.peerID)
GsOutgoingRequestHook(c) ==
    /\ Dir[c] = "out" /\ c \notin Range(graphsyncRequestMap) /\ Unlocked
    /\ Record(c, Local)
    /\ UNCHANGED <<writer, lst, sendReported, recvFired>>

\* gsReqRecdHook, the session having accepted the request: the key is
\* (request ID, p) for the requesting peer p
GsReqRecdHook(c) ==
    /\ Dir[c] = "in" /\ c \notin Range(graphsyncRequestMap) /\ Unlocked
    /\ Record(c, Peer(c))
    /\ UNCHANGED <<writer, lst, sendReported, recvFired>>

-----------------------------------------------------------------------------
(* The listeners                                                           *)

\* gsNetworkSendErrorListener(p, request): graphsync failed to send on the
\* request whose key is k, to or from peer p (a request that is no
\* channel's is looked up in vain). Under dataLock the channel is
\* looked up as (request ID, p), then as (request ID, t.peerID).
SendLookup(id, p) ==
    IF <<id, p>> \in DOMAIN graphsyncRequestMap
    THEN {graphsyncRequestMap[<<id, p>>]}
    ELSE IF <<id, Local>> \in DOMAIN graphsyncRequestMap
         THEN {graphsyncRequestMap[<<id, Local>>]}
         ELSE {}

GsNetworkSendErrorListener(k, p) ==
    LET found == SendLookup(k[1], p) IN
    /\ lst["send"].pc = "idle" /\ Unlocked
    /\ IF found = {}
       THEN UNCHANGED <<writer, lst, sendReported>>
       ELSE \E c \in found :
               /\ writer' = "send"
               /\ sendReported' = sendReported \cup {<<k, c>>}
               /\ lst' = [lst EXCEPT !["send"] =
                             [Idle EXCEPT !.pc = "handler", !.peer = p,
                                          !.ch = c]]
    /\ UNCHANGED <<graphsyncRequestMap, nextID, recvFired>>

\* the request k that failed and the peer p graphsync names: a request of
\* this node went to some peer (its channel's, when it is ours), a request
\* of a peer came from it
Failure(k, p) ==
    /\ k[2] \in Remotes => p = k[2]
    /\ k \in DOMAIN graphsyncRequestMap => p = Peer(graphsyncRequestMap[k])

\* the receive-error loop skips a channel that p is no party of
MutSkipEither(c, p) == Initiator[c] # p \/ Responder[c] # p

Skip(c, p) == Initiator[c] # p /\ Responder[c] # p

\* gsNetworkReceiveErrorListener(p): under dataLock, a range over
\* graphsyncRequestMap's channel values
MutRangeOverKeys(p) ==
    /\ lst["recv"].pc = "idle" /\ Unlocked
    /\ writer' = "recv"
    /\ recvFired' = {}
    /\ lst' = [lst EXCEPT !["recv"] = [Idle EXCEPT !.pc = "loop", !.peer = p,
                                       !.todo = DOMAIN graphsyncRequestMap]]
    /\ UNCHANGED <<graphsyncRequestMap, nextID, sendReported>>

GsNetworkReceiveErrorListener(p) ==
    /\ lst["recv"].pc = "idle" /\ Unlocked
    /\ writer' = "recv"
    /\ recvFired' = {}
    /\ lst' = [lst EXCEPT !["recv"] = [Idle EXCEPT !.pc = "loop", !.peer = p,
                                       !.todo = Range(graphsyncRequestMap)]]
    /\ UNCHANGED <<graphsyncRequestMap, nextID, sendReported>>

\* one iteration of the loop, in the map's random order; the loop's end
\* releases dataLock (the deferred Unlock)
ReceiveErrorLoop ==
    LET me == lst["recv"] IN
    /\ me.pc = "loop"
    /\ \/ /\ me.todo = {}
          /\ writer' = NoOwner
          /\ lst' = [lst EXCEPT !["recv"] = Idle]
          /\ UNCHANGED recvFired
       \/ \E c \in me.todo :
             /\ UNCHANGED writer
             /\ IF Skip(c, me.peer)
                THEN /\ lst' = [lst EXCEPT !["recv"].todo = me.todo \ {c}]
                     /\ UNCHANGED recvFired
                ELSE /\ recvFired' = recvFired \cup {c}
                     /\ lst' = [lst EXCEPT !["recv"].todo = me.todo \ {c},
                                           !["recv"].pc = "handler",
                                           !["recv"].ch = c]
    /\ UNCHANGED <<graphsyncRequestMap, nextID, sendReported>>

\* the session's OnSendDataError / OnReceiveDataError, still under
\* dataLock. It returns (the send listener then unlocks, the receive
\* listener goes on looping), or, when Reentrant, calls PauseChannel or
\* CloseChannel for the channel: gsKeyFromChannelID's RLock then waits for
\* the write lock this same goroutine holds, and no step of it follows.
SessionHandler(l) ==
    /\ lst[l].pc = "handler"
    /\ \/ /\ l = "send"
          /\ writer' = NoOwner
          /\ lst' = [lst EXCEPT ![l] = Idle]
       \/ /\ l = "recv"
          /\ lst' = [lst EXCEPT ![l].pc = "loop"]
          /\ UNCHANGED writer
       \/ /\ Reentrant
          /\ lst' = [lst EXCEPT ![l].pc = "reenter"]
          /\ UNCHANGED writer
    /\ UNCHANGED <<graphsyncRequestMap, nextID, sendReported, recvFired>>

Next ==
    \/ \E c \in Chans : GsOutgoingRequestHook(c) \/ GsReqRecdHook(c)
    \/ \E k \in Keys, p \in Remotes :
          Failure(k, p) /\ GsNetworkSendErrorListener(k, p)
    \/ \E p \in Remotes : GsNetworkReceiveErrorListener(p)
    \/ ReceiveErrorLoop
    \/ \E l \in Listeners : SessionHandler(l)

Spec == Init /\ [][Next]_vars

\* A listener goroutine that holds dataLock is runnable until it returns:
\* the Go scheduler runs it.
FairSpec == Spec /\ WF_vars(ReceiveErrorLoop)
                 /\ \A l \in Listeners : WF_vars(SessionHandler(l))

-----------------------------------------------------------------------------
(* Properties                                                              *)

\* A send error is reported on the channel of the request graphsync failed
\* to send on: the peer qualifies a graphsync request ID (spec section 2,
\* the engine request key), so a request of this node and a request of the
\* peer with the same ID are different channels.
SendErrorOnOwnChannel ==
    \A e \in sendReported :
        e[1] \in DOMAIN graphsyncRequestMap /\ graphsyncRequestMap[e[1]] = e[2]

\* Spec 4.D(11): when gsNetworkReceiveErrorListener returns, it has fired
\* OnReceiveDataError for every registered channel the peer is a party of.
ReceiveErrorReachesAll ==
    [][lst["recv"].pc = "loop" /\ lst'["recv"].pc = "idle" =>
         \A c \in Range(graphsyncRequestMap) :
            Peer(c) = lst["recv"].peer => c \in recvFired]_vars

\* Spec section 5: dataLock is released before any call into the session,
\* so a session handler may call back into the transport. Then every call
\* of a network-error listener returns and releases dataLock, whatever the
\* handler does.
ListenerReturns ==
    \A l \in Listeners : lst[l].pc # "idle" ~> lst[l].pc = "idle"

=============================================================================
