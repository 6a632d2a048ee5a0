------------------------------ MODULE Restart ------------------------------
(***************************************************************************)
(* The restart coordinator of go-data-transfer (impl/restart.go): the      *)
(* four ways the manager restarts a channel, chosen by who created the     *)
(* channel and in which direction data flows. A received channel has its   *)
(* voucher validated again and a restart-request message sent to the      *)
(* other party; a created push channel sends a fresh request; a created    *)
(* pull channel reopens through the transport's OpenChannel.               *)
(*                                                                         *)
(* Several session goroutines may restart channels at once. The outcome    *)
(* of every external call (message construction, voucher validation,       *)
(* SendMessage, OpenChannel) is chosen nondeterministically. A call that   *)
(* goes to the network (SendMessage, OpenChannel) is a step of its own;    *)
(* the local work before it is one step.                                   *)
(***************************************************************************)
EXTENDS FiniteSets, TLC

CONSTANTS
    Chans,       \* channels with persisted state
    Callers,     \* goroutines calling the restart functions
    ChanType,    \* channel -> its ChannelDataTransferType
    Configured   \* channels whose voucher type has a transport configurer

\* ChannelDataTransferType (restart.go:12-26)
Types == {"ManagerPeerCreatePull", "ManagerPeerCreatePush",
          "ManagerPeerReceivePull", "ManagerPeerReceivePush"}

ASSUME /\ ChanType \in [Chans -> Types] /\ Configured \subseteq Chans
       /\ Callers # {}

\* what goes to the other party: a restart-request message (no direction),
\* a data-transfer request message or a graphsync request through
\* OpenChannel, with the Pull flag of the request it carries
Traffic == [ch : Chans, kind : {"restart", "request", "open"},
            pull : BOOLEAN]

PCs == {"idle", "validate", "sendRestart", "push", "pushSend", "pull",
        "pullOpen"}

VARIABLES
    validated,  \* <<channel, isPull>>: validateVoucher accepted the request
    traffic,    \* what the restarts have put on the network
    protected,  \* channels whose connection to the other party is protected
    stores,     \* channels a transport configurer gave a store (UseStore)
    errored,    \* channels moved to the error state by m.channels.Error
    th          \* caller -> [pc, ch, isPull]

vars == <<validated, traffic, protected, stores, errored, th>>

TypeOK ==
    /\ validated \subseteq Chans \X BOOLEAN
    /\ traffic \subseteq Traffic
    /\ protected \subseteq Chans /\ stores \subseteq Chans
    /\ errored \subseteq Chans
    /\ th \in [Callers -> [pc : PCs, ch : Chans, isPull : BOOLEAN]]

Init ==
    /\ validated = {} /\ traffic = {} /\ protected = {}
    /\ stores = {} /\ errored = {}
    /\ th = [t \in Callers |-> [pc |-> "idle", ch |-> CHOOSE c \in Chans : TRUE,
                                isPull |-> FALSE]]

Goto(t, pc) == th' = [th EXCEPT ![t].pc = pc]
Return(t) == Goto(t, "idle")

-----------------------------------------------------------------------------
\* The session's restart of channel c by its type: the two received flavours
\* validate first, with isPull telling which request created the channel.
MutReceivePushAsPull(t, c) ==
    /\ th[t].pc = "idle"
    /\ th' = [th EXCEPT ![t] =
                 CASE ChanType[c] = "ManagerPeerReceivePush" ->
                          [pc |-> "validate", ch |-> c, isPull |-> TRUE]
                   [] ChanType[c] = "ManagerPeerReceivePull" ->
                          [pc |-> "validate", ch |-> c, isPull |-> TRUE]
                   [] ChanType[c] = "ManagerPeerCreatePush" ->
                          [pc |-> "push", ch |-> c, isPull |-> FALSE]
                   [] ChanType[c] = "ManagerPeerCreatePull" ->
                          [pc |-> "pull", ch |-> c, isPull |-> TRUE]]
    /\ UNCHANGED <<validated, traffic, protected, stores, errored>>

RestartChannel(t, c) ==
    /\ th[t].pc = "idle"
    /\ th' = [th EXCEPT ![t] =
                 CASE ChanType[c] = "ManagerPeerReceivePush" ->
                          [pc |-> "validate", ch |-> c, isPull |-> FALSE]
                   [] ChanType[c] = "ManagerPeerReceivePull" ->
                          [pc |-> "validate", ch |-> c, isPull |-> TRUE]
                   [] ChanType[c] = "ManagerPeerCreatePush" ->
                          [pc |-> "push", ch |-> c, isPull |-> FALSE]
                   [] ChanType[c] = "ManagerPeerCreatePull" ->
                          [pc |-> "pull", ch |-> c, isPull |-> TRUE]]
    /\ UNCHANGED <<validated, traffic, protected, stores, errored>>

\* validateRestartVoucher(channel, isPull): the original request is built
\* again (NewRequest may fail) and validateVoucher runs on it; either
\* failure returns the error and the restart ends with no traffic.
ValidateRestartVoucher(t) ==
    /\ th[t].pc = "validate"
    /\ \/ /\ Return(t)
          /\ UNCHANGED validated
       \/ /\ validated' = validated \cup {<<th[t].ch, th[t].isPull>>}
          /\ Goto(t, "sendRestart")
    /\ UNCHANGED <<traffic, protected, stores, errored>>

\* SendMessage of the RestartRequest, which names only the channel, to the
\* other party; its error is returned as is.
SendRestartRequest(t) ==
    /\ th[t].pc = "sendRestart"
    /\ \/ traffic' = traffic \cup {[ch |-> th[t].ch, kind |-> "restart",
                                    pull |-> FALSE]}
       \/ UNCHANGED traffic
    /\ Return(t)
    /\ UNCHANGED <<validated, protected, stores, errored>>

\* openPushRestartChannel / openPullRestartChannel up to the network call:
\* the request is built (failure returns), the voucher type's transport
\* configurer runs (it may call UseStore), and the connection is protected.
PrepareRestart(t, pc, next) ==
    LET c == th[t].ch IN
    /\ th[t].pc = pc
    /\ \/ /\ Return(t)
          /\ UNCHANGED <<protected, stores>>
       \/ /\ stores' = IF c \in Configured THEN stores \cup {c} ELSE stores
          /\ protected' = protected \cup {c}
          /\ Goto(t, next)
    /\ UNCHANGED <<validated, traffic, errored>>

\* the network call of a created channel's restart; on failure
\* m.channels.Error moves the channel to the error state. The protection
\* taken before the call is kept either way.
SendOrOpen(t, pc, kind) ==
    LET c == th[t].ch IN
    /\ th[t].pc = pc
    /\ \/ /\ traffic' = traffic \cup {[ch |-> c, kind |-> kind,
                                       pull |-> th[t].isPull]}
          /\ UNCHANGED errored
       \/ /\ errored' = errored \cup {c}
          /\ UNCHANGED traffic
    /\ Return(t)
    /\ UNCHANGED <<validated, protected, stores>>

OpenPushRestartChannel(t) == PrepareRestart(t, "push", "pushSend")
PushSendRequest(t) == SendOrOpen(t, "pushSend", "request")
OpenPullRestartChannel(t) == PrepareRestart(t, "pull", "pullOpen")
PullOpenChannel(t) == SendOrOpen(t, "pullOpen", "open")

Next ==
    \E t \in Callers :
        \/ \E c \in Chans : RestartChannel(t, c)
        \/ ValidateRestartVoucher(t) \/ SendRestartRequest(t)
        \/ OpenPushRestartChannel(t) \/ PushSendRequest(t)
        \/ OpenPullRestartChannel(t) \/ PullOpenChannel(t)

Spec == Init /\ [][Next]_vars

-----------------------------------------------------------------------------
\* the request that created channel c pulled data to its initiator
CreatedByPull(c) ==
    ChanType[c] \in {"ManagerPeerCreatePull", "ManagerPeerReceivePull"}

\* Spec 4.G: a restart puts nothing on the network before the voucher of a
\* received channel is validated again, against the request that really
\* created the channel (push or pull); a created channel is reopened the
\* way it was created: a push sends a request message, a pull calls
\* OpenChannel.
TrafficMatchesChannel ==
    \A m \in traffic :
        CASE ChanType[m.ch] \in {"ManagerPeerReceivePush",
                                "ManagerPeerReceivePull"} ->
                 m.kind = "restart" /\ <<m.ch, CreatedByPull(m.ch)>> \in validated
          [] ChanType[m.ch] = "ManagerPeerCreatePush" ->
                 m.kind = "request" /\ ~m.pull
          [] ChanType[m.ch] = "ManagerPeerCreatePull" ->
                 m.kind = "open" /\ m.pull

=============================================================================
