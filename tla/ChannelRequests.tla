-------------------------- MODULE ChannelRequests --------------------------
(***************************************************************************)
(* What the graphsync transport promises about the requests it opens for  *)
(* its channels, with no locks, latches, hooks or waits: every request     *)
(* belongs to one channel; a channel holds the cancel handle of at most    *)
(* one request; a request is started only while it is the one its         *)
(* channel's handle cancels; a new handle replaces the old one only once   *)
(* the old request is cancelled and every running request of the channel   *)
(* is; a handle is forgotten only on the other side of a cancel. Closing   *)
(* and shutting down cancel through the handles.                          *)
(***************************************************************************)
EXTENDS FiniteSets, Functions, TLC

CONSTANTS Chans, Reqs

VARIABLES
    chanOf,     \* request -> the channel it was opened for
    handle,     \* channel -> the request its cancel handle cancels
    started,    \* requests handed to graphsync
    ended,      \* requests graphsync has ended
    cancelled   \* requests whose context is cancelled

vars == <<chanOf, handle, started, ended, cancelled>>

Running == started \ ended

\* the running requests of channel c all have a cancelled context
Quiet(c) == \A q \in Running : chanOf[q] = c => q \in cancelled

Init ==
    /\ chanOf = <<>> /\ handle = <<>>
    /\ started = {} /\ ended = {} /\ cancelled = {}

\* a caller asks for a request of channel c
Reserve(r, c) ==
    /\ r \notin DOMAIN chanOf
    /\ chanOf' = (r :> c) @@ chanOf
    /\ UNCHANGED <<handle, started, ended, cancelled>>

\* r becomes the request channel c's handle cancels
Install(c, r) ==
    /\ r \in DOMAIN chanOf /\ chanOf[r] = c
    /\ r \notin started \cup cancelled
    /\ c \in DOMAIN handle => handle[c] \in cancelled
    /\ Quiet(c)
    /\ handle' = (c :> r) @@ handle
    /\ UNCHANGED <<chanOf, started, ended, cancelled>>

Start(r) ==
    /\ r \in DOMAIN chanOf /\ r \notin started
    /\ chanOf[r] \in DOMAIN handle /\ handle[chanOf[r]] = r
    /\ started' = started \cup {r}
    /\ UNCHANGED <<chanOf, handle, ended, cancelled>>

Cancel(c) ==
    /\ c \in DOMAIN handle
    /\ cancelled' = cancelled \cup {handle[c]}
    /\ UNCHANGED <<chanOf, handle, started, ended>>

CancelAll ==
    /\ cancelled' = cancelled \cup Range(handle)
    /\ UNCHANGED <<chanOf, handle, started, ended>>

End(r) ==
    /\ r \in Running
    /\ ended' = ended \cup {r}
    /\ UNCHANGED <<chanOf, handle, started, cancelled>>

Forget(c) ==
    /\ Quiet(c)
    /\ handle' = Restrict(handle, DOMAIN handle \ {c})
    /\ UNCHANGED <<chanOf, started, ended, cancelled>>

Next ==
    \/ \E r \in Reqs, c \in Chans : Reserve(r, c) \/ Install(c, r)
    \/ \E r \in Reqs : Start(r) \/ End(r)
    \/ \E c \in Chans : Cancel(c) \/ Forget(c)
    \/ CancelAll

Spec == Init /\ [][Next]_vars

=============================================================================
