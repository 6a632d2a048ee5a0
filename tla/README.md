# TLA+ models of the graphsync data-transfer transport

This directory holds TLC-checkable models of `src/transport/graphsync/graphsync.go`,
the transport that runs data-transfer channels over the graphsync protocol, and of
the restart coordinator in `src/impl/restart.go`. The modules
are written from the Go source. Where the code's behaviour differs from
`spec.md`, a violation run records the difference.

## 1. Inventory

### Parts of the system

| Part | Source | State | Operations |
|---|---|---|---|
| Channel registry | `graphsync.go` `Transport` | `graphsyncRequestMap` (graphsync key → channel), `channelIDMap` (channel → key), `contextCancelMap` (channel → cancel func + `completed` latch), `pending` (channel → latch), `requestorCancelledMap`, `channelXferStarted`, `pendingExtensions`, `stores`, all under `dataLock` | every facade call and hook |
| Channel lock table | `chanLocker` (graphsync.go:133) | one mutex per channel | lock and unlock in `OpenChannel` |
| Request executor | `executeGsRequest`, `consumeResponses` (235-288, 225-233) | per request: its response and error channels, its `internalCtx` | drain, classify the last error, report to the session, close `completed` |
| Facade | `OpenChannel`, `PauseChannel`, `ResumeChannel`, `CloseChannel`, `CleanupChannel`, `SetEventHandler`, `Shutdown`, `UseStore`, `gsKeyFromChannelID` | none of its own beyond the registry | called by the session layer from many goroutines |
| Hooks and listeners | `gsOutgoingRequestHook`, `gsIncomingBlockHook`, `gsIncomingResponseHook`, `gsReqRecdHook`, `gsOutgoingBlockHook`, `gsBlockSentHook`, `gsCompletedResponseListener`, `gsRequestUpdatedHook`, `gsRequestorCancelledListener`, network error listeners | the registry | called by graphsync's goroutines |
| Restart coordinator | `impl/restart.go` | the channel state it reads | revalidate the voucher, then send a restart message or call `OpenChannel` |
| Message constructors | `src/unnamed/part_000` | none | pure constructors |
| Graphsync engine, session layer | not in this repository | — | the environment |

### How the parts interact

The session calls the facade. `OpenChannel` registers a `pending` latch and a
cancellable context, then calls `gs.Request` and starts an executor goroutine.
When graphsync sends the request, it calls the outgoing-request hook. The hook
asks the session (`OnChannelOpened`). If the session accepts, the hook records
the key in both maps. In either case it closes and deletes the `pending` latch.
Pause, Resume and Close first resolve the channel to its key with
`gsKeyFromChannelID`. If the channel is still pending, that call waits on the
latch. Hooks on incoming blocks and responses look the key up in
`graphsyncRequestMap`.

A restart is an `OpenChannel` of a channel that already has a `cancelRequest`.
The sequence is:

1. cancel the old request;
2. release `dataLock`;
3. wait until the old executor closes `completed`, or until the 1 s fail-safe
   (`maxGSCancelWait`) fires, or until the caller's context ends;
4. take `dataLock` again and register the new request.

The per-channel lock serialises two `OpenChannel` calls for the same channel.

### What is hard

- Three kinds of goroutine act concurrently: session callers, graphsync hook
  goroutines and one executor per request. `OpenChannel` releases `dataLock` in
  the middle of its work.
- Timeouts race late answers. The fail-safe lets the new request start while the
  old one is still running.
- Correctness depends on the order of events: the hook comes after `Request`, the
  executor ends after cancellation, and cleanup comes after close.
- Partial failure: `OpenChannel` can fail after it has registered its latch and
  its context.

The hazards, each at its source line, are listed in `PROJECT.json`.

### Properties by part

- Registry: the two key maps are mutual inverses (spec §3 invariant 1). A
  channel is pending only while it has no key (invariant 2). Every key in
  `channelIDMap` is mapped back to its channel (checked over restarts and
  cleanup, where `cleanupChannel` must delete both entries).
- Restart: every request still running and not cancelled is the one that
  `contextCancelMap` can cancel. Without this, `CloseChannel` and `Shutdown`
  could not stop it.
- Facade liveness: `OpenChannel` always returns.
- Abstraction: the requestor side refines `ChannelRequests`, which says only
  which request a channel's cancel handle cancels and when it may change.
- Pending latches are closed before they are replaced or removed (violated).
- Responder: deferred resumes exist only under the requestor-cancelled flag;
  a streaming response has its transfer-started flag; the channel's current
  response is paused only if the session paused the channel or that response
  (violated); no completion while another response of the channel is live
  (violated); the cancel flag is never set while a response of the channel is
  live (violated).
- Restart coordinator: nothing reaches the network for a received channel
  before its voucher is revalidated in the channel's direction, and a created
  channel is reopened the way it was created.
- Network-error listeners: a send error is reported on the channel of the
  failed request (violated); the receive-error loop reaches every channel of
  the failing peer; every listener call returns and releases `dataLock`
  (violated when a session handler calls back into the transport).

## 2. The modules

### `GsTransport.tla`: the requestor side of the transport

Constants:

- `Chans`, `Callers`: the channels and the session goroutines.
- `Local`, `Remote`: the peers.
- `MaxRequests`: bounds the graphsync request IDs.
- `SessionCalls`, `GsDeliveries`: select which session calls and graphsync
  deliveries a run enables.

Variables:

- The registry maps, as partial functions: `graphsyncRequestMap`,
  `channelIDMap`, `contextCancelMap`, `pending`, `stores`. `Put` and `Drop`
  stand for the Go map assignment and `delete`.
- `events`/`hooksOn`: the event handler is set and the hooks are registered.
- `chanLock`: the holder of each channel's lock.
- Per request: `reqChan`, `reqState` (sent/open/done), `reqErr` (the last error
  graphsync leaves on the error channel), `reqCancelled` (its `internalCtx`
  is cancelled), `reqPaused`.
- `completed`: the requests whose `completed` latch is closed.
- `closedLatch`: the pending latches that are closed.
- `outcome`: what the executor reported.
- `th`: each caller's program counter and locals.

Modelling choices:

- Each `dataLock` critical section is one atomic action.
- Each point where the Go code blocks or releases the lock is a separate `pc`.
- Graphsync is the environment. It decides when the outgoing-request hook runs
  (`OutgoingRequest`), whether the session accepts the channel (`\E opened`),
  whether a block pauses or terminates the request, and which error a request
  ends with (`FinishErrors`). A request whose context is cancelled may end with
  `RequestContextCancelledErr`. Others may not.

Correspondence between actions and code:

| Action | Code |
|---|---|
| `OpenChannel`, `OpenChannelLock` | graphsync.go:117-145, up to the unlock |
| `OpenChannelWaitCompleted`, `OpenChannelWaitFailSafe`, `OpenChannelCtxDone` | the three branches of `waitForCancelComplete` |
| `OpenChannelRelock` (with `RegisterPending`) | 151-170 |
| `OpenChannelRequest`, `OpenChannelEncodeFails` | 172-197 |
| `GsOutgoingRequestHook` | 456-491 |
| `GsIncomingBlockHook`, `GsIncomingResponseHook` | 493-511, 772-834 |
| `RequestEnds` | graphsync closing the channels read by `consumeResponses` |
| `ExecuteGsRequest` (with `Classify`) | 235-288 |
| `GsKeyFromChannelID`, `AwaitPending`, `AwaitCtxDone` | 290-309 |
| `PauseChannel`, `ResumeChannel`, `CloseChannel` | the local-key branches of those calls |
| `CleanupChannel`, `cleanupChannel` | 395-404, 724-741 |
| `SetEventHandler`, `Shutdown`, `UseStore` | 407-454 |

### `ChannelRequests.tla`: what the requestor side promises

An abstract specification with no locks, latches, hooks or waits. Variables:
`chanOf` (request → channel), `handle` (channel → the request its cancel handle
cancels), `started`, `ended`, `cancelled`. A request starts only while it is its
channel's handle; a handle is replaced only once the old request and every
running request of the channel are cancelled; a handle is forgotten only then.
`GsTransport` defines `Requests == INSTANCE ChannelRequests WITH` the mapping
`handle <- contextCancelMap`, `started <- {r : reqState[r] # "unused"}`,
`ended <- {r : reqState[r] = "done"}`, `cancelled <- reqCancelled`, and the runs
`restart_safety` and `facade_safety` check `ImplementsChannelRequests ==
Requests!Spec` as a PROPERTY.

### `GsResponder.tla`: the responder side of the transport

The remote peer is the graphsync requestor; keys are `<<request, Remote>>`.

- Variables: the key maps, `requestorCancelledMap`, `pendingExtensions`
  (channel → number of deferred resume messages, at most `MaxDeferred`),
  `channelXferStarted`, `stores`; per request `respChan` and `respState`
  (unused/running/paused/ending/done, as graphsync holds the response);
  `sessPaused`, the session's own view of whether it paused the channel;
  `sessPausedReqs`, the responses the session itself paused (ErrPause from
  its hooks, or `PauseChannel`);
  `completedEv`, the `OnChannelCompleted` events; callers' `th`.
- Fault model: a request for a channel may arrive at any time, also while an
  older response of the channel still runs (the requestor's cancel was lost or
  is processed late).

| Action | Code |
|---|---|
| `IncomingRequest`, `GsReqRecdHook` (`ClearRequestorCancelled`, `RecordRequest`) | 576-664 |
| `RequestorCancelled` | 836-844 |
| `ResponseEnds`, `GsCompletedResponseListener` | 668-696 |
| `GsOutgoingBlockHook` | 535-572 |
| `GsRequestUpdatedHook` | 743-769 (the failing `processExtension` paths) |
| `CallOnKey`, `GsKeyFromChannelID` | 290-302 (no pending latch on this side) |
| `PauseChannel`, `ResumeChannel` (`UnpauseResponse`), `CloseChannel`, `CloseCancel` | the remote-key branches of 311-393 |
| `CleanupChannel`, `cleanupChannel`, `UseStore` | 395-404, 724-741, 441-454 |

### `Restart.tla`: the restart coordinator

Each caller runs one restart at a time through a `pc`. `RestartChannel`
dispatches on `ChanType` (the dispatch is in the manager, outside this source,
and follows spec 4.G) with the `isPull` that lines 29 and 40 pass.
`ValidateRestartVoucher` (50-67) then `SendRestartRequest` (33-47) for received
channels; `PrepareRestart` (configurer, `UseStore`, `Protect`) then `SendOrOpen`
(`SendMessage` or `OpenChannel`, `channels.Error` on failure) for created ones.
Every external call may fail.

### `GsNetworkErrors.tla`: the network-error listeners

This module models the registry as both sides fill it. `GsOutgoingRequestHook` (456-490) records
this node's request n as (n, local peer). `GsReqRecdHook` (632-661) records a peer's
request n as (n, that peer). `nextID` numbers each requestor's requests from 1,
as graphsync does, so IDs collide across orientations. Each channel is recorded
once; restarts and cleanup belong to the other modules.

- `GsNetworkSendErrorListener` (847-864) takes `dataLock` and looks the failed
  request up with `SendLookup` (851-857): first as (n, p), then as (n, local).
  It then enters the session's handler. `Failure` constrains which (request, peer)
  pairs graphsync may report.
- `GsNetworkReceiveErrorListener` (867-873) takes `dataLock` and ranges over the
  channel values. `ReceiveErrorLoop` (873-884) performs one iteration per step,
  skips channels the peer is not party to (`Skip`, 874-876), and releases the lock
  at the end.
- `SessionHandler` (859-863, 878-881) is the session's callback. The send
  listener then returns, while the receive loop continues. With `Reentrant`, the
  handler calls back into `PauseChannel` or `CloseChannel` instead. That call's
  `gsKeyFromChannelID` waits on `RLock` (line 292) while the goroutine itself
  holds the write lock. The resulting `pc` `"reenter"` has no action.

`MCGsTransport.tla` and `MCGsResponder.tla` fix one channel and two callers for TLC;
`MCRestart.tla` fixes one channel of each of the four types and two callers.
`MCGsNetworkErrors.tla` fixes three channels. c1 is this node's request to p1,
c2 is p1's request to this node, and c3 is p2's request to this node.

## 3. Runs

| Run | cfg | Bounds | Checks | Result |
|---|---|---|---|---|
| `restart_safety` | `MCGsTransport.cfg` | 1 channel, 2 callers, 3 requests; open, cleanup, shutdown | `TypeOK`, `RunningRequestCancellable`, `KeyMapsAgree`, `ImplementsChannelRequests` | pass, about 450k states |
| `restart_liveness` | `MCGsTransportLive.cfg` | 2 requests; open, close, shutdown; `FairSpec` | `OpenChannelReturns` | pass |
| `facade_safety` | `MCGsTransportFacade.cfg` | 2 requests; all calls; blocks and responses | `RunningRequestCancellable`, `ImplementsChannelRequests` | pass, about 1.6M states |
| `registry_invariants` | `MCGsTransportRegistry.cfg` | 2 requests | `RegistryInvariants` (`MapsInverse` and `PendingMeansNoKey`) | violation (finding) |
| `pending_closed` | `MCGsTransportPendingClosed.cfg` | 2 requests; open, cleanup | `PendingClosedWhenRemoved` | violation (finding) |
| `responder_safety` | `MCGsResponder.cfg` | 1 channel, 2 callers, 3 requests, 2 deferred resumes; all calls | `TypeOK`, `KeyMapsAgree`, `DeferredOnlyWhileCancelled`, `RunningMeansStarted` | pass, about 6.5M states, 2 min |
| `resume_repaused` | `MCGsResponderRepaused.cfg` | 2 requests | `ResumedNotRepaused` | violation (finding) |
| `stale_response` | `MCGsResponderStaleResponse.cfg` | 2 requests | `StaleResponseIgnored` (`CompletionEndsChannel` and `CancelFlagMeansNoResponse`) | violation (finding) |
| `restart_coordinator` | `MCRestart.cfg` | 4 channels (one per type), 2 callers | `TrafficMatchesChannel` | pass, about 10k states |
| `network_errors` | `MCGsNetworkErrors.cfg` | 3 channels, 2 remote peers, reentrant handlers | `TypeOK`, `ReceiveErrorReachesAll` | pass, 7,647 states; no deadlock check, since a reentrant handler really stops the listener |
| `listener_reentry` | `MCGsNetworkErrorsReentry.cfg` | same; `FairSpec` | `ListenerReturns` | violation (finding) |
| `send_error_collision` | `MCGsNetworkErrorsSend.cfg` | same, handlers return | `SendErrorOnOwnChannel` | violation (finding) |

Why these bounds are enough:

- Two callers on one channel are enough for every race the code has on a channel:
  two concurrent `OpenChannel` calls, or an `OpenChannel` against a Pause, Close
  or cleanup.
- The channels do not interact except through the global `dataLock`, which the
  atomic steps already model.
- Three request IDs allow an open followed by two restarts, so a fail-safe
  restart can overtake a request that is itself a restart. On the responder
  side they allow a restart while the first response still runs, followed by
  a second restart after a requestor cancel.
- Two deferred resumes per channel are enough to see them replayed together
  by the next request; more only repeats the same step.
- The restart coordinator's calls share no lock and touch different
  channels' entries; one channel per type and two callers give every flavour,
  concurrent restarts of one channel and every failure point.
- For the listeners, three channels cover a request of each orientation with
  the same peer (c1, c2) and a channel of another peer (c3). That is enough for
  an ID collision across orientations and for a skipped channel in the receive
  loop. The IDs go up to the number of channels.

The safety runs use symmetry over the callers. The liveness run does not.

### Fairness (`FairSpec`)

- Weak fairness for each caller's steps that do not wait on anything, because
  the Go scheduler runs runnable goroutines.
- Strong fairness for taking the channel lock, because Go's `sync.Mutex` starves
  no waiter in practice and the lock becomes free again and again.
- Weak fairness for the fail-safe timer and for the executor.
- In `GsNetworkErrors` (`listener_reentry`), weak fairness for the receive
  loop and the session handler. Both are steps of a listener goroutine that holds `dataLock` and
  is runnable. Nothing forces graphsync to report errors.
- No fairness for graphsync's hooks and request endings, or for context
  cancellation. The liveness property must therefore hold even when graphsync
  never ends a cancelled request.

### Findings

The two halves of each combined property were checked one at a time as
well: with `INVARIANT MapsInverse` alone, `MCGsTransportRegistry.cfg` gives the
stale-key trace. Checked alone as `[][CompletionEndsChannel]_vars`, the
responder model gives the stale-completion trace.

- **`registry_invariants`, invariant 1.** A restart leaves the old request's key in
  `graphsyncRequestMap`. `cleanupChannel` deletes only the current key, so the
  old key is never removed. The network receive-error listener and late hooks
  still resolve the channel after cleanup. This contradicts spec §3 invariant 1.
- **`registry_invariants`, invariant 2 (the trace TLC reports).** Between the restart's relock and the new outgoing
  hook, the channel has a `pending` latch and still resolves to the cancelled
  request's key. Pause, Resume and Close issued in that window act on the old
  request. This contradicts spec §3 invariant 2.

- **`pending_closed`.** A fail-safe restart overwrites the pending latch
  without closing it (line 159), and `cleanupChannel` deletes it unclosed
  (line 727). Waiters on the old latch hang until their own context ends.
- **`resume_repaused`.** `ResumeChannel` reads the key before taking
  `dataLock` (line 342). The session paused request 1 through ErrPause, so
  the transfer-started flag is false. A Resume reads request 1's key; the
  restarted request 2 arrives, the session accepts it, and the
  restart-while-paused rule pauses it. The Resume then sets the flag and
  unpauses the old response. Request 2 stays paused although the session
  resumed the channel and never paused request 2; either call alone, in
  either order, leaves it running. A resume deferred under the
  requestor-cancelled flag (line 359) does not set the flag either.
- **`stale_response`, completion.** The responder hook never removes the old request's
  key. If the requestor's cancel is lost, the old response's completion fires
  `OnChannelCompleted` while the restarted response is still live, paused or
  streaming (spec §5).
- **`stale_response`, cancel flag (the trace TLC reports).** Through the same stale key, a late requestor cancel
  of the old request flags the channel while the new response is live, and
  Close, Pause and Resume of the channel become no-ops.

- **`send_error_collision`.** When no channel has the key (n, p), the
  send-error listener falls back to (n, local peer), which names this node's
  own request n. Because graphsync numbers requests per requestor, a failed
  request of p (one that is no channel's, or not yet recorded) is reported on
  an unrelated channel of this node. Spec §2 says the peer qualifies the
  request ID.
- **`listener_reentry`.** Both listeners hold `dataLock` for writing
  while they call the session (lines 860 and 878). A handler that pauses or
  closes the channel blocks forever in `gsKeyFromChannelID`'s `RLock`,
  because Go's `RWMutex` is not reentrant, and every later hook blocks
  behind it: `ListenerReturns` fails even with the listener goroutine
  scheduled fairly. Spec §5 says the lock is released before session
  callbacks. Whether the session's handlers call back is outside this
  repository.

### Assumption

`CleanupAllowed` admits `CleanupChannel` only when every live request of the
channel is cancelled and no `OpenChannel` of it is in progress. This is taken
from the source comment "called on the otherside of a cancel". Without the
assumption, a cleanup that races a restart deletes the new `cancelRequest`, and
`RunningRequestCancellable` fails. This is listed as a hazard.

## 4. Not modelled, and why

- The data payload, CIDs, selectors and the content of the do-not-send set are
  left out. No property depends on them. Only the encode-failure branch is
  kept.
- Parent-context cancellation of `internalCtx` is left out. Only this node's own
  cancel is modelled; the caller's own `ctx.Done()` appears in the waits.
- Message construction and the extension codec have no state.
- The graphsync engine and the session are not modelled beyond their observable
  choices.
- `gsBlockSentHook` only reads the registry and calls the session, and changes
  no state of the transport.
- Whether the real session's error handlers call back into the transport is
  outside this repository. `Reentrant` lets the model check both cases.
- The extension codec (`GetTransferData`, `ToExtensionData`) and the message
  constructors are pure; only their failure is kept, as a nondeterministic
  error.
- Releasing a restart's `Protect` and store on failure belongs to the session's
  channel handling, which is not in this repository. `Restart` keeps the
  protection, the store and the error state a failed call leaves, but no
  property of this code alone says when they are released.

## 5. Further work

1. **Composition.** Drive `GsTransport`'s `OpenChannel` from `Restart`'s
   pull restart, so a restart of a created pull channel runs the
   cancel-and-reopen sequence.
2. **Executor terminal events.** A property that a restart is never reported
   to the session as a timeout, once the spec is clear about it (hazard at
   graphsync.go:246).
3. **Liveness on the responder side.** Under fairness for graphsync, every
   deferred resume is eventually sent or dropped.
4. **Network errors over restarts.** Let `GsNetworkErrors` record a channel
   again on restart, so the receive-error loop meets the stale keys that
   `registry_invariants` shows.
