# A TLA+ verification of microLXMF

microLXMF is a C++ implementation of LXMF, the message layer of the Reticulum
network, for embedded targets. This directory holds TLA+ models of the parts of
it that keep state, the TLC configurations that check them on small instances,
and theorems checked by the TLA+ proof system. Paths below are relative to the
repository; `LXMRouter.cpp` and its neighbours live in `src/src/LXMF/`.

## The system

| Part | State it keeps | Operations | Modelled in |
|---|---|---|---|
| Outbound queue (`LXMRouter.cpp`) | fixed rings of pending and failed messages, attempts, one retry time, pools that match proofs and resources to messages | `try_handle_outbound`, `process_outbound`, proof and resource callbacks, `retry_failed_outbound`, `clear_failed_outbound` | `OutboundQueue` |
| Direct links (`LXMRouter.cpp`) | a table of eight links by peer, a registry of four peers whose closings are noticed | `get_link_for_destination`, established and closed callbacks | `DirectLinks` |
| Propagated upload (`LXMRouter.cpp`, `LXMessage.cpp`, `LXStamper.cpp`) | node, its link, stamp cost; one background stamp slot; ciphertext and stamp cached in a message | `send_propagated`, `set_outbound_propagation_node`, the stamper's worker | `PropagatedUpload` |
| Inbound queue (`LXMRouter.cpp`) | a ring of 16 messages that drops its oldest, a ring of 64 recently delivered hashes | `on_packet`, `on_resource_concluded`, `process_propagated_lxmf`, `process_inbound` | `InboundQueue` |
| Sync with a propagation node (`LXMRouter.cpp`) | sync state, start time, link, one static router pointer, remembered transient ids | `request_messages_from_propagation_node`, `process_sync`, four response callbacks | `PropagationSync` |
| Bridge runtime (`src/conformance-bridge/src/runtime/Runtime.cpp`) | request and started flags, the registered callback, the call in progress | `sync_inbound`, `worker_loop` | `SyncBridge` |
| Message store (`MessageStore.cpp`) | index of conversations in memory and on disk, payloads in two tiers with `.bak` generations, a metadata cache | save, load, update state, delete, clear, archive, recovery | `MessageStore` |
| Router registry (`LXMRouter.cpp`) | four static slots that map destinations to routers, for routers and for the peers of their links | constructor, destructor, `get_link_for_destination`, static callbacks, proofs | `RouterRegistry` |
| Outbound stamp costs (`LXMRouter.cpp`) | 32 costs by peer with the order of announces | `update_stamp_cost`, `received_announce` | `StampCosts` |
| Outbound admission (`LXMRouter.cpp`, `Runtime.cpp`) | the packed bytes, hash and stamp cached in a message; states by hash, the store | `try_handle_outbound`, `send_message_internal`, `persist_prepared_outbound` | `Admission` |
| Propagation node directory (`PropagationNodeManager.cpp`) | 32 nodes, a manual selection | announces, selection, expiry, choice of a node | `PropagationNodes` |
| TCP interface of the bridge (`src/conformance-bridge/src/runtime/PosixTCPInterface.cpp`, `HDLC.h`) | sockets, three flags, a frame buffer, a queue of packets | `start`, reader thread, `loop`, `send_outgoing`, `stop_iface` | `HDLC`, `TcpInterface` |
| Message format (`LXMessage.cpp`) | one message | pack, unpack, stamps | what it decides, in `Admission`, `InboundQueue` and `PropagatedUpload` |
| Bridge commands, JSON | lines of JSON on standard input | | not modelled |

The application, or the bridge's worker thread, calls `process_outbound()`,
`process_inbound()` and `process_sync()` from one main loop; each call looks at
one message. The transport answers through static callbacks, which find their
router through fixed tables or one static pointer: the registry serves links, packets and
proofs, the pointer the sync. The stamper has a thread of
its own and shares one result slot. In the bridge, calls are served by a second
thread that shares a mutex and two atomic flags with the worker, and each TCP
interface has a reader thread that fills a queue the worker drains. The store is
synchronous; power may fail between any two of its filesystem calls.

What is hard in this code, and to test: callbacks of the application that throw
in the middle of a pass; messages that move between two queues; timers that are
counted in attempts; answers that arrive late, twice or after a change of node;
slots that are found by a key which is no longer theirs; fixed pools at their
limit; a store whose every rename may fail or be the last one before the power
goes; sockets that one thread shuts while others use them. `PROJECT.json` lists these hazards with their lines and the properties
that watch them.

## Modules

- `OutboundContract`: what the router promises of accepted messages, without
  queues and timers. A message is new, queued, sent, uploading or failed; at most
  a queue's capacity is queued; every queued message is concluded in the end.
- `OutboundQueue`: the pipeline. A message stands for its hash. `pending` and
  `failed` are the rings, `attempts`, `method` and `state` the fields of the
  router's copy, `backoff` the seconds until `_next_outbound_process_time`,
  `tracked` the pool slots, `air` the transmissions the network has not concluded,
  `verdict` and `told` what the application has heard. One `ProcessOutbound`
  step is one whole call of `process_outbound()`, up to and including the callbacks.
  Whether a path, a link or the node is ready is an input of this module, and so is
  which of the application's callbacks may throw: one that throws while it reports a
  confirmed transmission keeps the slot of that transmission taken
  (`LXMRouter.cpp:492`, `:536` and `:1823` come before the slot is cleared).
- `DirectLinks` and `PropagatedUpload` extend `OutboundQueue` and decide that
  input: their actions conjoin an outcome of a pass with the table of links, or
  with the node, its link and the stamper. A link is numbered in the order of opening,
  so the table's slot can be told from the link that closes. A ciphertext is named by
  message and attempt, because encryption is randomised. A pass reads the stamper's
  state up to three times (`LXMRouter.cpp:1897`, `:1903`, `LXStamper.cpp:330`), and the
  worker may finish between two of the readings; the comment above `StampReady` lists
  what a pass can see and the action for each. A search may end without a stamp
  (`SearchMayFail`), whereupon the message is uploaded without one.
- `InboundQueue`: arrival over three routes with the tests each applies, the
  bounded queue, the ring of recent hashes and its next index, and the dispatch.
  What has been accepted, evicted, proved and dispatched is kept as history.
- `SyncContract`: what a caller can rely on of one sync. `PropagationSync` extends
  `InboundQueue` with the state machine, requests that are answered or fail at any
  later time, and the node's stock of messages.
- `SyncBridge`: `sync_inbound()` statement by statement against the worker, with
  `SyncContract` in place of the router.
- `MessageStore`: the steps between two filesystem calls of every operation.
  `files` maps a location to its live file and its `.bak`; `tx` is the transaction
  in progress, `job` the call it belongs to; each call that the code lets fail may
  fail when it is named in `Faults`, the reading of an index or a payload too.
  `meant` is the history the states are judged by: the last state acknowledged, those
  asked for since, and those a recovery has put back because it could not read the live
  file.
- `RouterRegistry`: the lives of several routers of one process over one static
  pool. `pool` is `_router_registry_pool`, `held` the peers of each router's links,
  `open` the links of Reticulum, which outlive a router. A proof is told to every
  router found by the pool, in the order of the slots.
- `StampCosts`: the table, in the order of its slots with their holes, and what of
  an announce is taken for a cost.
- `Admission` extends `StampCosts`: an application edits, packs and stamps its message
  and submits it, again too when it was refused, or the bridge sends a text, once. A
  submission is one step with one of its
  outcomes: queued, queue full, too costly, refused by the guard, or unpackable. The
  guard of an application refuses as it likes and does nothing else; the bridge's saves
  the message. Either refuses a message that has been packed and stamped. Cached
  bytes, hash and stamp name the text they were made from, so a stale one can be told
  from a fresh one, and the history `owed` keeps the stamp the router had made when a
  guard refused its message.
- `PropagationNodes`: the pool, the manual selection, the listener and the choice,
  against "a serving node of the list as near as any, the first of them".
- `HDLC`: framing, each loop over bytes given by what one byte does and folded over the
  sequence. `TcpInterface` extends it
  with the threads at both ends of one connection. A send, an accept, a read and a stop
  are taken apart at every access to the state they share without a lock.
- `OutboundQueueProofs`, `OutboundLinksProofs` (on `DirectLinks` and
  `PropagatedUpload`), `InboundQueueProofs`, `MessageStoreProofs`, `BridgeProofs` (on
  `SyncBridge`, `HDLC` and `TcpInterface`),
  `RouterRegistryProofs`, `AdmissionProofs`, `PropagationNodesProofs`: theorems.
- `MC...`: constants for TLC.

Every mutant in a module (an operator whose comment begins with "Mutant:")
is a plausible bug of the definition below it. With the mutant in its place,
TLC finds the property that `PROJECT.json` names violated.

Three modules compose: `DirectLinks` and `PropagatedUpload` with `OutboundQueue`,
`PropagationSync` with `InboundQueue`. `SyncBridge` and `PropagationSync` meet in
`SyncContract`, one relying on it and the other implementing it.

## Runs

| Run | What it checks | Bounds |
|---|---|---|
| `OutboundQueueSafety` | nothing is held twice, lost in silence, reported delivered before sent; a slot that leaks has a lost packet or a throwing callback behind it | three messages of three methods, two pending, one failed, one slot per pool, two attempts, each callback may throw, propagation-only mode on or off |
| `PropagatedUpload` | a required stamp is there unless its search failed, a stamp that does not fit was abandoned by its owner or follows a refused order, no upload to a former node, the pipeline implements `OutboundContract`, liveness included | two propagated messages, two nodes, cost on or off, three attempts, searches may fail |
| `DirectLinks` | closed links leave the table, active ones stay, `OutboundContract` again | two peers, three links, one slot in table and registry |
| `InboundQueue` | a message is dispatched once per window, nothing vanishes, the queue drains | three messages, three arrivals, queue and ring of two |
| `PropagationSync` | a waiting sync can hear, what was acknowledged was processed, `SyncContract` | three messages, three syncs, an inbound queue and a transient id buffer of one |
| `SyncBridge` | no callback outlives its call, the started flag is of this call, every call returns | three calls |
| `MessageStore` | memory and disk agree between calls, the durable index changes by commits only and lists no message without payload, no older state comes back before a message is archived but one that recovery chose because it could not read the live file, every call returns | four messages of two peers, two messages and one conversation at most, three calls, one power failure; every call may fail but the reading and the putting back of the index |
| `Admission` | a cost is the latest announced, the silent are forgotten first, a queued message carries the stamp it is due, a waiting one is reported as outbound | one message of an application, two of the bridge with one text, one without a source; three peers and a table of two; a queue of one; three announces, one edit, submissions and refusals without a bound; costs up to 3 around limits of 1 and 2 |
| `PropagationNodes` | the list is the latest word of each node, none heard in time is missing, the choice is best | three nodes, two slots, near or far, stale after one tick, five ticks |
| `TcpInterface` | packets arrive whole and in order, each is accounted for, an ended interface is offline, stopping returns, a packet that arrives is handled; framing undoes itself | two sending threads with one packet each, a server queue of one, one packet per pass, packets of two bytes at least |
| `RouterRegistry` | a router alone is reached by every callback, none loses its slot to another, each hears of a proof once | three routers of two destinations, three slots, one message |
| `SyncLostMessages` | a disagreement between the code and its words, see Divergences | as `PropagationSync` |

The limits of the code (16 pending messages, 16 inbound, 64 recent hashes, eight
direct links, 5 attempts) are constants; the runs give them the smallest values at which
queues fill, rings wrap and every eviction happens, and two or three actors that can
meet in a limit. Times are counted in units, the shortest delay being one.
`MaxLinks`, `MaxArrivals`, `MaxSyncs`, `MaxCalls` and `MaxCrashes` bound what
would otherwise grow for ever: three of each allow an old, a current and a next one.
`MaxUpdates`, `MaxVersion` and `MaxTime` do the same for announces, edits and the
clock. Hop counts are unsigned in the code; 1 and 128 would be told apart wrongly by a
signed comparison. Three attempts let an upload be waited for, encrypted anew and still
be sent. `PropagationOnlyChoices` says which modes the application sets: both where the
queue is checked alone, none where every message is propagated anyway.
Symmetry is used in `PropagationNodes` only, which compares no two nodes by name and
has no liveness property. `CHECK_DEADLOCK FALSE` stands where the program may stop:
the bridge after `MaxCalls`, the store, the admission when every message is decided,
the interface when both ends are stopped, the registry when every router has been
destroyed.

The run of `TcpInterface` also evaluates `FramingIsExact`: any two packets of up to two
critical bytes, framed one after the other, come out as they went in, but for those
shorter than a header. Type invariants, and some invariants that follow quickly from
the others, are proved instead of run (see Proofs).

## Fairness

The main loop (`Runtime::worker_loop`, or the loop of an embedded application)
calls the three `process_...` functions for ever and the clock advances, so passes
and ticks are weakly fair. Nothing is assumed of the network, a peer, the node, the
stamper or the application: no link need open, no answer need come, no stamp need be
found. A failed callback that always throws wedges the outbound queue; the contract
is therefore checked with failed callbacks that return. The contract itself asks that the
phase of each message be concluded as long as it can be (`WF` of a change of `phase`). In the bridge both threads
run and the deadline passes; in the store a call that has begun goes on. Of a TCP
interface, the reader, the drain, a send and a stop that have begun go on; nothing starts,
sends, stops or breaks because it must. `Admission`, `PropagationNodes` and
`RouterRegistry` have safety properties only.

## Proofs

For all values of the constants that satisfy the named assumptions:

- `OutboundQueueProofs`: `TypeCorrect`, `HeldOnce`, `LossIsReported`,
  `SentBeforeDelivered`, `LeaksHaveACause`, `FrontLeaves` and `ContractKept`. The
  inductive invariant `IInv` adds to the checked ones that only accepted messages are
  queued, that whatever the failed queue holds has been reported as failed (so its
  eviction loses nothing in silence), and that a slot which will report a delivery
  belongs to a message whose sent callback was heard. `LeaksHaveACause` rests on
  `ConcludedOnce`: a transmission is confirmed or lost once, since the next one of its
  message counts another attempt. One lemma per group of actions
  says what a step keeps. `ContractKept` maps each step of the pipeline to a step
  of the safety part of `OutboundContract` or to a stutter.
- `InboundQueueProofs`: `InboundTypeCorrect`, `DispatchedOnce`,
  `AcceptedIsAccountedFor`, `ProofsFollowAcceptance`. The strengthening is
  `RingIsEndOfHistory`: read backwards from the next index, the ring is the end of the
  dispatch history and its other slots are free. A message that is not in the ring
  was therefore not among the last dispatches, which is the window of `DispatchedOnce`.
  The module also holds the theorems about `PropagationSync`: `WaitingSyncsHear`,
  `SyncKeepsItsContract` (each step is one of `SyncContract` or a stutter),
  `SyncTypeCorrect`, `AckedWereProcessed` and `QueueIsSafeUnderSync`. `SyncInv` adds
  that a router which can hear an answer has not completed its sync, so a late answer
  may revive a failed sync but never calls back twice. A response pushes any number of
  messages at once: of the copies it leaves in front of the queue and those that stay,
  none is lost (`PushAllKeeps`), and the ids it acknowledges are those it selected, in a
  loop over the response (`SelectedElements`).
- `BridgeProofs`, on `SyncBridge`: `NoCallbackOutlivesItsCall`, `FlagIsOfThisCall`. The
  strengthening says that a worker that holds the mutex has begun a request since
  the call entered.
  On `HDLC`: `UnescapeUndoesEscape` and `FramingIsExactForAll`, for sequences of bytes of
  any length. The functions are unfolded by the least counterexample: if a loop's claim
  failed for some length, it would fail for a smallest one, and one step of the loop
  refutes that.
  On `TcpInterface`: `TcpTypeCorrect`, `EndedReadersAreOffline`, `ArrivalsWereSent`,
  `SendsAreAccounted`. `TcpInv` follows, in each direction, the stream from the sender to
  the reader: were the reader's buffer and the bytes on the wire read at once, then the
  packets that have arrived and those found in the stream are a subsequence of those
  written whole; while the connection is intact none is missing but the dropped ones, and
  the stream stops inside the frame of the one thread that holds the write mutex
  (`Pending`: what is left of the frame completes it and nothing before its last byte
  does). A break, or a descriptor shut by a stop, may end the stream anywhere, which is why
  order survives it and the account does not.
- `OutboundLinksProofs`, on links: `LinksImplementTheQueue` (every behaviour of the composition is
  one of `OutboundQueue`, so all theorems about the queue hold in it),
  `LinksKeepTheContract`, `LinkTypeCorrect`, `ClosedLinksLeave`, `ActiveLinksAreKept`. `TableInv` adds that
  the link in a peer's slot is one to that peer: without it a closing link could
  be found in another peer's slot.
  On uploads: `UploadsImplementTheQueue`, `UploadsKeepTheContract`, `UploadTypeCorrect`,
  `StampsFailWithTheirSearch`, `StampsAreThere`, `MisfitsAreExplained`,
  `UploadsReachTheChosenNode`. `UploadInv`
  adds that the owner of the stamper's slot, unless it has been given up, is at the front
  of the queue, is propagated, and still has the ciphertext that was stamped, or one made
  since for an order that was refused. `SearchInv` adds that the attempts of the orders
  placed so far tell them apart, so that one failed search excuses one upload; where
  `~SearchMayFail` no upload goes without its stamp (`StampsAreThere`).
- `MessageStoreProofs`: `MemoryIsDurable`, `OnlyCommitsAreDurable`, for any number of
  failed filesystem calls and power failures, under the assumption `IndexCallsWork`: the
  two calls that put the index's `.bak` back and the one that reads the index do not fail
  (`IndexIsKept` is what happens otherwise). `StoreInv` follows the one transaction on the
  index: until its commit the disk holds the index the call would go back to, from then
  on the one in memory, and the live file is missing between the two renames only, when
  the `.bak` is the old generation. A save is the long case: it archives, rolls back
  and removes payloads around that transaction, and none of those files is the index.
  On the payloads: `ListedAreStored`, `UnarchivedAreCurrent`, which also assume that no two
  messages share a file name (`OwnPaths`; `OnlyUnlistedRemoved` is what happens otherwise).
  A file is read as the generation a recovery would leave, so that recovering, preserving
  and cleaning change no reading (`ReadingsKept`) and only the writing, rolling back,
  archiving and removing of a payload need an argument of their own, and a recovery that
  cannot read the live file: the generation it puts back counts as meant from then on
  (`RecoveredMeant`). `PayloadInv` says of these: what is
  listed on disk or in memory is listed once and stored; a `.bak` is removed only beside a
  live file; the payload a save replaces keeps another copy for the rollback for as long
  as the index on disk lists it; what is left to remove is not listed; a message leaves
  the hot tier once the archive has it. `MeantInv` adds that the state a file reads as, the
  one being written and the one a rollback would put back are each the last to be
  returned or were asked for since, and that a new index adds the saved message alone.
  `StoreTypeCorrect` needs neither assumption: files hold what belongs into them, and an
  index lists no message twice and no more than pool and conversation take. What carries
  it is that a saved payload stays in place until the index has been committed
  (`SavedInPlace`), for its state is read from there.
- `RouterRegistryProofs`: `RegistryTypeCorrect`, `SlotsAreKept`, `SoleRouterHearsAll`,
  `ProofsHeardOnce`.
  `RegistryInv` adds that no two living routers have one destination and that a router
  that has been alone since the process began has the first slot. Who hears of a proof
  is a function over the slots; `EachIsCalledOnce` is the induction over it.
- `AdmissionProofs`: `CostsSafe`, `CostsStayLatest` and `SilentGoFirst` about the
  table; `AdmissionTypes`, `QueuedWithItsStamp`, `QueuedAsEdited`,
  `StoredBeforeAccepted`, `ReportedWhileWaiting`, `RefusalsLeaveNoTrace` about the
  submission: what is queued carries the bytes of the last edit, what the bridge
  accepted is in its store, a refusal changes neither store nor states. `ObjectsSound`
  says of a message that its caller has left to the router: as long as the router owes it
  no stamp it looks as if nobody had asked for one, and afterwards it keeps the one owed
  through every edit, packing and submission.
- `PropagationNodesProofs`: `ListsTheLatest`, `ListsTheFresh`, `TellsTheListener`,
  `BestIsFirstInTheList`, `EffectiveNodeServes`.

Theorems only, in no run: the type invariants above, that only the front leaves the
outbound queue (`FrontLeaves`), the step refinements and contract theorems,
`QueueIsSafeUnderSync`, `ProofsFollowAcceptance`, `QueuedAsEdited`,
`StoredBeforeAccepted`, `RefusalsLeaveNoTrace`, `TellsTheListener`,
`BestIsFirstInTheList`, and of framing `UnescapeUndoesEscape` and
`FramingIsExactForAll`.

Only model-checked: liveness, which is out of the prover's reach. That is the fairness
part of the contracts (`ContractSpec`; their steps are proved), `QueueDrains`, `CallsReturn`,
`CallReturns`, `StopReturns` and `SentIsHandled`. Every other property of a run is a
theorem. `IdleIsDurable`, `DurableChangesByCommit`, `ListedIsStored` and
`HotStateIsCurrent` are theorems under the assumptions named above; the run makes the
same ones, by its `Faults` and its names.

## Divergences

The run `SyncLostMessages` (`AckedIsDelivered`) keeps one disagreement between the code
and what it says of itself: an answer with more messages than the inbound queue holds is
queued in one callback and acknowledged as a whole.

The modules state further documented expectations, under the heading "Documented
expectations the code does not meet". Added to the run of their module as INVARIANT
or PROPERTY, TLC shows a counterexample (for the store with the constants named):

| Property | What the code does instead |
|---|---|
| `StampMatchesContent` | the stamper's slot has no owner: when the message that ordered a stamp is given up, the next one is uploaded with a stamp over another ciphertext; and when the worker finishes between the tests of one pass (`LXMRouter.cpp:1897`, `:1903`), the message is encrypted anew, its order is refused, and it is uploaded with its own stamp over the former ciphertext |
| `LatestCostIsMet` | a message that a guard refused keeps the cost and the stamp the router had made: submitted again after a higher announce, or after an edit, it is queued with that stamp, too weak or over the old hash (`LXMRouter.cpp:755`; the comment at `:750` says "Apply the latest cost advertised by the destination unless the caller already requested a stamp explicitly") |
| `StampedWhenRequired` | after a search that failed, the message is sent without its stamp, "sending anyway" (`LXMRouter.cpp:1900`), although "stamps will be generated before sending messages through the propagation node" (`LXMRouter.h:320`) |
| `NoSecondRequest` | a request left behind by a call that timed out is begun during the next call, which then leaves a second one |
| `IndexIsKept` | the second of two failing commits removes the `.bak` that is the only index left (`Faults` of "commit" and "restoreIndex") |
| `ValidStampIsOwn` | `has_valid_stamp` stays set over the old hash after an edit (`LXMessage.h:144`, `:286`) |
| `RegisteredAreAlive` | a destroyed router stays in the slots it took for peers (`LXMRouter.cpp:615`), where their links' callbacks and every proof find it |
| `OnlyTheSenderIsTold` | a proof is told to every registered router (`LXMRouter.cpp:518`) |
| `HeldLinksAreOpen` | a closing link is removed from the router its peer's slot names, not from the one that opened it (`LXMRouter.cpp:414`) |
| `RetriedIsAttempted` | a retried message keeps its attempt count and fails again unsent |
| `LostUploadIsReported` | a failed upload is only logged |
| `ConfirmedIsReported` | proofs of packets sent while the proof pool is full are dropped; the slots of lost packets, and of transmissions whose callback threw, stay taken |
| `FailedFallsBack` | `_fallback_to_propagation` is never read |
| `StampIsAwaited` | polling a running stamp uses up the attempts |
| `PendingLinkIsAwaited` | polling a pending link uses up the attempts before its time-out |
| `EstablishedIsPickedUp` | a link opened while the table is full is never found again |
| `OnlyTheClosedLinkIsRemoved` | the late closing of an old link drops a newer one |
| `ProvedIsDelivered` | a full inbound queue drops messages that were proved |
| `DispatchedIsValidated`, `EnforcedOnArrival` | messages from a node skip the tests of signature and stamp |
| `ValidatedOnceLearned` | a source learned after arrival is not used to validate |
| `EstablishingHasALink` | changing the node during a sync leaves it polling an empty link |
| `TrackedIsNotFetchedAgain` | a late answer queues messages whose ids are remembered |
| `ResultIsOfThisSync` | a state read before the worker began is returned as this sync's |
| `NoOldStateReturns` | archiving leaves the hot `.bak`, which is recovered before the archive is read, and which a later save archives over the newer state (`Faults` with "remove") |
| `HotStateIsCurrent`, were `back` left out of `meant` | the `.bak` that an update failed to remove (`MessageStore.cpp:1439`, unchecked) is put in place of the acknowledged live file when that cannot be read once (`:1018`, `:1028`; `Faults` with "remove" and "readPayload") |
| `RewriteKeepsMessages` | `commit_index()` after a failed load replaces the index (`Faults` with "readIndex") |
| `CachedIsStored`, `CachedIsListed` | saving again, and evicting, leave the metadata cache |
| `OnlyUnlistedRemoved` | deleting a message removes the payload of another with the same short name (`PathOf` not injective) |

## Not modelled

The msgpack encoding, hashing, signatures, encryption and the search for stamps are
replaced by what they decide: a signature is genuine or not, a stamp valid or
not. Field limits of a message and the choice of method in `pack()` are constants
(`PackedMethod`, `Representation`). Progress callbacks only report. Names,
previews, the unread count and the order of conversations do not decide what is
stored. Bridge commands are a sequential dispatcher without state; the JSON library is
vendored, and three quarters of the code by lines.

Of the modules:

- `Admission`: the blocking search for a stamp does not end without one (nothing cancels
  it, and memory is never exhausted in the model), so its failure is unreachable. A
  caller that makes a stamp itself counts as having asked for one. The bridge's message to a recipient it cannot recall has no source, and
  packing it always throws. A failure to store a state in a callback is ignored as in
  the code. `send_message_internal()` recalls an identity before it takes the mutex;
  that race is Reticulum's. A save that throws shows the state OUTBOUND until the
  handler restores it; the store's eviction at its cap is `MessageStore`'s. The
  sequence of announces is not wrapped at 2^32. `set_announce_interval()` stores a value
  nothing reads, and `announce()` always writes an empty stamp cost.
- `OutboundQueue`, `PropagatedUpload`: memory is never exhausted, so a copy of a message
  or of its bytes does not throw; whatever else throws inside `process_outbound()` does.
  A sent callback that throws fails its message, a callback that throws out of a report
  of the transport goes to the transport, whose handling is Reticulum's.
- `PropagationNodes`: nothing in `src/` uses the class or calls
  `clean_stale_nodes()`. Truncated or unset values of an announce are left out, and so
  are limits, costs and names. The comment that a selected node is returned "if set" does
  not hold of one that is not listed or does not serve; the model follows the code.
- `TcpInterface`: one connection, as the server accepts only one; nothing reconnects.
  Failures of `socket()` and `bind()` end the start. A descriptor accepted while the
  interface stops is leaked; its number is not given out again in the model.
- `RouterRegistry`: Reticulum refuses two living routers of one destination. A call
  into a destroyed router is undefined and not counted. The limit of the proof pool is
  `OutboundQueue`'s.
- `PropagatedUpload`, `PropagationSync` and `DirectLinks` have one router each.

## Plan

What is left, in the order of its worth:

1. A composition of `SyncBridge` with `PropagationSync` in place of `SyncContract`.
2. `RouterRegistry` in place of the registry's room in `DirectLinks`.
