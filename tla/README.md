# A TLA+ model of sigsig

`sigsig` is an asyncio Signal client: it links itself to a phone by QR code,
keeps one authenticated WebSocket over which the server pushes messages, sends
messages by HTTP, and stores its whole session in one JSON file.  This directory
models the parts of it whose correctness depends on the order in which things
happen.  Paths below are relative to the repository; `sigsig/` stands for
`src/sigsig/`.

## 1. The system

| Component | Source | State it keeps | Operations | Talks to |
|---|---|---|---|---|
| WebSocket connection | `sigsig/transport/ws.py` (`_BaseWs`) | connection, request queue, pending futures, id counter, `_closed`, two tasks | start, read loop, keepalive loop, request/response, requests(), close() | server; consumer of `requests()`; callers of `close()` |
| Client lifecycle | `sigsig/client.py` | `_store`, `_http`, `_ws`, `_receive_task`, registry | qr_login, load/save session, run, stop, aclose, send | everything below |
| Receive loop, envelope dispatch | `sigsig/receive.py`, `events.py` | none of its own: the store's ratchets advance | take a push, decrypt, build events, dispatch, acknowledge | connection, store, handlers |
| Handler registry | `sigsig/handlers.py` | handlers per event type | register, unregister, dispatch | user code |
| Send pipeline | `sigsig/send.py` | none: the store's sessions advance | bundles, encrypt per device, PUT; group fan-out | HTTP, store |
| HTTP transport | `sigsig/transport/http.py` | a client, credentials | request with error mapping | server |
| Signal store | `rust/sigsig_libsignal/src/lib.rs` | sessions, identities, prekeys | encrypt, decrypt, process bundle, (de)serialise | send, receive, session file |
| Session file | `sigsig/session/store.py`, `state.py` | the file and its `.tmp` | load, snapshot, save | client, command line |
| Provisioning | `sigsig/provisioning/flow.py`, `qr.py`, `keys/*.py` | attempt, deadline, generated keys | link_device | provisioning WebSocket, HTTP |
| Attachments | `attachments.py`, `attachments_api.py`, `transport/cdn.py` | none | encrypt, upload, download, decrypt | CDN |
| Groups V2 | `groups.py`, `groups_api.py` | none | derive secrets, fetch members | storage service |
| Crypto primitives, types, configuration | `crypto/*.py`, `types.py`, `config.py`, `errors.py` | none | pure functions, constants | all |
| Command line | `cli.py` | none | link, send, receive, ... | client, session file |

How they interact.  `Client.run` dials the WebSocket, which starts a *read task*
and a *keepalive task*, then starts a *receive task* that consumes `requests()`.
For each push the receive task decrypts, lets all handlers run, and acknowledges;
the next push is taken only then.  `Client.stop` may be called from any other
task; it and the `finally` of `run` then race for `close()`.  Sends run in
whatever task calls them and share only the store.  The session file is loaded
when a command starts and written by one synchronous call before it ends.

Concurrency is that of asyncio: tasks are interleaved at the awaits that
suspend, and nowhere else.  A cancellation is delivered at such an await.
Across processes there is no coordination at all.

What is hard here, and what each part must get right:

* *connection*: three kinds of ending (server's close, loss, own close) racing
  answers, pushes and each other.  No push may be lost, reordered or repeated
  before its consumer; nobody may wait on a dead task; close() must finish and
  leave nothing behind.
* *client*: `run` and `stop` await and cancel the same tasks.  Both must end, and
  after `stop` nothing runs.  A message is acknowledged (and so deleted by the
  server) only once it was handled, unless a stop cut it short.
* *session file*: kills at any moment, two processes on one file.  What a load
  finds is a session that was saved; what was saved as used is not used again.
* *send*: awaits between reading a session, advancing it and telling the server.
* *provisioning*: the attempt's timeout races the envelope; the link request is
  sent once and its answer may be lost; the session must be that of the device
  the server knows, and the wait must end.
* *handlers*: concurrent fan-out to handlers that fail, or change the registry.
* *delivery*: decryption advances the session in memory, the acknowledgement
  deletes the message on the server, the save comes later: whatever falls in
  between, messages may be lost, repeated or unreadable only for a stated reason.
* *paddings*: what is added is exactly what is removed, at every length.

`PROJECT.json` lists each hazard at its line, with the property that watches it.

## 2. The modules

| Module | Models | Role |
|---|---|---|
| `WsConnection` | `_BaseWs` of `transport/ws.py` | component |
| `WsConnectionProofs` | | inductive invariant, theorems |
| `MCWsConnection` | | two interchangeable callers of close() |
| `Client` | `run`, `stop` of `client.py`, `run_receive_loop` of `receive.py`, composed with `WsConnection` | composition |
| `ClientProofs` | | inductive invariant, theorems, refinement of the socket |
| `MCClient` | | instance |
| `SessionFile` | `session/store.py` with the commands of `cli.py` | component |
| `AtomicSession` | what a saved session promises | abstract specification |
| `SessionFileProofs` | | theorems, among them the refinement |
| `MCSessionFile` | | two processes |
| `SendPipeline` | `send.py`, the error mapping of `transport/http.py`, sessions and identities of `lib.rs` | component |
| `SendPipelineProofs` | | inductive invariant, theorems |
| `MCSendPipeline` | | a contact with two devices; a group of three |
| `Provisioning` | `provisioning/flow.py`, `keys/upload.py`, the first save by `link` of `cli.py` | component |
| `ProvisioningProofs` | | inductive invariant, theorems |
| `MCProvisioning` | | instance |
| `Handlers` | `handlers.py`, the classes of `events.py` | component |
| `HandlersProofs` | | the registry's sequences, what a dispatch keeps |
| `Delivery` | `receive.py`, the receiving side of `lib.rs`, `run`, `stop` and the session file as `listen` uses them, composed with `Handlers` | composition |
| `DeliveryProofs` | | inductive invariant, theorems |
| `MCDelivery` | | two kinds of envelope, two handlers |
| `Padding` | `_pad`, `_strip_padding`, the paddings of `attachments.py` | operators and theorems |

Operators commented `Fault:` stand right before the definition they vary.  They
are not part of the specification: each is a plausible slip in that piece of code
(a missing guard, a forgotten step), used to confirm that some property notices.

### WsConnection

| State | Code |
|---|---|
| `conn`, `wire` | the `websockets` connection (external) and the frames it has buffered |
| `reader`, `keepalive`, `cancelled` | `_read_task`, `_keepalive_task`: where each is suspended or how it ended; on which `cancel()` was called |
| `rid`, `pending`, `fut` | `_request_id_seq`, the keys of `_pending_responses`, the futures |
| `queue`, `closed` | `_request_queue` with the sentinel, the event `_closed` |
| `closer` | for each caller, where in `close()` it is suspended, or how it left |
| `iterator`, `delivered` | `requests()` and, as history, what it has yielded |

One action is what one task does between two awaits that can suspend it.
`_request_queue.put` never suspends, since the queue is unbounded, so reading a frame and
queueing it is one step, and so is the whole `finally` of the read loop
(`EndReader`).  `_send_request` is inlined in the keepalive task, its only caller:
`KeepaliveWakes` draws the id and registers the future, `KeepaliveSent` is the
return of `conn.send`, then `KeepaliveAnswered` / `KeepaliveFailed` /
`KeepaliveCancelled` are the ways `await fut` ends.  `close()` is one action per
await, per way the awaited task ended: awaiting a cancelled task is suppressed,
awaiting one that died of an exception raises it again (`CloseRaisesRead`,
`CloseRaisesKeepalive`).

The library is modelled from its use: frames received before the end remain
readable after it (`ReadEnd` requires an empty `wire`), `send` raises
`ConnectionClosed` once the connection is gone and, while the closing handshake
is under way, waits for its end; the handshake ends, at the latest by the
library's `close_timeout` (`ConnCloses`).  The server may push, answer twice or
late or never, send text and garbage, close, or vanish.

Simplifications.  A frame that is not binary and a message of unknown type are
both `Noise`.  asyncio runs tasks in FIFO order, hence both tasks have started
before anyone can call `close()`; the model begins there.  `close()` steps over
a task that has already ended without suspending, while the model takes a step
for it: this only adds interleavings.  A cancellation that reaches a task
already inside `close()` (where `suppress` swallows it) is not modelled.

### Client

`Client` extends `WsConnection`: its variables are those of the socket plus the
program counters of `run`, `stop` and the receive task, the references
`_receive_task` and `_ws`, and two histories: `handled`, the requests whose
handlers all ended, and `acked`.  The iterator's steps are taken by the receive
task (`RecvTakes` conjoins `IteratorYields`), `CloseStart("run")` and
`CloseStart("stop")` by the two calls; the remaining socket steps run in
`SocketStep` once the dial succeeded.  Decrypting, building events and dispatching are one
phase, "handling": whatever they raise, short of cancellation, is logged and
contained, so it only matters whether the phase ended or was cancelled.  Pushes
that are not messages (queue/empty, unknown paths) pass through the same phase
with nothing to do.

`cancelReq` is a cancellation not yet delivered.  In a handler it skips the
`except Exception` but not the `finally`, so the acknowledgement is still sent
(`HandlersInterrupted`, then `AckSent` from "ackingCancelled").  `StopsTurn` is
asyncio's order of wake-ups: `run` has awaited the receive task first, so it is
resumed first; `stop` overtakes it only where it need not suspend at all.
In that case `run` finds `self._ws` to be `None` and ends with an
AttributeError (`RunFindsNoSocket`, reachable).  A `stop` that comes while `run`
is still dialling finds nothing and is lost (`StopFindsNothing`).

The model has one `run` and one `stop`; later runs and restarts are in `Delivery`.

### SessionFile, AtomicSession

A session is reduced to what must never go back: the next key of one sending
ratchet.  `Encrypt` uses a key, `Load` resumes at the stored one.
`save_session_file` is `SaveOpen` (snapshot, truncate `.tmp`), `SaveWrite` once
per piece of that snapshot, `SaveClose`, `SaveReplace` (chmod and rename); it never
awaits, so the saves of one process do not interleave with each other, but `Crash`
can fall between any two steps, and with `Exclusive = FALSE` another process's steps
too.  A snapshot is as long as the store it is of: `SaveOpen` takes one of any number
of pieces up to `MaxChunks`, and no two need be equally long.
Files are inodes: a descriptor stays on its inode when the name moves, which is
what makes a shared `.tmp` name delicate.  A load succeeds on one whole
snapshot and otherwise fails (`LoadFails`).

Two saves that overlap can spoil the file for good, without any kill: one truncates
the `.tmp` the other is writing, renames it, and the other's pieces stay in it, behind
a hole or around a shorter text.  The next load then fails.  What can be promised
is that only such saves do it.  The history `met` holds who is in a save that
overlapped another, `lone` says that the save that ended last met none.

`AtomicSession` says what is promised: a save is one step.  `SessionFile`
implements it under the mapping that maps an unfinished save to "running" and
the stored session to what the session path names (`ImplementsAtomicSession`).

Loss of unsynced data at a power failure is not modelled: the code calls no
fsync and the outcome would be the file system's.

### SendPipeline

| State | Code |
|---|---|
| `session`, `known` | `SessionsPart`, `IdentityPart.known` of `lib.rs`, per address |
| `pc`, `todo`, `bundle`, `msgs` | for each call of `send_text_message` or `send_group_text_message`: where it is suspended, the members left, `bundles` and `messages` of `_deliver_to_one` |
| `result` | history: what each member's `_deliver_to_one` came to |
| `device`, `lastReg` | the server's device registry (external) |
| `lapsed` | the sessions libsignal would call too old (external) |
| `sealed`, `accepted` | histories: messages encrypted, messages the server took |

`_deliver_to_one` suspends twice, in `_fetch_all_bundles` (`ServerGivesBundles`,
`FetchFails`) and in the PUT (`PutAnswered`, `PutFails`).  Between the two it runs
over all devices without suspending, so `Encrypts` is one step: for each target
it tries `encrypt`, installs the bundle if there is no usable session, encrypts
again.  `EncryptRefused` is the other way through that loop: a device that needs
a new session has an identity other than the recorded one, libsignal answers
`UntrustedIdentity`, which reaches Python as a `RuntimeError` and is re-raised
because it does not say "not found".  The devices the loop had reached by then
keep their advanced sessions, hence the choice of `before`; the order of the
devices is the server's.  `Finish` is the end of one recipient: an exception
ends a direct send and is contained in a group send; a cancellation is contained
in neither (`Cancelled`).  `UploadFails` covers what `_build_text_content` does
before any recipient is contacted.

Meanwhile the contact reinstalls, links and unlinks devices, and writes to us or
answers (`PeerInitiates`, `PeerAnswers`: `decrypt_prekey` and `decrypt_signal`
as the receive task calls them, seen from sending).

External, and modelled from its use.  The server asks for exactly one message
for each device that is not the sender's (409 otherwise) and then compares registration ids
(410).  libsignal's session is the installation it was made with, a number
(`base`) that tells successive sessions with one address apart, the next message
key, and whether the other side has answered; an unanswered one may become "not
found", because `encrypt` passes the present time.  Registration ids do not
collide, and our own account does not change its keys.

Abstracted.  The content of a message, its timestamp and attachments; archived
sessions, which decrypt late messages but never encrypt.  Statuses other than
2xx, 409 and 410, time-outs and dropped connections are one outcome, "failed",
with the PUT accepted or not.

### Provisioning

| State | Code |
|---|---|
| `call`, `pc`, `ended` | the `link` commands of one user, one after the other; where the present one is suspended; how each ended |
| `now`, `due`, `budget` | the loop's clock since the command began; the timer armed; `min(remaining, WS_ATTEMPT_TIMEOUT)` |
| `sock`, `line`, `inbox`, `keepalive` | the provisioning socket of this attempt as its consumer sees it (`WsConnection` has it in detail): pushes in order, then the end; whether its keepalive task has died |
| `uuid`, `shown`, `held` | `session_uuid`, the URLs given to `on_url`, the envelope |
| `then` | what the `try` of `_wait_for_envelope` was doing when its `finally` began |
| `request`, `devices` | the link request of each command with its answer, and the server's registry (external) |
| `session`, `saved` | `Client._store` and the session file |

An attempt is `Dialled` or `DialFails`, then `GetAddress`, the callback
(`UrlReturns`, `UrlRaises`; it may also hang), and one of four endings:
`GetEnvelope`, `AttemptExpires`, `AttemptTimesOut`, `AckRaises`.  All pass through
the `finally`, which closes the socket; that raises instead if the keepalive has
died (`CloseRaises`), whatever the `try` had in hand.  Acknowledging on an open
socket does not suspend, so taking the envelope and returning it is one step and no timer
falls in between.  After the envelope everything up to the link request runs
without a wait (`CloseThenLinks`); a body that does not decrypt, or a message
without its keys, ends the call (`CloseThenRejects`).  Keys are named by the
command that generated them, which is all `SavedSessionIsLinked` needs to tell
whose they are.

A 200 has three forms.  It names the device (`"linked"`); it leaves `deviceId` out,
and the session takes `PRIMARY_DEVICE_ID` for it (`"unnamed"`); or its body does
not parse (`"unreadable"`), which raises.  The last raises after the device was linked, and
so does a key in the envelope that cannot be made into an identity afterwards (a push of kind
`longKey`): `PutAnswerRaises` ends the command with the cause "answer".

Abstracted: the layout of URL and JSON, the PNI identity, the profile key.  The
socket's expiry is the server's choice; its time is not modelled.  Time moves
only while no timer is due.

### Handlers, Delivery

| State | Code |
|---|---|
| `byType`, `current`, `tasks` | `_by_type`; the event being dispatched; gather's tasks |
| `interrupted` | the dispatch was cancelled |
| `peer`, `mail`, `queue` | the writing device, all it sent, what the server still holds (external) |
| `conn`, `inbox` | the connection and the requests pushed on it |
| `pc`, `msg`, `events`, `stopping` | `run_receive_loop`: where it is, the request, the events left, `stop()` under way |
| `store`, `saved` | the session in memory and on file: pinned identity, ratchet keys generated, message keys used |
| `due` | history: how often each handler was registered when the event came |
| `reads` | history: how often each message was decrypted, but for what a kill undid |
| `settled` | history: messages dispatched to the end, or kept from it by a stop, a kill or their content |
| `lost` | history: chains whose ratchet keys a kill destroyed |

`Take` is `_handle_request` up to its first await: parse, decrypt, build the
events, create the handler tasks.  Handlers then run in any interleaving
(`TaskStarts` in order of creation, `TaskEnds` in any), may register and
unregister, and the next event follows when all have ended.  gather with
`return_exceptions` treats a handler that raises like one that returns, so one
action stands for both.  A cancelled dispatch waits for its handlers, drops the
events left and still acknowledges.  `Ack` deletes the message on the server
unless the connection is gone.  The server pushes what it holds again on every
connection.

libsignal is external: a *chain* is a source of message keys.  A prekey message
can always open its session, since the signed and Kyber prekeys made at linking are
never replaced and marking a Kyber prekey used does nothing; a message of a later
chain needs the ratchet key it answers.  A key used once is a duplicate the
second time, an identity other than the pinned one is refused.  `SendOpens` is this
device's own first send: there is no session yet, so it opens one from a bundle, which may
be of an installation the peer has since given up, and pins that identity.
`Reply` is the arrival of a message of this device at the peer, who then writes on the
chain it made: either he takes up the session this device opened, if it was
meant for who he is now, or he moves on within the one he writes in.

Not modelled: a peer who holds two live sessions with this device and answers in the
older one; a send whose message is still under way when this process is killed.

Changes of the registry are made by running handlers only: between two
dispatches they would be as if a handler of the one before had made them.
`Patience` bounds them for each process.

### Padding

Pure operators: `Pad` and `StripPadding` of messages, `ZeroPad`, `Pkcs7` and their
removal for attachments.  The bucket of `_padded_size` is a floating-point curve;
the model takes any integer for it, even one below the length, for which Python adds
nothing.

## 3. The runs

| Run | Checks | Bounds | Shows |
|---|---|---|---|
| `ws_safety` | `TypeOK` `PushOrder` `GracefulCloseDeliversAll` `SentinelEndsQueue` `NoOrphanWaiter` `CloseLeavesNothing` `FuturesSettleOnce` | 3 pushes, 2 keepalives, 3 frames in flight, 2 callers of close() | order, completeness, futures, shutdown |
| `ws_close_errors` | `CloseRaisesSigsigErrors` (violated) | 1 / 1 / 1 | close() lets `websockets.ConnectionClosed` escape |
| `client` | `ClientTypeOK` `HandledInOrder` `AckedUnhandledOnlyByStop` `NoAckSkipped` `StopIsFinal` `LossEndsRun` `StopEndsRun` | 2 pushes, 1 keepalive, 1 frame in flight | acknowledgements, the race of run and stop |
| `session_file` | `SessionTypeOK` `SavesAreAtomic` `NoKeyReused` `ImplementsAtomicSession` | 3 keys, 3 uses of each, snapshots of 1 or 2 pieces, 2 kills, one process at a time | saves are atomic, keys do not come back |
| `session_file_shared` | `LoneSavesAreWhole` | 1 key, snapshots of 1 or 2 pieces, two processes at once, 1 kill | only saves that overlap can spoil the file, and a save that met no other repairs it |
| `session_file_torn` | `SavesAreAtomic` (violated) | the same | concurrent saves are not atomic |
| `send` | `SendTypeOK` `NoMessageKeyTwice` `SessionsMatchKnown` `ReturnMeansAccepted` `IdentityPinned` `RefusedOnlyByChange` `NewSessionsReadable` | 2 direct sends, a contact with 2 addresses, 3 registrations, 2 sessions per address | sends that interleave with each other, with received messages and with changes of devices |
| `send_group` | `GroupTriesEveryMember` `SendEnds` | 1 send to a group of 3 with ourselves among them, 2 registrations, 1 session per address | one member's failure stops neither the others nor the call |
| `provisioning` | `ProvisioningTypeOK` `SavedSessionIsLinked` `FailureLeavesNoDevice` `EnvelopeNotDiscarded` `EnvelopeForLastUrl` `WaitEndsInTime` `LinkingEnds` | 2 commands; per command 1 socket lost and 1 scan; deadline 3, attempt 2, dial and close 1 tick each | no stale address, no envelope thrown away by a timer, no session without its device, an end in time |
| `provisioning_expiry` | `ExpiryReconnects` (violated) | 1 command, the same otherwise | a socket that expires can end the linking |
| `delivery` | `DeliveryTypeOK` `RepeatOnlyAfterRollback` `ForgottenOnlyHandled` `UnreadableOnlyForCause` `DispatchIsComplete` | 2 messages of 2 kinds, 1 new session or identity of the peer, 1 kill, any number of stops, lost connections, saves, restarts and sends, 1 change of the registry per process | what may be repeated, lost or unreadable; every handler is called |
| `send_stale` | `StaleSessionsAreReported` (violated) | 2 direct sends, 2 registrations, 2 sessions per address | a message in a session with a replaced installation is accepted |

Why the bounds suffice.  Order among pushes needs three requests to show an
overtaking that is not a mere swap at the end; two keepalive ids make a late or repeated answer
meet a newer waiter; three frames in flight hold a push, an answer and garbage
together, so that an ending can fall before, between and after them.  Two callers
are as many as the program has.  Liveness is checked in `client`, on all
interleavings of one task of each sort: each obligation concerns one task and one
future.  Snapshots of one or two
pieces give a truncated, a half-written and a whole file, and one save that leaves
a hole or a foreign tail in another's;
two kills separate a kill in the first command from one in the recovering
command.  A contact with a primary and one further device has all the ways in which the
devices in a bundle and the registered ones can differ: missing, extra,
replaced.  Three registrations let the contact start over after the first send
and again during the second, two sessions per address let a session be replaced
while a message of the earlier one is under way.  In the group run only the loop
is in question, and each member fails or not independently of the others.
Two link commands show what one leaves for the next.  A deadline of three ticks
with attempts of two has a full attempt, a cut-short one and one begun at the
deadline's edge.  Two messages make an order, a duplicate and a message in the
session another opened; one of their kinds gives two events, one none; one handler is registered for one class of events, one for `Event` and so
for all.  Plain receipts and senders that do not parse are left to the proofs, which
hold for every set of envelopes and of registrations.  What the peer does after its last
message is cut off (`MayWrite`), as no message would carry it.  One kill is enough for a rollback, since every state
after it is again a state before one.  In `delivery` TLC checks for deadlock
too: the client can always be stopped or started.  The others do not, as
quiescence is a legitimate end there: everything closed, or nothing left within the bounds.  That
nobody waits for ever where it matters is what the liveness properties say.

### Fairness

`WF` on the steps of the read task, the keepalive task, the receive task, each
call of `close()`, and `run`/`stop` once called: the event loop runs every ready
task and a sleep ends.  `WF` on `ConnCloses`: the library bounds the closing
handshake.  `WF` on the receive task includes "handling": handlers end, or end
when cancelled; a handler that swallows its cancellation would break the
liveness of `stop`.  `WF` on the steps of
each send: `HttpClient` gives every request a timeout, so both awaits end.  In
`Provisioning`, `WF` on the dial, the attempt, the link request and the clock:
the libraries bound the dial, the close and the request, and a due timer fires.
`on_url` need not return, as the attempt's timer covers it, and neither server nor
primary need do anything.  No
fairness on the server, on losing the connection, on the contact's devices, or on
anybody calling `run`, `stop` or `close`: in particular a keepalive answer that
never comes is awaited for ever, as in the code, which sets no timeout there.

### What the violations mean

* `ws_close_errors`.  README.md says "All exceptions derive from
  `sigsig.SigsigError`".  If the keepalive fires after the connection has gone
  and before the read task has noticed it, `conn.send` raises
  `websockets.ConnectionClosed`; `except TransportError` (ws.py:250) misses it, the
  task dies of it, and `close()` re-raises it to `run`, `stop` or `link_device`.
* `session_file_torn`.  docs/ARCHITECTURE.md says "`save_session_file` writes
  atomically (`.tmp` + rename)".  The name of the temporary file is fixed, so of
  two commands on one session one can truncate the file the other renames.
* `send_stale`.  README.md tells the caller to expect `StaleDevices` when "some of
  our sessions are stale".  The registration id the server compares comes from the bundle
  fetched a moment ago, also when the ciphertext comes from a session older than
  that.  After a contact has linked a device anew the server therefore accepts
  messages that device cannot read, and 410 is answered only if the device
  changes between fetch and PUT (`RefusedOnlyByChange`).  That new sessions are
  not affected is `NewSessionsReadable`.

* `provisioning_expiry`.  flow.py says that the server closes the provisioning
  socket after about 90 seconds "regardless of keepalives", so `link_device`
  "transparently reconnects".  It does if the iteration reports the end.  If the
  keepalive sends between the server's close and the read task noticing it, its task
  dies and `ws.close()` in the `finally` re-raises `ConnectionClosed`; if a push is
  taken in that moment, its acknowledgement raises it.  Then linking ends.

Met without a property of its own.  A plain receipt is not decrypted, so it reaches
the handlers again whenever its acknowledgement was lost, which
`RepeatOnlyAfterRollback` (about decryptions) does not count.  handlers.py promises "registration order" and
exceptions "raised after the fan-out completes"; the code starts handlers of the
exact class before those of the base class, runs them concurrently, and only logs
what they raise.

## 4. The proofs

Every safety invariant, every action property and the refinement that some
passing run checks is proved as well; only liveness is left to TLC.  The runs
show a property on a small instance, the theorem for every value of the
constants the assumptions allow.

`WsConnectionProofs` proves, for every set of callers and all bounds in `Nat`
(assumption `BoundsAreNatural`):

| Theorem | Property |
|---|---|
| `TypeCorrect` | `TypeOK` |
| `NoWaiterOrphaned` | `NoOrphanWaiter` |
| `CloseIsComplete` | `CloseLeavesNothing` |
| `SentinelIsLast` | `SentinelEndsQueue` |
| `FuturesAreSettledOnce` | `FuturesSettleOnce` |
| `PushesInOrder` | `PushOrder` |
| `GracefulCloseIsComplete` | `GracefulCloseDeliversAll` |

The argument for the first five.  None of these is inductive alone.  The inductive invariant `IInv`
adds what ties the parts together:

* futures: `pending` holds at most the id of the keepalive under way; an id not
  yet drawn has no future; while the read task lives, the future awaited is
  registered, hence will be failed when it ends.  This gives `NoOrphanWaiter`.
* closers: how far a caller has come implies what has ended: past the read task
  it is done, past the keepalive both are, and whoever waits for the connection
  has found it closing or closed.  Endings are final, which makes this
  independent of how many callers there are.  This gives `CloseLeavesNothing`.
* wire and queue: requests on the wire have positive ids, so none can be taken
  for the sentinel; the sentinel is queued by the step that ends the read task,
  the only one that queues anything.  This gives `SentinelEndsQueue`.

Each action has its step, grouped by task (`ServerType`, `ReaderType`, ... and
`FuturesNext`, `CloserNext`, `WireNext`, `QueueNext`), combined in `IInvNext`.
`FuturesSettleOnce` follows action by action from the same invariant.  Setting a future that is
done raises in asyncio, also where the value would be the same: `Settle` gives it the
state "invalid", which the property excludes.

The last two follow the pushes from the wire to the iteration with a second
invariant, `OInv` (`OrderInvariance`), relative to the first:

* `ReceivedInv`: what was delivered, then what is queued before the sentinel,
  counts up from 1, and `Received` is where the count stands.
* `OnWireInv`: the requests on the wire go on from there in order; unless the
  connection dropped, they are all that were pushed and not yet received.
* `EndInv`: a read task that ended without an error left nothing on the wire of a
  closed connection, an iteration that ended left nothing in the queue.

`ClientProofs` proves, for all bounds in `Nat` (assumptions `BoundsAreNatural` and
`TwoClosers`: the socket's callers of `close()` are `run` and `stop`):

| Theorem | Property |
|---|---|
| `ClientUsesSocket` | every step of the client is a step of `WsConnection` or leaves it alone |
| `ClientTypeCorrect` | `ClientTypeOK` |
| `HandlersFollowPushes` | `HandledInOrder` |
| `OnlyStopLosesRequests` | `AckedUnhandledOnlyByStop` |
| `AcksFollowRequests` | `NoAckSkipped` |
| `StopLeavesNothing` | `StopIsFinal` |

The argument.  `ClientStepsSocket` shows that the client refines the socket's
specification, so `IInv` and `OInv` hold of its socket without another proof.
`CInv` ties the three tasks to it:

* `RecvInv`: there is a receive task only once `run` has connected, and it ends
  cancelled only if it was asked to stop.
* `HandledInv`: at each position of the task, whether the handlers have caught up
  with the socket or are one request behind.  With `PushOrder` this gives
  `HandledInOrder` and, with the next, `AckedUnhandledOnlyByStop`.
* `AckInv`: what was taken is acknowledged before the next is taken, as long as
  the connection is open; nothing reopens it (`SocketFrame`).
* `StopInv`: the reference to the socket is cleared only behind a `close()` that
  returned, by whichever of `run` and `stop` called it; and what the socket
  guarantees of such a `close()` is `CloseLeavesNothing`.  This gives `StopIsFinal`
  also for the `stop` that finds the reference already cleared.

`SendPipelineProofs` proves, for all sets of sends and finite sets of addresses,
every group and all positive bounds (assumption `SendAssumption`):

| Theorem | Property |
|---|---|
| `SendTypes` | `SendTypeOK` |
| `MessageKeysUsedOnce` | `NoMessageKeyTwice` |
| `SessionsAreWithKnown` | `SessionsMatchKnown` |
| `IdentitiesPinned` | `IdentityPinned` |
| `ReturnsAreAccepted` | `ReturnMeansAccepted` |
| `GroupsAreTried` | `GroupTriesEveryMember` |
| `RefusalsMeanChange` | `RefusedOnlyByChange` |
| `NewSessionsAreReadable` | `NewSessionsReadable` |

The argument.  The invariant `SInv` (theorem `SendInvariant`) adds to these:

* `SealedInv`: every message sealed used a key of the present session with its
  address before the next one, or of a session before it.  What `encrypt` will use
  next is therefore new, which makes `NoMessageKeyTwice` inductive.  It says
  nothing about the sends: that two of them fetched the same bundles does not
  matter, because looking a session up and advancing it is one step.
* `SendInv`: a send at work on a recipient has one, and puts up only what it
  sealed.
* `BaseInv`: where a new session can be needed there is room for its number, so the bound
  never cuts off a send.

`ReadyRecord` says what encrypting finds or installs, `EncryptedStore` that
encrypting to any set of targets keeps the part of `SInv` about the store;
`Encrypts` and `EncryptRefused` are two uses of it.  The remaining steps leave
either the store or the sends alone (`StoreKept`, `SendsKept`), and one lemma
per group covers them (`DeviceSteps`, `StoreSteps`, `SendSteps`,
`EncryptSteps`), combined in `SInvNext`.  For `IdentityPinned` each way to
`save_identity` is preceded by a trust check, or uses a session whose identity is
the recorded one by `SessionsMatchKnown`.

The last four speak of one send and the server, and need two more invariants:

* `FitsInv`: what a send keeps fits together.  It puts one message for each device
  in its bundles, a fresh one for the installation in the bundle; a direct send
  has returned only behind an accepted put; a group send has a result exactly
  for the members before the one it is at, ourselves excepted.
  `ActionFrame` says that a send's steps leave the others' state alone.
* `SeenInv`: a registration id is given out once, so two installations seen
  anywhere (at an address, in a send's bundles) with the same id are the same.  The
  server compares ids only; this is why a put it accepts suits the
  installations, and one it refuses means that one of them changed.

`SessionFileProofs` proves, for every finite set of processes, snapshots of all
lengths and any number of kills (assumption `SessionFileAssumption`); the middle three
when one process runs at a time (`Exclusive`):

| Theorem | Property |
|---|---|
| `SessionTypes` | `SessionTypeOK` |
| `SavesAtomic` | `SavesAreAtomic` |
| `KeysUsedOnce` | `NoKeyReused` |
| `SessionIsAtomic` | `ImplementsAtomicSession` |
| `LoneSavesWhole` | `LoneSavesAreWhole` |

The argument.  `SharedInv` needs no assumption on how many processes run:

* `FdInv`, `PathInv`: only a save has a descriptor, and the two names never
  name one inode.
* `OwnTmpInv`: a save that has met no other is the only one under way, and what is in
  `.tmp` is exactly what it has written so far, from the first piece on, even if a
  killed save had left it longer; at the rename that is the whole snapshot.
* `FileInv`: after such a rename the path holds that snapshot, and nobody has its
  inode open.  No later write or truncation therefore reaches it, until another
  rename moves the path.

This gives `LoneSavesAreWhole`.  That it cannot be had for saves that overlap is what
`session_file_torn` shows.  With `Exclusive`, `SoleInv` adds:

* `AloneInv`, `RecordedInv`: one process at a time, hence no save ever meets another
  (`met = {}`, `lone`), and the file is always that of the save that ended last.
* `HeldInv`: no load fails, no save loses its `.tmp`, and what is being saved
  is what the store holds.
* `KeysInv`: without kills, the keys from the next one on are unused, where the next
  one is that of the running store or, if none runs, that of the file.

For the refinement (`StepIsAtomic`) the rename is the atomic save, opening, writing and
closing change nothing stored, and exits and kills are leaving.

`ProvisioningProofs` proves, for all timeouts and every number of commands,
sockets and scans (assumption `ProvisioningBounds`):

| Theorem | Property |
|---|---|
| `ProvisioningTypes` | `ProvisioningTypeOK` |
| `WaitsEndInTime` | `WaitEndsInTime` |
| `EnvelopesKept` | `EnvelopeNotDiscarded` |
| `EnvelopesForLastUrl` | `EnvelopeForLastUrl` |
| `FailuresLeaveNoDevice` | `FailureLeavesNoDevice` |
| `SavedSessionsAreLinked` | `SavedSessionIsLinked` |

The argument, by the parts of `IInv`:

* `AddressInv`, `LineInv`: there is a socket only while an attempt is at work, and
  until its address is taken nothing else can be in its inbox, since no URL names it
  yet; afterwards the last URL names it.  This gives `EnvelopeForLastUrl`.
* `HeldInv`, `AckedInv`: an attempt that has an envelope is on its way to return it,
  also through the close in its `finally`.  This gives `EnvelopeNotDiscarded`.
* `TimeInv`: what each wait may still take of the deadline.  The attempt's time is
  measured before the dial, hence the dial's time on top; then that of the close.
* `DevicesInv`, `RequestInv`: each command sends its request once, after the waiting,
  and the server has a device exactly for the requests it accepted, whatever it
  answered.  Most failures come before the request or are its refusal, which gives
  `FailureLeavesNoDevice`; the others are named there, an answer that cannot be used
  among them.
* `SessionInv`: a session is that of one of the server's devices, under the number in
  the answer or, where the answer has none, under `PRIMARY_DEVICE_ID`; later commands
  do not touch it.

`Padding` proves, for every sequence of bytes:

| Theorem | States |
|---|---|
| `PadIsBounded` | the padding of a message adds 1 to 80 bytes and ends with a block, or one byte before its end |
| `StripInvertsPad` | `_strip_padding` undoes `_pad` |
| `TrimInvertsPadding` | an attachment survives both its paddings, whatever the bucket |

The argument for `StripInvertsPad` is `OnlyTerminator`: behind the byte 0x80 that
`_pad` appends there are only zeros, so the scan from the end stops at it and at
no byte of the body, whatever the body ends with.

`HandlersProofs` proves, for every set of handlers and all registrations:

| Theorem | States |
|---|---|
| `MatchingCoversRegistrations` | what a dispatch gathers has each handler as often as it is registered for the event's class or for `Event` |

and, for whoever composes it, that each step of a dispatch keeps `HandlersInv`: the
handlers called are those due when the event came (`CalledInv`), and one is
skipped only by an interruption (`SkippedInv`).  `GatheredIsComplete` is the
consequence: a dispatch that is over has called them all to their end.  The
community operators `FlattenSeq` and `RemoveFirst` used here rest on a recursive
function and on the least position of a set: `FlattenTwo` unfolds the first at its
two sequences, `LeastElement` gives the second by well-foundedness of the naturals.
No induction over data is needed.

`DeliveryProofs` proves, for every set of envelopes and of handlers and any number
of messages, resets, stops, kills and lost connections (assumptions
`DeliveryConstants`, `HandlersConstants`):

| Theorem | Property |
|---|---|
| `DeliveryTypeCorrect` | `DeliveryTypeOK` |
| `RepeatsFollowKills` | `RepeatOnlyAfterRollback` |
| `NothingForgotten` | `ForgottenOnlyHandled` |
| `UnreadableHasCause` | `UnreadableOnlyForCause` |
| `EveryHandlerIsCalled` | `DispatchIsComplete` |

The argument.  What counts is the session `Held`: the one in memory while the
process runs, the saved one when it does not.  Saves leave it alone, a start
takes it over, and only a kill sets it back; `reads` then forgets the decryptions it
undid, and `lost` records the ratchet keys it destroyed.  `DeliveryInv` says of it:

* `ReadInv`: a message counted as read is known to it.  libsignal refuses what the
  session knows, which makes `RepeatOnlyAfterRollback` inductive.
* `ChainInv`: a message without prekeys was sent to a ratchet key that is still
  held or was destroyed.  The peer only answers keys it has seen, so no order of
  stops and lost connections makes one unreadable.
* `SessionInv`, `IdentInv`: the identity a session pins, and that of every message, is one the
  peer has had by now, whether a message or a bundle brought it; a ratchet key the peer
  may answer is one this device holds.  With `ChainInv` this gives `UnreadableOnlyForCause`.
* `SettledInv`: what the session in memory or in the file knows is settled, or
  is the message being dispatched; only a settled message is acknowledged.  A
  kill that leaves the file ahead of the handlers counts the message at hand as settled.
  This gives `ForgottenOnlyHandled`.

`DispatchIsComplete` is `GatheredIsComplete` at the steps that leave an event.

### What is not proved

Liveness: `PROJECT.json` and the configurations name the temporal properties, which
TLC checks.  Liveness under fairness and `ENABLED` are out of the
prover's reach.  So is induction over data; it is needed nowhere, as `PushOrder` and the
events of a message are stated by positions and by concatenation, not
with a filter over a sequence.  `ClientUsesSocket` is about steps only: that
`ClientFairness` is as fair to the socket as its own specification assumes would again
need `ENABLED`.

## 5. Plan

Modelled so far: the socket, the client, the session file, sending, linking,
dispatch and delivery.  What is left, in order:

1. `Client`: `stop` called by a handler, `load_session` and `qr_login` during a run,
   with the proofs of `ClientProofs` extended to them.
2. An abstract mailbox (each message is handed over once, or settled for a stated reason) that
   `Delivery` implements, the refinement proved from `DeliveryInv`.

## 6. Not modelled, and why

Cryptography (AES, HKDF, X25519, libsignal, zkgroup) is data without states.
Group fetches, uploads and downloads are single requests without retry or shared
state.  TLS, protobuf framing and JSON are I/O or conversions no
property distinguishes.  The command line matters only where it links, listens,
loads and saves.  Power failures: the code calls no fsync, and the outcome would
be the file system's.  The number of one-time prekeys: none is ever uploaded, so
none is consumed.
