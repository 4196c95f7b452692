# maany-mpc-core in TLA+

A TLA+ model of maany-mpc-core: its two-party session engine, the sessions
built on it, and the coordinators that drive them. Paths are relative to the
repository's root; `bridge.cpp` is `cpp/src/bridge.cpp`, `maany_mpc.cc` is
`cpp/src/maany_mpc.cc`.

## The system

A wallet key is split between a *device* and a *server*. Key generation, share
refresh and signing are two-party protocols of the external cb-mpc library,
written as blocking code: send, receive, receive, send. The repository turns
such a protocol inside out. A worker thread runs it; the application calls
`Step` with the peer's last message and gets the next outbound message back.

| component | state | operations | who calls it |
|---|---|---|---|
| `AsyncSession` (`bridge.cpp` 272-432) | one mutex, one condition variable `cv_`, `worker_done_`, `aborted_`, `waiting_for_inbound_`, inbound queue, one outbound slot, `fatal_`, `wait_request_id_` | `OnSend`, `OnReceive` (worker); `AwaitStep`, `EnsureWorkerFinished`, destructor (caller); `Fail`, end of worker | the protocol through `FiberJob`; the derived sessions |
| `DkgSessionImpl`, `RefreshSessionImpl` (472-576) | `key_`, `key_ready_` | `Step`, `Finalize`, `Worker` | C API |
| `SignSessionImpl` (578-697) | `message_`, `message_ready_`, `signature_ready_`, with mutexes and a condition variable of their own | `SetMessage`, `Step`, `Finalize`, `Worker` | C API |
| bridge context (699-910) | none between calls; key blobs, backup records and shares | create sessions, export, import, backup create and restore | C API |
| C API (`maany_mpc.cc`) | handles that own a session or a keypair and point to their context | new, step, finalize, free, buffers, backup | the bindings, C++ tests |
| Node addon (`bindings/node/addon.cc`) | wrapped handles, asynchronous steps on the libuv pool, finalizers | the C API for JavaScript | coordinator-node |
| React Native host objects (`bindings/rn*/ios/cpp`) | wrapped handles, synchronous steps | the C API for JavaScript | coordinator-rn |
| coordinator-node (`packages/coordinator-node`) | per-run loop variables, transport queues, session map, sockets, storage | `runDkg`, `runSign`, `CoordinatorServer`, storage, share encryption | example server |
| coordinator-rn (`packages/coordinator-rn`) | the same on the device, and the secure storage modules | `runDkg`, `runSign`, secure storage | the wallet application |

Interactions: the protocol calls back into the session from the worker thread;
the application calls into it from its own thread; the two meet only under the
session's mutex, or, in three places, without it. Two sessions meet only through
messages that an application carries from one `Step` to the other.

What is hard:

- *Interleaving.* Every `Step` races with a worker; three notifications come
  after the mutex is released; `wait_request_id_` is read without the mutex;
  the signing worker reads `aborted_` under a mutex that does not guard it; the
  destructor of the derived class runs before the worker is joined.
- *Ordering.* The last outbound message and the end of the worker become
  visible in either order; `Done` must not hide a message.
- *Liveness.* `Step`, `Finalize` and the destructor all block. A `Step` that is
  wrongly answered makes the peer's next `Step` wait for ever.
- *Failure.* The protocol may fail anywhere, an allocation may fail after the
  state was consumed, a socket may close and come back.

What makes each component correct is in "Runs and properties" for the modelled
ones and in "Plan" for the others. `PROJECT.json` lists all components and, under
hazards, each place where the code could go wrong in a way a test hardly reaches.

## Modules

```
AsyncSession --+-- DkgSession --+-- DualDkg
               |                +-- RemoteDkg
               +-- SignSession
StepSession        what a session promises:      DkgSession and CApi implement it
Exchange           what a key generation promises: DualDkg and RemoteDkg implement it
CApi --+-- HostObjects
       +-- NodeAddon               HostObjects is what NodeAddon implements
CoordinatorServer
Backup
AsyncSessionProofs --+-- DkgSessionProofs --+-- DualDkgProofs
                     |                      +-- RemoteDkgProofs
                     +-- SignSessionProofs
NodeAddonProofs (CApi and NodeAddon)   CoordinatorServerProofs   BackupProofs
```

- **AsyncSession** models the base class. Every critical section is one action:
  a section that ends by waiting on `cv_` releases the mutex there, so it is
  split into the part before the wait and the part after it. `asleep[s]` is the
  set of threads that wait on `cv_`; notify_all empties it, and `SpuriousWake`
  removes a thread that nobody notified. `wpc` is the worker's place in the
  code, `cpc` the caller's. A protocol is a *script*, a sequence of sends and
  receives, and may fail (`Fail`) at every point of it; what the messages hold
  is abstracted to their number. `seen` is the value the caller last saw under
  the mutex: the unguarded read of `wait_request_id_` may return any value since.
  `sent`, `handed` and `consumed` are history variables.
  The caller is any client: it calls `Step` with or without a message, `Finalize`
  and the destructor in any order, one call at a time. As the C API requires,
  the client does not call into a session it is freeing.
- **DkgSession** extends it with `key_ready_` and `Finalize`, for key generation
  and for refresh. `Publish` of the base module is the point where a derived
  class stores its result; `PublishKey` is that step with the key stored.
- **SignSession** extends it with the message, the worker's wait on
  `message_cv_` and the signature. `SetMessage` has its own mutex and so may
  come in the middle of a `Step`. `sawAbort` is `aborted_` as the wait on
  `message_cv_` reads it: written under another mutex, it becomes visible some
  time after the write. A worker that gives up while it waits for its message
  ends without an error, so a SignSession is not a plain AsyncSession.
- **StepSession** is a session as its caller sees it: running until it answers
  done or failed, which it never takes back, and a key given out at most once.
- **CApi** models `maany_mpc.cc` over StepSession: one action per function, every
  handle the object it owns and whether it is still there, and every allocation
  free to fail: the call then answers "memory", or, when it was copying its input
  (`CopyInFails`), an invalid argument ("refused"), or it answers nothing: an
  exception leaves `maany_mpc_backup_restore` (`Throws`), and a caller in C++ may
  catch it or the program ends. What a call has done by the time it fails is in the action
  (`dkg_finalize` has taken the key and dropped the session before it allocates
  the handle; a step has taken the message before it copies it). `lost` and
  `stray` record what a session gave out and no caller got, and buffers left in
  the caller's structures; `torn` that freed memory was used; `hung` a call that
  never returns or that an exception ended. The client is one thread that passes live handles and a context
  it has not shut down, but may shut down before it frees.
- **HostObjects** puts JavaScript objects around those handles as the two React
  Native bindings do: every call runs to its end on the JavaScript thread and
  keeps its objects alive.
- **NodeAddon** is the Node binding: the same objects, but the two step functions
  queue a job for the libuv pool. A job keeps the addresses of the context's and
  the session's object, looks into both when it starts (`Start`), steps the
  session without looking again (`DkgStepExecute`, `SignStepExecute`), gives the
  buffer back to whatever context the object holds by then (`Release`), and is
  settled on the JavaScript thread (`DkgStepComplete`, `SignStepComplete`).
  Meanwhile JavaScript may free, finalize, shut down, or drop an object that the
  collector then takes. `hasty` records that something was freed under a step
  that uses it. An exception out of the library ends the process, with all jobs
  (`Died`). After the first use of freed memory the model stops: what follows
  is undefined.
- **Backup** models `CreateBackup` and `RestoreBackup` with the options as the two
  bindings read them. A share is the value of a polynomial over the field of the
  curve's order, a prime, computed by Horner's rule and undone by Lagrange's
  formula at 0 (sums and products over sets, as recursive functions: cb-mpc's side,
  marked external); the cipher opens with the secret and label it was closed with.
  Shares
  may be missing, one may be foreign or damaged, and the record's unprotected
  fields (threshold, count, label) may have been changed.
- **DualDkg** composes two DkgSessions with `runDkg` of coordinator-node in mode
  `dual` and its `InMemoryTransport`: the round-robin loop that the repository's
  README and tests also run.
- **Exchange** is the abstract specification of a run: two parties talk, each
  hears what the other said once and in order, and a key comes out only on the
  side that has heard everything its peer said. `CarriesExchange` states that
  DualDkg and RemoteDkg implement it.
- **RemoteDkg** composes two DkgSessions with two programs in two processes:
  `runDkg` of coordinator-node in mode `server-only` (step, send, wait), inside the
  intent handler of `examples/node-coordinator-server` (save, send the frame
  `0xff00ff00`, clean the session up), and `runDkg` of coordinator-rn in mode
  `device-only` (wait, step, send). Each process has a `WebSocketTransport`:
  `mail[p]` is its queue for its own participant, `wire[p]` what the socket has
  not yet delivered. `link` is the socket; `Disconnect` may break it at any time,
  `ServerSeesClose` is the cleanup under a running protocol. A JavaScript thread
  inside a native call handles no events (`Busy`): a step blocks the device's
  thread but not the server's, a finalize blocks both. The completion signal is
  an ordinary frame to the device's loop and steps its session once more.
- **CoordinatorServer** models `server.ts` with the `WebSocketTransport` of each
  session and the example's handler for any intent, here only a loop that takes
  `Rounds` frames and may fail; what a handler does with one connection is
  RemoteDkg's subject. A session is named after the socket whose hello created it;
  `sessions` is the map, `holder` a session's `state.socket`, `route` the socket
  its transport has for the device, `joined` the session a socket's frames go to.
  Everything that runs between two awaits of the one JavaScript thread is one
  action: `Conclude` of a signing handler includes the cleanup, that of a key
  generation does not, because the wait for a backup lies between. Devices choose
  their session ids, and may choose the same one: then they share a session, two
  handlers run on one context, and each end cleans up whatever the id stands for.
  The README of coordinator-node asks for one id per connection; `Alone(k)` says
  that k's id is its own, and the properties that need it say so.

A protocol of DualDkg and RemoteDkg is a pair of scripts that make a `Conversation`:
what one sends the other receives, and who has spoken waits for the answer before it
speaks again. The library's two-party protocols are of this kind, and the single
outbound slot has room for no others.

- The `*Proofs` modules hold the theorems; `MC*` modules give the constants their
  values for TLC.

Definitions commented *Slip* are deliberately wrong variants of the definition
that follows them: each one breaks a property, which shows that the property
constrains the code (see `mutants` in `PROJECT.json`).

## Runs and properties

| run | module, cfg | what it shows |
|---|---|---|
| dkg | MCDkgSession | of the base class, through the session that uses all of it: `NoLostWakeup`, `DoneIsFinal`, `HandedInOrder`; `Step`, `Finalize` and free return except in the situations the properties name. Of the session: `DoneMeansKey`, `KeyOnlyFromSuccess`, `KeepsPromise` |
| dkg_free | MCDkgSession, MCDkgFree.cfg | finding 1 |
| sign | MCSignSession | `SignsFirstMessage`, `SignatureOnlyFromSuccess`, `SilentUntilMessage`, `SignStepReturns` |
| sign_free | MCSignSession, MCSignFree.cfg | finding 2 |
| dual | MCDualDkg | `FinalizeNeverWaits`, `BothKeysOrNone`, `CarriesExchange`, `TerminatesUnlessStuck` |
| dual_hang | MCDualDkg, MCDualHang.cfg | finding 3 |
| remote | MCRemoteDkg | `FinalizeNeverBlocks`, `SharesMatch`, `CarriesExchange`, `EndsUnlessOverlooked`, with disconnects, failed saves and failing protocols |
| remote_attach | MCRemoteDkg, MCRemoteAttach.cfg | finding 4 |
| server | MCCoordinatorServer | `ContextOfMap`, `HeldByItsOwn`, `SparesOthers`, `OwnFrames`, `FinishedIsClosed`, `StopHeldUp` |
| capi | MCCApi | `KeyConserved`, `RetrySafe`, `KeepsPromise`, with an allocation failing anywhere in the library, whichever way the call reports it |
| addon | MCNodeAddon | `WrappersHold`, `SafeUnlessHasty`, `BehavesLikeHost`, `StepsSettle`, with free, finalize, shutdown and the collector at any moment |
| backup | MCBackup | `BindingsAgree`, `RestoreSound`, `RestoreComplete`, `FewSharesTellNothing`, for every option of a small set and every selection of shares |

The type invariants of AsyncSession and CoordinatorServer are checked in *dkg* and
*server*; those of DkgSession, SignSession, CApi, NodeAddon and Backup are proved
instead (below), and so is `IssuedOnce`.

Bounds. *dkg*: one session (sessions share nothing), every script of
up to three operations, so that each of send and receive comes first, last,
and after each other; two inbound messages, one more than a script of
alternating operations needs. *sign*: one session of party p1, every script of
one or two operations, one inbound message, two messages to sign, at most two
accepted. *dual*: alternating protocols of two to four messages started by
either side, and a loop bound of 6, which no run without a stuck `Step` reaches
(128 in the code). *remote*: the same protocols, one session and one connection
that is never replaced, and a bound of 5 steps for each loop (256 and 512 in the
code); a session of four operations is stepped at most three times.
*remote_attach* needs only those the server starts. *server*: two devices, one connection each, two
ids of which the second device chooses either, handlers of one frame and up to two
frames per device, so that a frame may be left over, come late or be taken by the
other's handler. A third device adds a third name for the same roles: one that
creates a session, one that takes it over. *capi*: three handles, enough for a
session, the keypair it yields and a session made from that; handles are
interchangeable (symmetry, no liveness property in the run). *addon*: two handles,
two jobs, a pool of one thread (four in libuv): one step may hold every thread
while another waits in the queue, which is what a larger pool needs five steps
for. *backup*: a field of five elements, up to three shares, and as options a
number below minus one half, zero, a half, one, one and a half, two, three,
NaN or nothing.

Nothing in the models of sessions depends on the length of a script except through
whether it is empty, so longer scripts repeat the same situations.

Fairness. Each thread that can run does (`WF` of the worker's actions and of the
actions of a call that was made): the operating system's scheduler. Nobody has
to make a call, except the drivers of DualDkg and RemoteDkg, which are
loops and go on: their timers fire. An open connection delivers its frames, and
a closed one is reported to both ends; that it breaks, or that a share cannot be
stored, is possible and never assumed, and the liveness properties of RemoteDkg
are about runs where neither happens (`Undisturbed`). In CoordinatorServer an
awaited call returns, a timer fires, a socket told to close is closed and the end
of the last connection is reported; a device need not say or close anything. In
SignSession a write of `aborted_` becomes visible eventually. In NodeAddon the
pool takes the next job when it has a free thread, a step that need not wait
returns, and the event loop settles promises; JavaScript need not call anything.
Spurious wakeups and failures are possible and never assumed. CApi and Backup have
no liveness property and no fairness. Deadlock is checked in every run:
freed sessions and runs that are over stutter explicitly.

## Findings

1. *Freeing a running session* (dkg_free). The worker is joined by the base
   class's destructor, after the members it uses (`job_`, `key_`) are destroyed.
   The model lets the worker go on as if they were still there, which is the most
   favourable outcome; `FreeReturns` and all other properties are about that.
2. *Freeing a signing session without a message never returns* (sign_free). The
   destructor wakes `cv_`, the worker sleeps on `message_cv_`. In CApi and NodeAddon
   this is the outcome "never" of `sign_free`, of a `sign_new` that cannot allocate
   the handle, and of the collector.
3. *The round-robin loop can hang without any failure* (dual_hang). The server's
   `Step` takes its snapshot, its worker then registers its wait, the message is
   pushed, and `Step` sees the registration before the worker takes the message:
   it answers Continue with nothing to send. The device is stepped with nothing,
   while its worker waits since before its snapshot: this `Step` never returns,
   and with it the loop that would fetch the server's message.
4. *The documented attachment sends frames astray* (remote_attach). A socket is
   attached for the participant at its other end; coordinator-rn's README attaches
   the server's socket as `device`. *remote* attaches it as `server`.

The properties that hold in *dkg*, *sign*, *dual* and *remote* name the situations
in which something never returns (`Stuck`, `Starved`, `Overlooked`, a message never
set) and show that there are no others. Two of them deserve a word. *A server that
waits for a device that is done* (`Overlooked`): `Step` may answer Continue with the
last outbound message; the server-only loop then waits for a frame of a device that
has finished, so the server's share is never stored and the session not closed
after the intent. A device in that place is helped out by the completion signal, but
only once the server has finished. *A protocol that the device starts*: the device
steps only when it has received a frame, so a remote run of it does not end.

What the models and the reading of the code show besides, without a run of its own:

- A second message to sign is accepted once the worker has taken the first, and
  ignored (`bridge.cpp` 598, 627); `SignsFirstMessage` shows that the first is signed.
- `maany_mpc_free` uses the default free function, not the configured one its
  comment names (`maany_mpc.cc` 676).
- After a step that failed for want of memory, the message it passed in has
  been consumed: a retry passes it twice. `dkg_finalize` loses the key share then.
- `maany_mpc_backup_restore` allocates the vector of shares outside every `try`
  (`maany_mpc.cc` 435): out of memory, or a share count beyond `max_size`, an
  exception leaves the `extern "C"` function and there is no status. Node has nobody
  to catch it. Out of memory while an input is copied is reported as
  `ERR_INVALID_ARG` (`kp_import`, `backup_create`, `backup_restore` and the two
  steps). `RetrySafe` covers both: nothing has happened then, and the call can be
  made again (if the process is still there).
- Both bindings throw when `backup_create` fails half-way, without freeing the
  buffers it has already filled.
- Dropping the context's object before the others lets the collector shut it down
  first; their finalizers then read freed memory. `SafeUnlessHasty` names this
  (`early`) and what a free or shutdown under a step does (`hasty`) as the only ways.
- In Node, NaN passes the check `< 1` of an option, and an options object without
  threshold or share count throws although the type declaration marks both as
  optional; the alias `shares` is never reached (`addon.cc` 1017).
- `JsRefreshNew` with options but no session id throws. The repository's README
  calls refresh a stub; it is implemented.
- The dual mode of coordinator-rn's `runDkg` waits for a first message that nobody
  sends (`dkg.ts` 100).
- `close()` of the server cleans up only after the last connection has ended, so a
  device that never says hello, one whose socket was taken over, or a handler that
  waits for a frame holds it up (`StopHeldUp` shows that nothing else does). A
  handler whose device is gone waits for frames for ever, with its session already
  closed. The wait for a backup never sees a socket, because the `session:ready`
  event has none: it is always one second.
- With fewer shares than the threshold, a record whose threshold was lowered may
  still lead to the right secret when the polynomial's leading coefficients happen
  to be zero, which is one chance in the order of the field; nothing wrong is
  restored (`RestoreSound`).

## Proofs

Each theorem holds for every value of the constants, under the assumptions of the
module that declares them.

*AsyncSessionProofs*, any set of sessions, scripts and inbound messages:

- `PhaseCorrect`: `Spec => []Inv`. `Inv` is `TypeOK` with a phase per session:
  what the worker's place in the code implies for `worker_done_`, `fatal_`,
  `aborted_` and the script, and what each sleeper may assume. The types alone are
  not inductive, and neither is `NoLostWakeup`: that a caller asleep before
  `DoneNotify` will be woken needs that `worker_done_` is set only at that place.
  A worker that has returned ran its script to the end or failed, or else its
  session is being freed: a derived class may leave early then, and SignSession does.
- `TypeCorrect`, `WakeupCorrect`, `DoneCorrect`, `OrderCorrect`: `TypeOK`,
  `NoLostWakeup`, `DoneIsFinal` and `HandedInOrder` follow. The last needs that
  what is in the slot is younger than everything handed out (`SlotKept`).
- `DeadlockCorrect`: `NoDeadlock`, what the liveness properties rest on. A caller
  asleep in `Step` or `Finalize` waits for a worker that has something left to do and
  is not asleep on `cv_` itself, but for a `Stuck` step and a `Starved` finalize; a
  worker that is being joined is not asleep there. With `NoLostWakeup` this needs
  `CountInv`: a snapshot of `wait_request_id_`, however stale, is never ahead of it, so
  that two sleepers mean exactly that the worker's wait is older than the snapshot.
- `HeardInv`: what the last answer said is so, and stays so.

*DkgSessionProofs*: `DkgSpec => Spec` (`DkgIsAsync`), so the above holds
of key generation and refresh, and with `DkgInv` (a key is ready or issued
exactly when the worker has left its protocol without failure) `DkgTypeOK`,
`IssuedOnce`, `KeyOnlyFromSuccess` and `DoneMeansKey`. `PromiseCorrect` is the
refinement of StepSession: with `HeardInv`, every step of the two threads is a step
of the promise or none.

*SignSessionProofs*: a SignSession is not an AsyncSession, because its worker may give
up the wait for the message: `SignNextIsNext` shows that every step is one of the base
class or this one (`Quit`), and `QuitKeeps` that it disturbs nothing, since it happens
only on a session that is being freed. That in turn needs `WorkerStage`, so the two are
one inductive invariant, `SignInv`: until the worker has taken a message it is before its
protocol, what it took is the first accepted, and a session without a message that was
aborted is one whose destructor runs. From it the types, `SignsFirstMessage`,
`SignatureOnlyFromSuccess`, `SilentUntilMessage`; what the base class has
(`SignWakeupCorrect`, which adds that the worker sleeps on `message_cv_` only while no
message was ever set, `SignDoneCorrect`, `SignDeadlockCorrect`); and `SignPromiseCorrect`,
the refinement of StepSession. No run checks `SignSession!KeepsPromise`: it is a theorem.
`NoDeadlock` speaks of `cv_`; a destructor may still join a worker asleep on
`message_cv_` (finding 2).

*DualDkgProofs*, any protocol in which the parties take turns and which is shorter than
the loop's bound (`ProtocolAssumption` and `LoopAssumption`; the code allows 128 rounds,
a protocol has a handful of operations). `DualInvariant` is `DualSpec => []DualInv`:

- `SessionInv`: what the proofs above keep of each session, unchanged by whoever calls.
- `Lockstep`: the two parties are at the same point of the conversation with nothing
  on its way (`Level`), or one has sent what its peer has not heard (`Leads`), and then
  that message is all there is in the peer's inbound queue, the transport, the answer the
  driver holds and the sender's slot (`Flight`, the concatenation of these in order). An
  overwritten slot, a repetition and a reordering would each make it false.
- `Stage`: what the driver's place implies: it leaves the loop only when both are done.
- `Progress`: a session has been stepped at most as often as it handed out a message or
  came to a new wait; with `Work` and `Accounted` (both number at most the operations of
  the script) the loop's bound is not reached. This is why `FinalizeNeverWaits` is not
  inductive by itself: after the loop has run out of rounds, runDkg calls Finalize all
  the same.

`NeverWaitsCorrect` and `BothKeysCorrect` follow, and with `NoDeadlock` of the two
sessions `DualHangs`: if runDkg hangs, it is in a stuck `Step`, finding 3. `DualCarries`
is the refinement of
Exchange, step by step: a send of the worker is a `Say`, a receive that gets a message a
`Hear` of the one on its way, and a `GiveKey` comes when `Lockstep` says that all was
heard.

*RemoteDkgProofs*, the same protocols, any bounds above their length, either
attachment of the socket, and a connection that may break at any time. `RemoteInv` has
the same parts, with these differences: what is on its way may be cut off, so that a
party may lead with nothing in flight for ever; then no signal of the server can reach
the device any more (`Cut`), and the completion signal can follow a message
(`Trailing`) but not replace one that was lost. Without `Cut` the invariant is not
inductive: a signal that arrives where a message was lost would be taken for the
message. `Counted` replaces `Progress`: each step is taken for a frame, except the
server's first. From it `NeverBlocksCorrect`, `SharesMatchCorrect`,
`RemoteHangs` (a native call of either program hangs only in a stuck `Step`) and
`RemoteCarries`.

*NodeAddonProofs*, first of the C API with any number of handles: `CInv` says of each
session whose key left it that one keypair or one entry of `lost` has it. Calls are of
three sorts: `Ordinary` ones move no key, `KeyMoves` and `KeyLost` are the two ends of
a `dkg_finalize`. From it `CTypeOK`, `KeyConserved`, `RetrySafe` and the refinement of
StepSession (`CPromiseCorrect`).

Then of the addon, for any number of handles, jobs and pool threads: `NInv` adds to
`WrappersHold` and `SafeUnlessHasty` that the queue holds queued jobs, each once
(`QueueOK`), that handles are gone before the context unless it was shut down early
(`Outlived`), and, unless the program was hasty, that the objects a queued job will
look into are not collected and those a running step uses are still set (`InUse`).
From it the types, both properties, `CInv` for the calls the addon makes
(`NodeKeysCorrect`), and `HostCorrect`: every step of the asynchronous addon is a call
of the synchronous one or no call, until the program is hasty.

*CoordinatorServerProofs*, any number of devices, ids and frames, shared ids included.
`ServerCorrect`: the types, with

- `ContextOfMap`: a context is alive exactly while the map leads to its session, so
  no cleanup leaks one or shuts one down twice;
- `HeldByItsOwn`: every session in the map holds a socket of its id that is not yet
  closed, so the close of that socket will find it.

Neither is inductive without `Named`: an id leads only to a session whose creator
said that id. Hence no two ids lead to one session, and taking one out of the map
(`MapWithout`) does not touch the others. `SparesCorrect` rests on `EndedByItsOwn`:
whoever shuts a context down has its id and has ended or closed with that step; a
device alone with its id is that one. `FramesCorrect` (`OwnFrames`) adds that
sessions, routes and strays stay within one id (`OneId`) and that what a device
alone with its id has sent is what its handler took followed by what is queued
(`Fits`).

*BackupProofs*, any options and number of shares, over any field whose order is prime
(`BackupAssumption`; the order of the curve is) and larger than every number of shares
one can ask for (`OrderAssumption`; a share count is an int, the order has 256 bits).
The types; `BindingsAgree`; and `RestoreSound` from `Sealed` (the payload holds the
exported key, closed under the backup's label): that nothing else is restored is the
cipher's doing, not the interpolation's.

That the right shares restore (`RestoreCompleteCorrect`) and too few tell nothing
(`FewSharesCorrect`) is the interpolation's, and its theory is proved here from the
axioms of arithmetic:

- induction: the library's rule takes a formula as a parameter, which no prover here can
  instantiate. The same is had from a set instead: the numbers at which a claim fails
  have a least one (`Least`, from well-foundedness of `<` on the naturals), so a claim
  that is handed from each number to the next holds of all (`Induct`). `Recursion` is
  the equation of a recursive function, got the same way.
- the field: multiplying by a number that is not 0 maps the field one to one into
  itself, since a prime divides no product of smaller numbers (`NoZeroDivisors`), so it
  reaches 1 (`ReciprocalOf`).
- polynomials: `Pol(d)` is what Horner's rule makes of `d` coefficients
  (`HornerSteps`, `PolParts`). Less its value at `m`, a polynomial is `x - m` times one
  with a coefficient less (`Divide`, from `PolAbove`), and one goes `Through` any values
  at as many points as it has coefficients: hence shares fewer than the threshold go
  with every secret (`FewGoWithAny`).
- Lagrange: dividing by `x - m` leaves the formula for one share less, and an error in
  the value at `m` (`LagrangeStep`, from the linearity of sums and from products with a
  factor taken out); that the error is nothing follows by dividing by another `m`
  (`OneCounts`). By induction on the number of shares (`Lagrange`), any set of different
  numbers, as large as the polynomial has coefficients or larger, gives its first
  coefficient back (`InterpolateBack`).

`Shared` and `Dealt` tie this to the model: each share of a finished backup is the value
of one polynomial, of as many coefficients as the threshold, whose first is the secret
that closes the payload.

Only model-checked: liveness (`StepReturnsUnlessStuck`, `FreeReturns`,
`FinalizeReturnsUnlessStarved`, `SignStepReturns`, `TerminatesUnlessStuck`,
`EndsUnlessOverlooked`, `FinishedIsClosed`, `StopHeldUp`, `StepsSettle`); the prover does
not reason about fairness and ENABLED, and what is proved in their place is where a
thread can be left waiting (`NoDeadlock`, `DualHangs`, `RemoteHangs`). Every invariant and
every action property of a passing run is a theorem.

## Not modelled

- cb-mpc and OpenSSL: a protocol is a script; what its messages say, and whether
  the two keypairs belong together, is the library's.
- The text of errors, logging, encodings, hashing, AES-GCM, DER conversion: no
  property tells their values apart.
- A client that calls into one session from two threads at once, or frees it
  during a call: excluded by the API.
- The backup-share control message of the coordinator server, and a hello that lacks
  the keyId its intent requires (`mapIntent` throws out of the socket's listener).
- A second connection of RemoteDkg's device, and the same-process mode of
  coordinator-rn (see Findings): RemoteDkg calls `runDkg` itself.
- Two steps of one session in flight at once in Node, which no client makes; calls of
  the bindings that throw on their arguments' types; the bindings' own allocations
  on their way to the library (in Node a failed one ends the process); an empty message, which the
  bindings take for none.
- Coordinator signing (`runSign`): loops over SignSession like those of `runDkg`,
  without the finalize of the server-only mode. Storage, share encryption and Cosmos
  helpers: state in PostgreSQL, Redis or a keychain, and pure computations.
- AES-GCM, curve arithmetic, the key blob's parser beyond the checks that Backup has.

## Plan

What would extend this project, in this order: the signing runs (dual and server-only)
against an `Agreement` specification, a signature on the message both set or none;
the backup-share control message of the coordinator server, its awaited encryption
and upsert against a session that closes meanwhile; concurrent saves of a share and
the expiry of session records in the storages.
