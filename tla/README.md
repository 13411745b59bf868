# TLA+ models of timeflip-go

timeflip-go is a Go library for the TimeFlip2 Bluetooth tracker, a macOS transport for it and a
demo command line. This directory holds TLA+ modules of its concurrent and stateful parts, TLC
configurations that check them on small instances, and TLAPS proofs of the most important
invariants. Paths below are relative to the repository's root, `src/` being that root; line
numbers are those of the modelled commit.

    tlc -workers 2 -config MCSession_link.cfg MCSessionCommands
    tlapm SessionCommands_proof.tla

## Inventory

### Session commands (`session.go`, `options.go`, `errors.go`)

State: `opMu`, `done`/`closeOnce`, the connection, and, on the device, the command characteristic
(where a write is acknowledged) and the command-result characteristic (where outputs appear).
Operations: `SendCommand` and the `Set*` wrappers (write, poll for the acknowledgement),
`ReadTaskParameters`, `ReadTapSettings`, `ReadTrackerStatus` (the same, then poll for an output),
`Authorize` (write the password, poll the result characteristic for a verdict). `ReadHistory` and
`Events` (below) hold `opMu`, too, the first for a command and its packages, the second while it
subscribes.

Hard: nothing on the wire says which request an answer belongs to but a command code, and some
outputs have none; a write abandoned at its deadline still reaches the device; the polls have
budgets, deadlines and sleeps, each with a return of its own; `Authorize` does not take `opMu`;
`Events` holds it with no deadline of its own, and a wait for it observes no context.
Correct when: commands do not interleave, a call takes no answer to another command, `opMu` is
released on every path and every call returns, unless an `Events` holds `opMu` for want of an answer.

Two calls are made of several commands or reads: `SetLED` sends two commands, `ReadTrackerStatus`
reads the facet after its command, each part taking `opMu` for itself or not at all. Correct when: a
half-done `SetLED` can be told from its error, and a status tells what was so during the call.

### Session events (`session.go` 632-692)

State: two channels, one worker per subscription, one closer. Operations: `Events`, `Close`.
Hard: a consumer that stops reading, transports that close their channels at any time, context
and session ending in any order, the order of closing. Correct when: no send on a closed channel,
order per characteristic, no loss before the end, and the end really comes.

### Session history (`session.go` 305-384, `protocol.go` 217-261, `internal/protocol/decode.go`)

State: the version of the session, and what one call has collected. A v4 read is one write and
one read; a v3 read is a command followed by a package per read until a package of zeros. Hard:
packages of an interrupted read stay on the characteristic, the count package looks like data,
the last package may be partly filled, the fallback from v4 to v3 hides the first error. Correct
when: a history that is returned is the device's log.

### Protocol version (`session.go` 120-230, 553-580, `protocol.go` 280-342)

State: `s.protocol`, which no lock protects. `ReadDeviceInfo` and `ReadAccelerometer` infer it,
`SetName`, `ReadHistory`, `ReadSystemState` and others look at it. Hard: a call looks, decides and
looks again; two calls infer at once; a string is two words; `SetName` and the encoder limit the same
name, each counting in its own way. Correct when: the version is that of the device and never changes
once known.

### Accelerometer samples (`session.go` 233-281)

State: a goroutine, a timer, a channel of samples and one of errors with room for one. Hard: a
consumer that stops reading, polls that fail, the version found out to be v4 in between. Correct
when: samples come in order, a failed poll is followed by another, the end closes both channels.

### Client workflows (`client.go`, `types.go`)

`Pair` and `Unpair`: connect, authorize, set password, verify, OS action / factory reset, each
stage with a status and a result that names the failed one. Hard: a stage may fail after the
device has acted. Correct when: the session is closed on every path, and the result tells what
was done and which passwords the device may have.

### macOS connection (`macos/connection_darwin.go`)

State: `closed`, `connected`, the registered subscription of each characteristic, one watcher per
subscription, under `c.mu`. Operations: `Subscribe` (which may replace), cancellation, `Close`,
`Read`, `Write`. Hard: `Subscribe` waits for the radio before it looks at `closed`; a replacement
closes its predecessor holding `c.mu` and looks at no context meanwhile; watchers act on whatever is registered when they wake.
Correct when: nothing is registered after `Close`, no open subscription is unregistered, `Close`
ends everything.

### macOS transport (`macos/transport_darwin.go`)

State: `enabled`, `scanning`, `discovered`. Operations: `Scan`, `AdvertisedName`, `Connect`. Every
blocking call of the adapter runs in a goroutine that its caller may leave behind. Hard: contexts
that end before, during and after what the adapter does. Correct when: `scanning` is released on
every path, a failed connect leaves no device connected, calls return when their context ends (a
connect may have to close what it has begun first), and no scan goes on after its call.

### Demo application (`cmd/timeflip-demo/app.go`, `commands.go`)

State: selected device, active session, authorization flag, stream cancel function. Operations:
the commands, the goroutine of a stream. Hard: the deferred `clearStream` of a stream runs at any
time after `stop`; pairing and selecting change the device under an active session. Correct when:
no session is leaked, the flag speaks of the session in use, a running stream can be stopped.

### Names of devices (`client.go` 58-125, `macos/transport_darwin.go`, `cmd/timeflip-demo/app.go`)

State: the advertisements the transport keeps, the names and the selection the demo keeps, the name a
session was given. Operations: listing, selecting, connecting, `ReadDeviceInfo`. Hard: four sources
of different age, and a device that is renamed. Correct when: no device has the name of another one,
and no newer name is replaced by an older one.

### Protocol codec (`protocol.go`, `internal/protocol`)

No state. Hard: a pause flag in the top bit on four ways to the application, an acknowledgement that
ends at a zero or at its fourth byte, outputs of commands recognised by their form, a decimal
fraction for a firmware release, eighteen bits in three bytes. Correct when: the application is told
what the device said.

### Line editor and tracing of the demo (`cmd/timeflip-demo/line_editor.go`, `io.go`, `trace.go`)

The editor keeps the line, the cursor, the lines entered before and the place in them; the same
editor reads commands, answers and passwords. The tracing connection forwards notifications through
a goroutine of its own. Correct when: only commands are kept, the line being written survives a look
at older ones, and tracing changes nothing but the trace.

### Not state machines

Battery and other plain reads, the unsupported-platform transport, terminal output, the test double,
examples and scripts. `PROJECT.json` lists each.

### Interactions

The client owns a transport and makes sessions on its connections; a session's reads, writes and
subscriptions are calls of the connection; the workflows use a session and close it; the demo
keeps one session and one stream. `SessionCommands` contains the connection's `Read` and `Write`;
`EventStream` contains the subscription's buffer, which drops when it is full; `DemoApp` uses of
`EventStream` that channels close only after their context is done; `Pairing` uses of the commands
that each succeeds, fails before or fails after the device has acted; `HistoryRead` uses of
`SessionCommands` that the acknowledgement of its command has been seen and that calls are
serialized; `CompoundCalls` takes its commands from `CommandService`, which `SessionCommands`
implements over a prompt transport; `TraceForward` has a worker of `EventStream` as its reader;
`SampleStream` and `TraceForward` implement the same `OrderedStream`.

## Modules

| module | what it is |
| --- | --- |
| `SessionCommands` | the command path: goroutines, `opMu`, the two characteristics, writes in flight, polls, deadlines |
| `CommandService` | what the command path promises: a call is executed while no other is, and gets its own answer or an error |
| `SessionRefinement` | the mapping under which `SessionCommands` implements `CommandService` |
| `EventStream` | `Session.Events` with workers, closer, channels and consumer |
| `MacConnection` | `Connection.Subscribe`, the watchers and `Close`, over a radio that performs operations late |
| `MacTransport` | `Transport.Scan`, `AdvertisedName` and `Connect`, over an adapter that answers late or never |
| `Pairing` | `Client.Pair` and `Client.Unpair`, several in a row on one device |
| `HistoryRead` | `Session.ReadHistory`, several in a row on one device |
| `DemoApp` | the state of the demo under its commands and stream goroutines |
| `CompoundCalls` | `SetLED` and `ReadTrackerStatus`, made of commands of `CommandService` |
| `SessionVersion` | `s.protocol` under concurrent calls that infer it and look at it |
| `SampleStream` | `Session.AccelerometerSamples` with its goroutine, timer, channels and consumer |
| `TraceForward` | one traced subscription of the demo |
| `OrderedStream` | what a goroutine that carries values promises; refined by the two above |
| `DeviceNames` | the name of a device from advertisement to `ReadDeviceInfo` |
| `LineEditor` | the prompts of the demo and the lines they keep |
| `Codec` | one message from the device, on the wire and decoded |
| `MCSessionCommands`, `MCMacConnection`, `MCMacTransport`, `MCDemoApp` | instances for TLC |
| `MCStreams` | the instances of `EventStream` and `DemoApp`, in one sum |
| `MCMac` | the instances of `MacConnection` and `MacTransport`, in one sum |
| `MCParts` | the instances of the nine smaller models, in one sum |
| `SessionCommands_proof` | theorems about `SessionCommands` and its refinement of `CommandService` |
| `SessionCalls_proof` | about `SessionVersion`, `CompoundCalls` and `HistoryRead` |
| `EventStream_proof` | about `EventStream` and `Codec`: what the device says, on its way and decoded |
| `Client_proof` | about `Pairing` and `DeviceNames` |
| `DemoApp_proof` | about `DemoApp` |
| `MacConnection_proof`, `MacTransport_proof` | about the module named |
| `Parts_proof` | about `SampleStream`, `TraceForward` and `LineEditor`, and about the sum of all the parts of `MCParts` |

In every module an action is a step of the code between two points where another goroutine, the
device or a callback can come in: a lock acquired, a channel operation, a call of the transport.
`pc` variables name the place in the code; `PROJECT.json` maps each definition to its lines.
Device and Bluetooth-stack actions are marked external there: they are modelled from how the code
uses them and do everything the code must be ready for (answer late, never, or to somebody else).
Variables that no code has (which write landed, which call a package answers) are history: they
are read by properties and by the device only. Definitions marked "Mutant of" are slips that
somebody could make in the code; each makes one property fail and none is part of a
specification.

### How the state corresponds

- `SessionCommands`: `opMu` is `Session.opMu`, by its holder; a process at `writing`, `status`,
  `output` is in `sendCommandLocked` / `readCommandPayloadLocked`, at `verdict` in
  `readAuthorizationResult`;
  `polls` is the loop counter; a sleep is a place of its own because a context can end there.
  The writes in flight are those `conn.Write` has handed to CoreBluetooth, also after the caller
  has given up. `Prompt = TRUE` is a transport and device that have executed and published by the
  time the write returns.
- `EventStream`: `stream[s]` is the subscription's channel, `events` the shared channel with
  capacity `Buffer`, `received` what the consumer has taken, `held` the event a worker is sending.
- `MacConnection`: `registered` is `c.subscriptions`, `mu` is `c.mu`, `state[i]` follows
  `subscription.closeWithContext`, `radio` is the set of requests made of CoreBluetooth.
- `MacTransport`: `scanner[c]` and `link[c]` are the goroutines left in `adapter.Scan` and
  `adapter.Connect`; `adapter` is the call for whose handler the adapter scans.
- `HistoryRead`: `output` is the command-result characteristic, `entries` and `last` are the
  locals of `readHistoryV3`. A block is a model value; the blank block and the count are numbers,
  since those are all that the code looks into.
- `Pairing`: `secret` is the password the device has now, `place` the stage of the workflow; a stage
  that fails may have changed it or not, which is what a lost acknowledgement looks like to the
  workflow.
- `SessionCommands` again: at `subscribing` a process is in the `Subscribe` calls of `Events`, at
  `historyV4` in `readHistoryV4` with its two operations on a characteristic of its own, at `packages`
  in the loop of `readHistoryV3`. What the packages hold is left to `HistoryRead`.
- `SessionVersion`: a process at a place named after an operation is about to look at `s.protocol`
  for it; `"storing"` is the assignment itself, beside which a load may be torn.
- `CompoundCalls`: `led` names the calls whose two settings the device has; `phase`, `serving` and
  `got` are the variables of `CommandService`.
- `SampleStream`: `producer` is the place of the goroutine, `timer` the timer of its loop, `errs` the
  errors in the errs channel.
- `TraceForward`: `inner` is the channel of the connection below, `forwarder` and `held` the
  goroutine, `reader` the worker that receives from `out`.
- `DeviceNames`: names are numbered by age; `discovered`, `known`, `selectedName` and
  `session.advertised` are the four places that keep one.
- `LineEditor`: `recall` is `historyIndex` counted from one, `draft` what the user left at the place
  of the new line.
- `Codec`: `Wire` puts what the device says into bytes, `Decoded` is what the session makes of them.
- `DemoApp`: `canceler` is the stream whose cancel function `ActiveStreamCancel` holds.

## What the runs check

| run | instance | result |
| --- | --- | --- |
| `session_link` | two goroutines, one call each out of a read, an invalid set, a right and a wrong `Authorize`, `ReadHistory` and `Events`; late, lost and abandoned writes; budgets of 2 polls; with fairness | serialized, no answer with a foreign code, every step of a call takes it nearer to its return, every call returns or an `Events` holds `opMu` |
| `session_prompt` | two goroutines, two calls each, commands and `Authorize`, prompt link; no `Authorize` polls while another call does | each call gets its own answer; implements `CommandService` |
| `session_steal` | a read beside an `Authorize`, prompt link | violated: answers are exchanged |
| `session_wait` | a set and an `Events`, radio link, with fairness | violated: a cancelled set waits for `opMu` |
| `streams` | `EventStream`: two streams, shared channel of 1, two notifications each | order, no loss before the end, no panic, no worker without a closer, both ends come |
| | `DemoApp`: two devices, three sessions, two streams, a patient user | no leak, current authorization, streams stoppable and stopped |
| `demo_race` | one session, two streams, an impatient user | violated: the new stream's cancel function is dropped |
| `mac` | `MacConnection`: two subscriptions on two characteristics, radio failures, `Close` | nothing orphaned, nothing registered after close, an undisturbed subscription is heard, `Close` ends all |
| | `MacTransport`: two calls, two devices | flag released, a link or a scan left behind only by a cancelled call, calls return or wait in their own `Close` |
| `mac_reason` | two subscriptions on one characteristic | violated: a watcher closes its successor |
| `scan_late` | one call | violated: the adapter scans for a call that has returned |
| `parts` | the nine smaller models, one after the other | see below |
| `v3_duration` | the codec alone | violated: a v3 duration no device can store |
| `v3_name` | the version alone | violated: a name of 19 bytes is accepted and not sent |

`parts` checks models that share no state with each other: `MCParts` is their sum, whose variable
`part` says which of them a behaviour belongs to and never changes; the others stay as they began.
Nothing of one part can disable or fulfil a property of another one, so the run is nine runs made at
once. `MCStreams` with its variable `side` and `MCMac` with `backend` are sums of two models in the same
way. No fair action of a model is enabled where it begins, so the fairness of the one that stands still
asks nothing of the one that moves.

| part | instance | what it shows |
| --- | --- | --- |
| `version` | three goroutines, one call each, every device and configuration | `VersionIsSound`, `VersionIsStable`: an inferred version is true and stays, a configured session never panics |
| `calls` | two goroutines, one `SetLED` or `ReadTrackerStatus` each | `CompoundCallsHold`: half a `SetLED` leaves the settings in one way only; a status is of its time |
| `samples` | channel of one, three samples | `CarriesSamples`, `StreamsEndAndGoOn`: implements `OrderedStream`, closes with context or session, goes on polling |
| `trace` | channel of two, four notifications | `CarriesNotifications`, `TracingIsHarmless`, `StreamsEndAndGoOn`: implements `OrderedStream`, the trace is true, drains at a close, ends at a cancel |
| `names` | two devices with two names each | `NamesAreRight`: no foreign and no outdated name |
| `editor` | one character and the blank, lines of two, three lines, two kept | `LinesAreKept`: the draft comes back, only commands are kept |
| `codec` | nine byte values, all messages | `MessagesAreUnderstood`: the application is told what was said; an output answers one command |
| `pairing` | three workflows, the factory password and two more | `SessionReleased`, `ResultIsTrue`: the session is closed on every path; completion, failure and passwords are as the result says |
| `history` | two reads, up to three blocks, packages of two, a budget of five | `HistoryIsTrue`: the returned history is the log; a record is that of its event |

Several of these properties, and `MapIsExact`, `InOrderToTheEnd`, `EndsTakeEffect`, `WorkersAreJoined`
and `NothingLeftBehind` of the runs above, are conjunctions: each conjunct is a definition with a name, a
comment and a mutant of its own, and the proofs establish the conjuncts one by one.

`session_prompt` runs `ApartSpec` of `SessionRefinement`: `Spec` of callers who do not let an `Authorize`
wait for its verdict while another call waits for its answer (`VerdictsApart`). `client.go` is such a
caller, since its workflows authorize first, on a session nobody else has. `session_steal` is `Spec`
without that care.

`OpenIsHeard` of `mac` says that the radio calls back an open subscription that alone has touched its
characteristic. An operation that the radio refuses fails the `Subscribe` that waits for it
(`RadioRefuses`), one that it performs may report an error all the same (`EnableReturns`).

Bounds and why they are enough:

- Two goroutines show every pairwise interleaving; serialization is proved for any number. One
  call each is enough in `session_link` because a late write of the first call meets the second
  goroutine's; in `session_prompt` a second call lets an old answer be stale. `session_link` has
  calls of every kind, `session_prompt` commands of every shape.
- Budgets of 2: a poll that misses and one that is the last, a package and the last one. The code has
  256 and 256 polls, a window of 750 ms for the verdict and `maxHistoryV3Packets` packages; the proofs
  do not depend on the numbers.
- Names of 18, 19 and 20 bytes are the two limits of `SetName` and one too many for either.
- A channel of capacity 1 with two streams is full while both workers want to send.
- Two subscriptions replace once, which is where the code differs; a third would replace a
  replacement. Two characteristics leave one out of it.
- In `version` the third goroutine can look while one infers and another one stores. The bytes of
  `codec` are zero, one, two, the limits of a v3 facet, of a side and of a byte, the code of a
  command and one number that is none of them; the numbers of several bytes differ in their first
  and in their last. In `editor` three lines into a history of two make the oldest go, and one
  character is enough because the properties compare lines by equality; an empty line, a blank one
  and one with blanks at its ends are among those of length two.
- In `trace` four notifications fill the channel and the forwarder once more after the first was
  taken; in `samples` three are one received, one in the channel and one being sent.
- In `history`, packages of two blocks make the last one full, half full or absent for logs of 2,
  1/3 and 0 blocks, and a budget of five is met exactly by a call that reads a stale package
  before its own four.
- Three workflows: one that loses an answer, a retry, and one after that. Passwords other than
  the factory one are interchangeable. The goroutines of `session_prompt`, which no property tells
  apart and no fairness names, are the only symmetry set.
- `CHECK_DEADLOCK FALSE` stands where behaviours end because the bounded calls have been made or
  the program has exited; in the other runs deadlock is checked.

## Fairness

`Fairness` in each module asks only for what the Go runtime and the code itself give: a goroutine
that can step steps; a deadline passes (`normalizeConfig` gives every client a default timeout and
`timeoutFrom` turns it into one, so no command, authorization or history read is without; `Events` is,
and its context need not end); `sync.Mutex` does not starve a waiter, so taking `opMu` is fair for each
goroutine; `select` does not ignore a ready case for ever, so a worker that is offered both a value and
a done channel again and again takes the latter. That is strong fairness where the offer comes and
goes with the loop (`SampleStream`'s `Stops`, `TraceForward`'s `Cancelled`). A timer that is set fires,
and a cancelled subscription is closed by the connection below it, as `MacConnection` shows.

Nothing is asked of the device, the consumer or the user: no write lands, no event is received. What
is asked of the Bluetooth stack is this, and no more:

- `SessionCommands`: a `Read`, `Write` or `Subscribe` of the transport returns when its context ends. The
  macOS connection keeps this by its `select`s, but for a caller that waits for `c.mu` while a
  subscription is being replaced, below.
- `MacConnection`: the radio performs what it was asked. Without that, `Close` may not get `c.mu`, and
  subscriptions do not come to their end.
- `MacTransport`: `adapter.StopScan`, which is called without a goroutine (`transport_darwin.go` 143-151),
  returns, and a scan that it has stopped ends. No advertisement need come, no link come up, no
  discovery end, and `Disconnect` need not return: `Release` is not fair.

Three liveness properties are conditional where the code is:

- `EveryCallReturns`: a call returns unless an `Events` holds `opMu`, which it does as long as the radio
  does not answer its subscriptions. `session_wait` shows the other case.
- `CallsReturn`: a call of the transport whose context ends returns if no scan outlives its call, or is in
  the `Close` of a connection that it gives up. When a scan does outlive its call, `StopScan` of a later
  call stops that one, and the later call waits on its own channel, which nobody may ever fill.
  The `Close` of a cancelled `Connect` waits for `Disconnect` with a context that never ends.
- `CloseEndsSubscriptions` begins when `Close` has `c.mu`. A `Subscribe` that replaces a
  subscription may keep it, below.

## What is proved

Every invariant, every action property and every refinement that a passing run checks is a theorem,
for all values of the constants (`StreamsTypeOK` and `MacTypeOK` as the two theorems they join). What the constants are assumed to be is named in the module that
declares them (`ConstantsAssumption`, `DemoConstants`, `TransportConstants`, `NoCallerAssumption`, `NamesAssumption`, `SampleAssumption`,
`TraceAssumption`, `EditorAssumption`, `HistoryAssumption`, `CodecAssumption`, `PairingAssumption`): that
a value standing for "none" is not one of the others, that bounds are natural numbers, that bytes are
bytes, that the factory password is a password. The runs evaluate them. Three more are hypotheses of
theorems: `Patient`, a user who waits for a stream to end; `PromptSession` and, stronger,
`PromptCommands`, below.

`SessionCommands_proof`

- `TypeCorrectness`; `LockDiscipline` and `Serialization` from the invariant that the lock's holder is
  exactly the process that does the work of a call, and that only calls which take it are at the
  places of theirs (`LockInv`).
- `AnswersMatchCode` from `AnswersInv`, which says of everything on the wire, on the characteristics
  and in a process's locals that its code is that of an accepted request. Types alone do not suffice:
  a late write of a call long returned may still publish, so the invariant speaks of the history of
  requests.
- `EveryStepCounts`, the action property `CallsComeNearer`: `StepsLeft` counts two steps for each poll
  that a call has left, one for each package and those before the first poll, and every step of the
  call makes it less. The invariant is that a call that polls has a poll left (`PollsInv`). A call can
  stop short of its return only where it waits for another: for `opMu`, or for the radio in `Events`.
- `OwnAnswersApart` and the refinement `ApartCallsAreService`, for prompt circumstances
  (`PromptSession`: a link that is prompt, an output for every read, and no `ReadHistory` or `Events`, which
  are no calls of the service; the instance of `session_prompt` is one) and for `ApartSpec`. `PromptInv` follows a call: before its write nobody has executed it
  (`BeforeWrite`); from its write to its return both characteristics show what answers it
  (`AfterWrite`), because nothing is in flight or due (`Quiet`) and no other call is between its write and
  its return: `opMu` keeps the commands from each other, the callers keep `Authorize` from everybody
  (`WriterIsAlone`). No request has been executed that has not been made (`NoneAhead`), so that an old
  answer is never taken for a new one. For the refinement, the write that is executed is the
  service's execution, the return its answer, and every other step stutters; `ServedFacts` says whom
  the service serves. `session_link` and `session_steal` show why neither theorem has fewer
  hypotheses; together with them they say that over a prompt link the missing `opMu` of `Authorize` is
  the only way in which answers are exchanged.
- `OwnAnswers` and `PolledCommandsAreService` are their corollaries for commands alone
  (`PromptCommands`), which `opMu` keeps apart whatever the callers do: then `Spec` is `ApartSpec`
  (`CommandsAreApart`).

`SessionCalls_proof`

- `TypeCorrectness`, `TrueVersion`, `StableVersion`, `ConfiguredIsSafe` and `SoundVersion`, which joins
  the second and the last, for any number of goroutines and calls. The invariant follows a
  version from the payload that tells it to its store (`OnItsWay`): it is the family of the device,
  and only a session whose version was left open has a goroutine on the way to store one.
  `VersionIsTrue` alone is not inductive, since it says nothing of what is about to be stored.
- `CallsTypeCorrectness` and `CompoundCallsAreSound`. `CallsInv` says for each step of a call what the
  device has of its settings (`SettingsOfStep`), that a `SetLED` beside which no other runs is the only
  one to set anything (`QuietHasBoth`), and that a status was read from what was so since the call
  began (`KnowsSince`). `CallsUseService`: the calls ask no more of the device than `CommandService`
  lets its callers ask, so what `SessionRefinement` shows of prompt sessions is all they stand on.
- `HistoryTypeCorrectness` and `HistoryReadIsTrue`, for packages of any size, any log and any budget.
  While a v3 call has read its own packages only, it has read those shown but the one on the
  characteristic (`Shown`), has collected their blocks (`Collected`), and the rest wait; before that it
  has read nothing (`NothingShown`). No answer is to a call that has not been made
  (`AnswersAreOfThePast`). The lemmas say which blocks are in the n-th package and what decoding it
  adds. Where the code counts, the proof takes a least element (`WFMin`) in place of an induction.

`EventStream_proof`

- `TypeCorrectness` and `NoPanic`, of which both parts, no send on a closed channel and no worker that
  no closer waits for, are inductive with two facts: only a woken closer closes, and workers start
  once, with the closer. This is what makes the early return of `Events` harmless: it starts none.
- `EventsInOrder` from `OrderInv`. What has been received or waits in the shared channel is in order, and
  comes before everything of its characteristic that a worker holds or the subscription's channel has
  (`QueueInv`); and who gives up an event exits, so that nothing of that characteristic is seen
  after it (`LossInv`). The lemmas are about order in concatenations and in parts of a sequence.
- `MessagesUnderstood`, for all messages over any set of bytes. `CodecInv` says that what is told is
  decoded from what was said; the rest is the codec itself: sequences are cut where they were joined
  (`Joins`, `Cut`), a pause flag and a side share an octet, and the first zero of an
  acknowledgement, found by `WFMin`, is where it ends.

`Client_proof`

- `SessionIsReleased`, `PairingOpens`, `ResultTellsPassword`, `UnpairingResets`, `ErrorIsOfItsStage` and
  `TrueResult`, which joins the last four, for any passwords and any number of workflows. The
  invariant says of each stage what the workflow has established when it reaches it (`PlaceFacts`,
  `DeviceFacts`): a session, the password of the device, whether it has been reset; and of the stages
  recorded what they tell of the password (`PasswordFacts`). `PairingTypeCorrectness` needs one more
  part (`Kept`): the stage a result names is of its own kind of workflow.
- `NamesTypeCorrectness` and `NamesAreSound`, for any devices and names. Each cache keeps names of the
  device it keeps them for (`CachesAreOwn`), and what the transport remembers is no older than what
  the demo and the session were given (`TransportIsAhead`).

`DemoApp_proof`

- `TypeCorrectness`, `NoSessionLeak`, `AuthorizationIsCurrent` from `SessionInv`, whose own part is that
  no session is active while a connect is in progress; for a patient user `PatientUserCanStop` and
  `PatientStreamsStopWithSession` from `StreamInv`, which says that no cancel function is stored while
  a cancelled stream has its `clearStream` to run.

`Parts_proof`

- `ForwarderIsOrdered` is the refinement of `OrderedStream` by `TraceForward`, step by step;
  `TraceTypeCorrectness`, `TraceTellsWhatHappened`, `ForwardsToTheEnd` and `HarmlessTracing`, which joins
  those two. A notification is its number, so the invariant says which numbers stand in the inner
  channel, with the forwarder, in the trace and with the reader.
- `SampleTypeCorrectness` and `SamplesAreOrdered`, the refinement by `SampleStream`, for which it is
  enough to count (`SamplesAddUp`): a sample delivered has been received, waits or is being sent.
- `EditorTypeCorrectness` and `LinesKept`: the draft is the line while nothing is recalled and the
  line set aside otherwise (`DraftKept`), and the last line kept is the last command (`NewestKept`).
- `PartsAreTheirOwn`: a behaviour of the sum that the `parts` run checks is one of each part, since every
  step is a step of one part and leaves the variables of the others alone. `PartsTypeCorrectness` and
  `PartsAreSound` follow from it and from the theorems about the parts, in this module and the others:
  what the run checks on nine instances at once holds of the sum for all values of the constants.

`MacConnection_proof`, for any number of `Subscribe` calls and characteristics

- `TypeCorrectness`, `NothingAfterClose`, `OpenIsFound`, `MapIsOpen` and their conjunction
  `MapIsWhatIsOpen`. The three support each other and need `MutexFacts`: `c.mu` is held exactly across a replacement, and
  `Close` cannot begin before it is released. This is also why a few subscriptions are enough in the run.
- `ClosedByPredecessorAtWorst` is an action property: from the same invariant, the victim of a watcher
  that has not ended by itself is the successor registered in its place.
- `OpenSubscriptionsAreHeard`: what the radio still has to do and whom it calls back follow from where
  the calls for a characteristic are.

`MacTransport_proof`: `TypeCorrectness`, `ScanFlag`, and `CallsCleanUp` of `FailedConnects` and
`ScansLeftBehind`, for any number of calls and devices. Beside the types they need that a link follows
the place of its call (`LinkFollows`) and that a call that dials has a device (`DialsDevice`).

Only model-checked:

- liveness under fairness, which is outside the prover's reach: `EveryCallReturns`, `EndsTakeEffect`,
  `CloseEndsSubscriptions`, `ExitEndsStreams`, `CallsReturn`, `StreamsEndAndGoOn`;
- the seven runs that expect a violation, which are counterexamples.

Induction over data is out of the prover's reach as well. No module that a theorem is about computes
with a fold or a recursion: what the code computes in a loop over a sequence is defined there by what
it gives at each index.

## Where the code and its documents part

LP, DP and MP stand for the three `[Feat]` documents of the library, of the demo and of the macOS
transport in `src/spdd/prompt/`.

Kept as runs that must find the violation (`findings` in `PROJECT.json` quotes the documents):

- `session_steal`: `Authorize` does not take `opMu`, and its verdict and the answers of commands are
  exchanged (LP 474).
- `session_wait`: `Events` holds `opMu` while it waits for the radio, and a cancelled command waits for
  it (LP 649).
- `mac_reason`: the watcher of a replaced subscription closes its successor (MP 110). That nothing
  else is closed without a reason is `ClosedForReasonOrByPredecessor`, proved.
- `demo_race`: the end of an old stream drops the cancel function of a new one (DP 599).
- `scan_late`: a scan begins for a call that has returned (MP 220). That only cancelled calls leave
  one behind is `ScanOutlivesOnlyCancelled`, proved.
- `v3_duration`: the duration of a v3 block is put together with `<<16`, `<<8` and the two low bits of
  the third byte (`decode.go` 91), so it can exceed the 262144 s of the hardware document.
- `v3_name`: `SetName` lets the 19 symbols of the v3 hardware document pass (`session.go` 564-567) and puts
  their number before them; the encoder refuses the 20 bytes that result (`command.go` 33). The longest
  name that a device is sent has 18 bytes, whatever its version.

Met while modelling, and not kept as runs of their own:

- A `Connect` whose context ends while it discovers characteristics closes the connection with
  `context.Background()` (`transport_darwin.go` 240-242), and `Close` waits for `device.Disconnect` as long
  as that takes (`connection_darwin.go` 197-208): such a call need not return, although LP 649 has all
  blocking work observe cancellation. `CallsReturn` follows it as far as that `Close`.
- A `Subscribe` that replaces a subscription closes the old one with `context.Background()` while it holds
  `c.mu` (`connection_darwin.go` 157-161, 275-291): as long as the radio does not answer, the call, whose
  context may have ended, and all else that takes `c.mu` wait (LP 649 again).
- A command-backed read that was cancelled is executed late, and its output answers the next read of the
  same code, whose facet `ReadTaskParameters` does not compare with the one it asked for
  (`session.go` 398-399), although LP 474 has serialization keep answers apart. That the code is the
  same, at least, is `AnswersCarryOwnCode`, proved; that a prompt link is enough is `OwnAnswers`, proved.
- Replacing a subscription disables the notifications just enabled for the new one
  (`connection_darwin.go` 144-160): the subscription stays registered and open, as
  `RegisteredIsOpen` and `NoOrphan` say, and silent, whatever MP 110 says of forwarding. `OpenIsHeard`
  confines this: where no other `Subscribe` call has had a part in the characteristic, an open
  subscription is heard.
- After `Session.Close` the workers of an event stream end (`WorkersExitOnSessionClose`), but the
  closer waits for the context only (`session.go` 684-690): the channels stay open until the caller
  cancels (`ClosesOnCancel`), while LP 531 closes them with the session, too.
- `Events` leaves earlier subscriptions alive when a later one fails (`session.go` 641-644), which
  LP 534 has cleaned up; the caller's context or the connection's `Close` ends them
  (`CloseEndsSubscriptions`), and no worker has been started for them (`WorkersAreAwaited`).
- Two calls on a session of open version can read a version that is half stored and panic, while
  LP 606 wants errors for panics; a configured version is safe (`ConfiguredNeverPanics`, proved).
  `AccelerometerSamples` has a goroutine of its own that infers, so that one caller is enough.
- With tracing on, a stream ends only when its context does: after `Session.Close` alone the forwarder
  may wait for a reader that has left (`trace.go` 96). `EndsOnCancel` is what does hold, and the demo
  cancels before it closes.
- The tracing transport hides `AdvertisedName` of the transport it wraps, so `ReadDeviceInfo` falls
  back on a scan; `ShownIsRecent` then promises the name the session was given and no newer one.
- A payload that a v3 history read left on the command-result characteristic can have the form of a
  tracker status or the first byte of a command; `OutputAnswersOne` speaks of outputs of commands only.
- A firmware revision such as `FW_v3.5` is compared as 3.50, so `FirmwareSplits` asks for two digits;
  one like `FW_v3.47.1` is no number and tells v3.
- A lock or pause command is two bytes that are also its acknowledgement, should the command
  characteristic show what was written (`command.go` 42-56).
- A deadline that expires in the sleep between polls is reported as a protocol error
  (`session.go` 499-501), not as `ErrTimeout`.
- `Close` skips `Disconnect` when a subscription reports an error (`connection_darwin.go`
  192-196), and `closeOnce` lets nobody try again.
- `unpair` in the demo compares the unpaired device with the selected one and not with the
  session's (`commands.go` 245).
- A scan that outlives its call makes a later call hang at its deadline (see Fairness).
- A v3 read that finds the terminating package of an interrupted one returns an empty history
  without an error: `HistoryIsLog` holds for calls that read only packages sent to themselves.
- A v4 read of all events reads one packet.

## Assumptions of the models

- `SessionVersion`: a firmware revision that can be parsed names the true family, and a v4 event text
  never has exactly six bytes, which `ReadAccelerometer` would take for a vector.
- `SessionCommands`: the context given to `Events` is that of its caller, which has no deadline; what the
  caller gives it in addition only helps.
- `CompoundCalls` stands on `CommandService`, that is on a prompt transport and device, and on every
  other call being a command: an `Authorize` beside it is `session_steal`.
- `TraceForward` and `SampleStream`: the consumer may stop at any time and owes nothing.
- `DeviceNames`: the commands of the demo come one after the other.
- `Codec`: what the device says is taken from how the decoders use it.

## Not modelled, and why

- The command encoders, which put bytes one after the other, but for the limit that `SetName` meets
  (`SessionVersion`); the battery percentage, the wording of
  the system state and the vector of the accelerometer, each one conversion of one value.
- `ReadBattery` and the other plain reads beyond the version they depend on: one transport call each.
- `discoverCharacteristics` of the macOS connection: it fills a map before the connection is handed
  out.
- The terminal modes, redrawing, flags, help texts and formatting: input and output.
- RSSI, services and metadata of advertisements: data that nothing here tells apart.
- The unsupported-platform transport, the test double, examples and scripts: constant results, test
  code, straight-line use.

## Plan

Done, in this order: `SessionCommands` with `CommandService`; `EventStream`; `MacConnection`;
`DemoApp`; `Pairing`; `MacTransport`; `HistoryRead`; `SessionVersion`, `SampleStream`,
`TraceForward` with `OrderedStream`; `CompoundCalls` over `CommandService`; `DeviceNames`;
`LineEditor`; `Codec`; the proofs above.

Next:

1. `ReadHistory` as a call of `CommandService`, so that `session_prompt` includes it.
2. `discoverCharacteristics` at the beginning of `MacConnection`, composed with `MacTransport`'s
   connect.
3. The encoders of `internal/protocol/command.go` beside the decoders of `Codec`.
4. An abstract specification of a subscription, implemented by `MacConnection`, for `EventStream` and
   `TraceForward` to stand on.
5. What `CallsComeNearer` is for the command path, for the other liveness properties: a measure that
   every step of the component makes less.
