# Verification of the home server

The repository is the server of a small smart home. It runs on a Raspberry Pi;
devices (a door, a fridge, a lamp, ...) and a web page connect to it through
websockets. This directory holds its TLA+ model, the TLC configurations that
check it on small instances, and TLAPS proofs of what matters most for every
instance.

    tlc -workers 2 -config MCServer.cfg MCServer.tla     # one run
    tlapm ServerProofs.tla                               # one proof module

`PROJECT.json` lists components, runs, hazards, findings, theorems, the source
lines every definition stands for, and one mutant (a plausible bug) per checked
property. Operators commented `Variant:` are the mutants; no specification uses
them.

## 1. The system

Four threads, three queues, three mutexes:

    clients -> websocketpp thread -> RxQueue -> parse thread --+-> heartbeatQueue -> heartbeat thread
                                                  |            |                        |
                                           registeredDevices   +------> messageQueue <--+
                                                  |                          |
    clients <------------ SendMessage ------------+------------------- main thread (objects)

| Component | State | Operations | Interacts through |
|---|---|---|---|
| WebsocketBackend | `RxQueue`, the library's connections | `MessageReceived` (callback), `SendWebsocketppMessage`, `StartSocket` | `websocketppRxLock`; `send` throws to whoever calls it |
| SocketServer: registry | `registeredDevices` (vector of UUID and connection) | register, erase, look up by substring | written by the parse thread, read by main, no lock |
| SocketServer: parse thread | the packet in work | `parseIncomingMessages` | takes `RxQueue`, fills both other queues, answers refused packets |
| SocketServer: heartbeat thread | a record per device (status, time of last heartbeat) | `heartbeat`: drain, scan, report changes | `heartbeatLock`, then `messageLock` |
| SocketServer: interface to main | `messageQueue` | `GetMessage`, `SendMessage` | `messageLock`; a pointer into the registry |
| main loop | `devices`: map from UUID to object | register, dispatch, "not yet created" reply | all of the above |
| Device objects (9 kinds) | copies of the device's fields, status | `HandleMessage`, and setters that send | each other by `getDeviceByType`, the website object |
| Website object | none of its own | forward a command, full update | calls the objects directly |
| Web page | what its controls show | show an update or a push, move a control | websocket |
| Device firmware, browser, websocketpp, nlohmann JSON | - | - | not in `src/` or vendored; external |

What is hard here:

- **Concurrency.** The registry is shared without a lock; look-up results are
  pointers used later. Each `lock_guard` of the parse and heartbeat threads is
  destroyed by hand and again by its scope.
- **Ordering.** A device's registration, its heartbeat reports and its messages
  take different queues, and main must see the registration first.
- **Failure.** Any `send` on a connection that has closed throws; nobody catches.
  So does a field of the wrong type, in whichever thread reads it first: main and
  the parse thread end the process, the heartbeat thread only itself, silently,
  and `StartSocket` returns while the process goes on without new messages.
- **Time.** Ages of heartbeats are unsigned differences of wall-clock times.
- **Two copies of every value.** The device, its object and the page each keep
  one; commands, answers to `DEVICE_INFO`, pushes and full updates cross.

What makes each part correct:

| Part | Correct when |
|---|---|
| Mutexes | two threads never touch one queue at once; nobody waits for ever |
| Registry | a UUID is listed at most once, with its newest connection |
| Parse thread | everything received is answered, recorded or passed on; it never ends |
| Heartbeat thread | each change of status reported once, in order; a silent device ends DISCONNECTED, and only a silent one |
| Main | one object per device, there before the device's messages; sends reach the device meant |
| Objects | agree with their devices once nothing is under way; a locked door is not opened; the fridge cools when too warm |
| Page | agrees with the objects once nothing is under way; forwards only to devices that exist |

The 34 hazards behind these, with their lines, are in `PROJECT.json`.

## 2. The modules

### Server: threads, queues, registrations

| Module | Models | Correspondence |
|---|---|---|
| `SocketLocks` | the three mutexes, at the level of single lock and unlock operations | `holder[mutex]`; `pc[thread]` is the place between two operations; one action per lock, early unlock and scope end. Data is abstracted to the branches it can select. `stray` is history |
| `Messages` | packets and messages | a packet is (connection, UUID, command, argument); JSON text is left out, except that a text lacking a required field is the command `MALFORMED`, one whose UUID is no string `UNNAMED`, and a value that does not convert the argument `illtyped`. All commands of device types are `DEVICE` here |
| `Queues` | `heartbeatQueue`, `messageQueue`, the mutex the heartbeat thread holds, whether the process runs | other threads hold a mutex only within one step, so only this holder is state |
| `WebsocketBackend` | `MessageReceived`, the throwing send, the end of `StartSocket` | `closed`: connections no longer open; `listening`: the library's thread still runs |
| `Registry` | `registeredDevices` | look-ups by `Substring` (a constant relation), erasure by equality, as in the code; `capacity` stands for the allocation, so that a dangling pointer can be recognised |
| `ParseThread` | `parseIncomingMessages` | taking and judging a packet is one step (only this thread writes the registry); the second half of a re-registration and the pushes are steps of their own |
| `HeartbeatThread` | `heartbeat` | wake-up, one heartbeat, start of scan, one record, end of scan, and the exception that ends it. `beating`: the thread runs. `age` is the difference the code computes, modulo `Wrap` |
| `MainThread` | `GetMessage`, `SendMessage`, main's loop, `Device`'s status, the website's commands | sends are two steps, look-up and transmission, with the pointer in between. What a device command makes main send is left open here (any messages up to `MaxSends`) and exact in the household |
| `Server` | all of these, interleaved | `latest` is history |
| `ClientChannel` | abstract: what the server promises each client | a channel to main per client: its first registration and what follows it, once and in order; no threads, lists or queues |
| `StatusFeed` | abstract: a feed of status changes | no records, ages or locks |
| `HeartbeatMonitor` | the heartbeat thread between its queues | implements `StatusFeed`; `late` counts heartbeats that a stray mutex lets in during the drain |

`StrayLocks` links the two levels. `SocketLocks` shows that a second unlock can
free a mutex another thread holds; `Server` then assumes nothing about the
mutexes in `StrayLocks`: other threads may enter while the heartbeat thread is
inside. The safety run has both stray, so its properties do not rest on mutual
exclusion between heartbeat thread, parse thread and main. Each single push and
pop stays atomic: two threads inside one `std::queue` is undefined beyond what a
model can say, and is what finding 1 reports.

### Household: objects, devices, page

| Module | Models |
|---|---|
| `Devices` | what all objects do: set a field, send to the device, to the page or both, full update, learn from a `DEVICE_INFO` answer. A handler is a function on turns, `[object, sent]`: the objects it changes and the messages it sends, in order |
| `Column`, `Door`, `Lamp`, `Wall`, `Fridge`, `Furniture` | every handler and setter of the nine device classes (`Furniture`: Bed, Chair, WIB, SimulatedDevice). Door drives Column, Wall drives Lamp |
| `Website` | registration of each class, dispatch of a message, forwarding |
| `WebPage` | `communication.js`: what an update or push changes, what a moved control sends |
| `Household` | the objects at work with devices and a page |
| `Selection` | `Select`, the elements of a sequence at the indices of a set, written so that the proofs can reason about it: a client's messages in a queue, a turn's messages to one client |

`Household` abstracts `Server` to one queue from each client to main and one
back. A client without a connection receives nothing. Only the first
registration reaches main: a later one is not passed on, so the object neither
starts afresh nor asks again. That `Server` keeps such channels is `ClientChannel`
and its two runs. There is one device per type. The device's firmware is not in
the repository: it is taken to obey every command, to answer `DEVICE_INFO` with
its state and to report its sensors. It may keep its state or restart when its
connection breaks, and from then on each of its values is in doubt (`lost`) until
either side happens to mention it; the code has nothing that would settle them
all at once.

`Household`'s assumption `InputAssumption` says of the constants what is true of
every device and page of this system: an answer to `DEVICE_INFO` always has the
same fields, the ones `HandleMessage` reads without asking; a device reports its
sensors, never an actuator main commands or a value main derives; a control of
the page is not a sensor; what the objects calculate with is a number, and a
fridge's reading one of those in the conversion table. It says nothing about
which values, how many devices, inputs or faults.

Values are kept where their width or order matters: the chair's pressure passes
through a `uint8_t`; the fridge's raw reading is converted by a table of the
values that the code's formula gives (477, 482, 487 are 18, 19, 20 degrees; 0
gives a NaN, whose cast to `int` is the constant `NaNAsInt`).

## 3. The runs

| Run | Distinct states | Question |
|---|---|---|
| `locks` | 1,134 | Every interleaving of lock operations: exclusion holds until the first stray unlock, only a scope end can be that unlock, and nobody is stuck |
| `locks_exclusion` | violation | Finding 1 |
| `heartbeat` | 12,145 | Two devices, a clock that moves by 1 or 2, heartbeats that come in during the drain: implements the feed, safety and liveness; a silent device is reported |
| `heartbeat_set_back` | violation | Finding 2 |
| `server` | 690,939 | A website and a chair register, register again from another connection, send, disconnect; all threads interleaved, both mutexes stray: eight invariants and, for each client, an ordered channel to main |
| `server_liveness` | 27,648 | Registrations lead to objects, queues are drained, every channel keeps moving; with an unknown type, malformed packets and fields of the wrong type that end the heartbeat thread or the process |
| `server_ends`, `server_misrouted`, `server_inside` | violations | Findings 3, 4, 5 |
| `home` | 3,032,939 | All device kinds, with connections that break: objects follow devices, the page follows objects, forwards find objects, the fridge cools, a locked door stays shut |
| `home_alarm`, `home_wib` | violations | Findings 6, 7 |

What the less obvious properties say:

- `ObjectBeforeMessages`: main never has to answer "not yet created" to a
  registered device, although registration, reports and messages take different
  paths. `OneObjectEach`: a registration is in one place at a time.
- `StatusAgreement`: what main knows, or will know from the reports in its queue,
  is what the heartbeat thread has on record.
- `LatestConnection`: a device is reached where it registered last.
  `DroppedOnlyWhileReplacing`: main drops a message for want of a registration
  only in the window in which the receiver's is being replaced.
- `RegistrationUntouched`: the list keeps the very message a device registered
  with, and `SendMessage` writes main's text into it. If main could send to a
  device before the parse thread has passed that message on, the registration
  would be lost and main would get its own text.
- `KeepsChannels` (safety) and `ImplementsChannels` (with fairness): `Server`
  implements `ClientChannel`. A client's packets pass a callback, two threads and
  two queues between other clients' registrations, refusals and reports; main
  gets the first registration and all that follows, once and in order, until the
  process ends.
- `AllHandled`: again and again everything received is handled, the packet in
  work included, also after the heartbeat thread has ended.
- `ObjectsFollowDevices` is about all connections of a device, the later ones
  too, field by field. It leaves out a device that was sent a command while its
  answer was under way (`crossed`): that answer overwrites the object's newer
  value and nothing corrects it. After a break it leaves out the fields that
  neither side has mentioned since (`lost`): `SocketServer.cpp:171` does not tell
  main of a re-registration. `CoolsWhenTooWarm` holds even for a crossed fridge,
  because each later answer decides again.
- `LockedDoorStaysShut` is about what main sends, by button, page or alarm.

### Bounds

| Bound | Value | Why it is enough |
|---|---|---|
| `MaxReceived` | 4, liveness 3 | register both clients, register one again, and one more packet; or register one and three more. With 3, one registration and a refused packet |
| `MaxQueue` | 4, 3 | the heartbeat thread starts no round that could exceed it; leaves room for a report of every device beside two messages |
| `MaxSends` | 1 | each send is a look-up and a transmission; two in a row differ only in the second look-up, which is a fresh start |
| `UnstableAfter`, `DisconnectedAfter` | 1, 2 | stand for 1000 and 10000 ms: only their order matters |
| `MaxAge`, `Wrap` | 3 or 4, 16 | one step beyond the larger limit; older records behave alike. The wrap is larger than any age plus limit, as 2^64 is |
| `ClockSteps` | {1,2}, {1}, {1,-2} | a round within a limit and one that jumps over it; backwards for finding 2 |
| `MaxLate` | 2 | heartbeats that come in while one drain goes on, by a stray mutex: one of each device, or two of one |
| `MaxBeats` | 2 | two heartbeats of one device, or one of each, wait for one drain |
| `inputs`, `faults` | per household | {Door, Column} and {Wall, Lamp}: two inputs, no fault; each device alone: one input and one fault; Fridge, Bed, Chair, SimulatedDevice and WIB alone: two inputs |

An input is a sensor value or a moved control, a fault is a broken connection or
a status report. Two inputs give the races between two users' intentions, or
between a user and a sensor; connection, registration, answers and pushes
interleave freely with them and are not counted. Devices start as after power-on
or as after use. Smoke and pressure of 300 lie above the threshold of 240 and do
not fit 8 bits.

Deadlock is checked for the server and its parts: `Ended`, the only stuttering
step, is the process that has stopped. It is not checked for the household,
whose inputs are bounded and which really comes to rest.

### Fairness

- `SocketLocks`: weak fairness of unlocks and of steps that need no mutex; strong
  fairness of acquisitions. `std::mutex` is not fair, but the other threads
  sleep between turns (10 ms in the parse thread and main's loop, 50 ms in the
  heartbeat thread), so a mutex is free again and again for a time that a waiting
  thread does not miss. The receiving thread owes nothing.
- `Server`: strong fairness of the parse and main threads for the same reason,
  weak fairness of the heartbeat thread. Clients and the network owe nothing.
- `HeartbeatMonitor`: weak fairness of the thread, strong fairness of main's
  taking a message.
- `Household`: safety only.

Liveness of the server is checked with `StrayLocks = {}`. With a stray
`heartbeatLock` clients that never pause could keep the drain loop of the
heartbeat thread going for ever (`SocketServer.cpp:296`): no fairness of the
scheduler forbids it. `HeartbeatMonitor` has the stray mutex and bounds only that
(`MaxLate` heartbeats per drain); with it every silent device is reported.
`AllHandled` is about traffic that ends (`MaxReceived`): all of it is handled,
none is stuck behind a mutex.

## 4. Findings

1. `SocketServer.cpp:124` (and 121, 177, 184, 330, 361): a guard is unlocked
   twice; the second unlock frees the mutex another thread holds, and two threads
   are inside the same queue. (`Exclusion`)
2. `SocketServer.cpp:338`: a system clock set back makes the unsigned age huge; a
   device heard a moment ago is reported DISCONNECTED. (`OutOfTimeOnly`)
3. `SocketServer.cpp:129`: the error reply to a client that has gone throws out
   of the parse thread and ends the process. (`NeverEnds`)
4. `SocketServer.cpp:65`: main sends through a pointer into a vector the parse
   thread erases from or reallocates. (`SentToGivenDevice`)
5. `SocketServer.cpp:214`: a UUID that occurs inside a registered one counts as
   registered; main handles its messages without an object.
   (`ObjectBeforeMessages`, with `Inside` for `Substring`)
6. `Column.cpp:160`: without a website the alarm light is switched in the object
   only. (`AlarmLightFollows`)
7. `WIB.cpp:131`: the WIB's object stores nothing, and the next full update sets
   the page back. (`PageShowsWIB`)

## 5. The proofs

| Theorem | Module | For |
|---|---|---|
| `LocksTyped`, `LocksExcludeUntilStray`, `LocksFirstStray` | `SocketLocksProofs` | all interleavings |
| `ServerTyped`, `ServerListsOnce` | `ServerProofs` | any clients, connections, traffic, bounds, and any `StrayLocks` |
| `ServerKeepsChannels` | `ServerProofs` | the same, where no UUID's text occurs in another's (`ExactMatch`); any number of clients |
| `ServerMakesOneObject`, `ServerReachesLatest` | `DeliveryProofs` | any `Substring` relation |
| `ServerKnowsSenders`, `ServerDropsOnlyWhileReplacing`, `ServerLeavesRegistrations` | `DeliveryProofs` | `ExactMatch`; finding 5 shows the condition is needed |
| `ServerAgreesOnStatus` | `DeliveryProofs` | `ExactMatch`; any clock, forwards or back |
| `MonitorTyped`, `MonitorFollowsAge` | `HeartbeatProofs` | any devices, limits, bounds and clock |
| `MonitorTimesOut`, `MonitorImplementsFeed` | `HeartbeatProofs` | a clock that is never set back (`ForwardClock`); finding 2 shows the condition is needed |
| `HouseholdTyped`, `ForwardsReachObjects`, `LockHolds` | `HouseholdProofs` | any household, values, number of inputs and faults |
| `DevicesFollowed`, `FridgeCools`, `PageFollowed` | `AgreementProofs` | the same |

`TurnProofs` and `ListLemmas` hold what these rest on. Every safety property the
passing runs check is stated by one of these theorems.

All rest on the assumptions named in the modules and nothing else:
`UUIDAssumption`, `TypeAssumption`, `SubstringAssumption`, `StrayAssumption`,
`IncomingAssumption`, `NoPacketAssumption`, `ClockAssumption`, `MainAssumption`,
`BeatsAssumption`, and for the household `HouseholdAssumption`,
`InputAssumption` (section 2) and `NaNAssumption` (a cast to `int` gives some
`int`). TLC evaluates each on the instances it checks.

The arguments:

- **Lists** (`ListLemmas`). `RemoveAt` on lists of records with different UUIDs;
  and what `Select` returns of a sequence that grows at its end or loses its head.
  `Select` is defined by recursion, so the second needs induction. The library's
  induction theorem takes a predicate; here it is done over a set instead: the
  set of the naturals for which the claim holds has no least counterexample
  (`SetInduction`). That the recursive function exists at all comes from the same
  lemma (`SelectionsDef`).
- **Locks.** `ExclusionUntilStray` is not inductive: it does not say why a thread
  is alone. `HoldsInside` does: until a stray unlock, a thread inside an access
  holds that mutex. A mutex has one holder, so exclusion follows. The one step
  that could break it for another thread is a release by a thread that does not
  hold the mutex, which is a stray unlock by definition. `LocksFirstStray` reads
  off the same invariant which releases those can be.
- **Types of the server.** `Typed` is `TypeOK`, `ListedOnce` and `Reports`.
  `Reports` is needed because main stores the argument of a `HEARTBEAT` message
  as a status: it is one only because the parse thread passes on neither
  heartbeats nor malformed packets. `ListedOnce` includes that a UUID being
  replaced is not listed, which its own `push_back` needs.
- **Channels.** A step of the server changes each queue at its end or its head, so
  with the lemmas about `Select` it changes one client's part of it by one
  message or not at all. That makes every action of `Server` an action of
  `ClientChannel`, or none, for each client.
- **One object.** `OnePlaceEach`: a UUID's registration is in at most one of the
  packet in work, the queue and the objects, and if it is anywhere, the UUID is
  listed or being replaced. A new registration is passed on only for a UUID
  that is not listed, hence nowhere yet. Look-ups by substring only refuse more.
- **Known senders.** `AnnouncedEach`: a listed UUID has been announced (is in one
  of those places); whatever else of it is on its way (`Heard`: a heartbeat, a
  record, a packet in work) is behind the announcement; in the queue, every
  message has a registration before it until the object exists (`Ordered`).
- **Delivery.** `Kept`: whatever main sends to, may come to send to, or has an
  object for is listed or just being listed again, and while a registration is in
  work, nothing of its UUID is on main's side. The first half is why a dropped
  message means a replacement in progress; the second keeps `SendMessage` away
  from the message in work, but only together with `Aimed` and `OffTarget`, which
  follow the pointer through erasures and reallocations: it may come to point to
  another device's entry, but not to the one just added. `Youngest` gives
  `ServerReachesLatest`: of the registrations of a UUID that wait in `RxQueue`
  the last came on the latest connection, and if none waits, the one in work or
  the one listed did. It needs no condition, because erasure compares exactly.
- **Status.** `AgreedEach`: for every record, main's status after the messages in
  its queue (`LastWord`) is the record's, unless the record is `New`, made in
  this round and not yet scanned. Main's step is where `ServerKnowsSenders` is
  needed: a report that met no object would be lost.
- **Heartbeats.** `Older`: between heartbeats a record only ages, so the status
  reported last is never worse than its age deserves; a step to DISCONNECTED is
  then a step over the limit. `MonitorImplementsFeed` maps each action: queueing
  a heartbeat is `Beat`, taking it `Notice`, a report `Connect`, `Degrade` or
  `Lose`, everything else stutters; `Older` is why `noticed` does not change when
  the clock moves.
- **A turn of main** (`TurnProofs`). `Ends(s, place, f, x, v)` says what a queue
  is worth: a receiver that has x for field f and takes the messages s one by one
  ends up with v. `TurnOK` says of a turn under way that each device, and the
  page, will end up with what their object holds then, from what the turn began
  with; every operator handlers are composed of keeps it, so every handler does,
  those that drive another device's object included. Where a handler sets a field
  and tells nobody yet, that field is named as the exception (`S`, `P`) until it
  does. `Turned` sums this up for all messages of all clients.
- **The household's queues** (`IInv`). `TypeOK` and `ForwardsFindObjects` are not
  inductive. `Traffic` says what may be in each queue and that main can interpret
  it (`OutOK` of an update: it names only devices with an object), `PageOK` that
  the page takes for connected only devices with an object, and none while it has
  no connection. Main never removes an object, so what an update made controllable
  stays so. `LockHolds` is then a property of the handlers that send
  to the door.
- **Devices and objects** (`Following`). For a device that no command crossed,
  main's question is on its way, or the answer is and holds what the device has,
  or what is under way will make the device what main believes it to be
  (`CommandsFollow`). In the other direction, and crossed or not, reports and
  answers will make the object what the device senses (`SensesFollow`). A fridge
  needs a third part (`CoolingFollows`): whatever it was told before, the answer
  decides cooler and fan again. All three exclude only the fields in `lost`, and
  `Doubted` says a broken connection puts all of them there. With empty queues,
  `Ends` says both sides agree.
- **The page** (`PageFollows`). The page will take the device for disconnected, or
  for each field whose changes main sends there, the user has set another value that main has not handled yet
  (`Pending`), or what is under way to the page ends with the object's value. A
  forward main refuses still ends the wait, because every branch answers with the
  value that holds; that is the part of `Turned` about `WEBSITE_FORWARD`.

Only model-checked: liveness (`NobodyStuck`, `SilentReported`,
`RegistrationHandled`, `AllHandled`) and the fairness halves of `ImplementsFeed`
and `ImplementsChannels`, which are out of the prover's reach. That the table in
`Fridge` is what the code's formula gives was calculated by hand: the model has no
logarithm.

## 6. What is not modelled

- Device firmware, the browser and the libraries, beyond what the code's use of
  them shows (section 2).
- The vendored libraries under `src/include/` (asio, websocketpp, nlohmann JSON), which are most of the repository's lines:
  none of the server's logic is in them. They appear as far as the server
  notices: delivery in order per connection, connections that close, sends and
  conversions that throw.
- JSON texts: which fields are missing or of the wrong type is modelled, and which
  handler notices; the wording is not.
- The memory of a queue two threads are inside of, and the sharing of the last
  packet's payload pointer by the parse thread; both follow from finding 1.
- A look-up in the registry is one step: the race of its loop with an erasure has
  the same outcomes as the pointer that goes stale afterwards.
- Logging, the text of messages, the layout of the page.

Left out of the household's properties because the code does not keep them in
step and no comment promises it (the model has the behaviour): the LED strip's
level, the requested temperature on the page, the switches of bed and chair in
full updates, the wall's two enabling switches (a full update sets them from the
fields of the curtain and the lamp, `communication.js:243`), pushes of the curtain, the door bell silencing the smoke alarm, the
dimmer that returns early when its lamp is absent. The method that would
convert the outside temperature is never called.

## 7. Plan

Written in this order: locks, queues and threads one by one, `Server`, heartbeat
refinement, proofs of locks and server, objects, page, household; then the error
paths, heartbeats during the drain, the channels between clients and main, later
connections in the household, the proofs of delivery, status and heartbeats; and
those of the channels and of the household.

What is left, in order of use:

1. `Household` with more devices at once, and faults together with two inputs;
   the present instances take the greatest part of the checking time.
2. A property for the page's switches that full updates leave alone or set from
   other fields (section 6); it fails as `PageShowsWIB` does and says the same.
3. Proofs that `Server`'s channels are the queues `Household` starts from, as one
   theorem: at present `ClientChannel` states the promise and `Household` is
   written from it.
