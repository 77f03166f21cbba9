# A verification development for rdbus

`rdbus` polls devices on serial lines (Modbus RTU, NMEA 0183) and Wago modules
over EtherNet/IP, and gives their readings out as JSON, either on `stdout` or
through an HTTP server. This directory holds TLA+ modules that model it, TLC
configurations that check them on small instances, and TLAPS proofs. Paths such
as `out/Buffer.cpp` are relative to `src/src/rdbus/`.

## The system

| Component | State | Operations | Interacts with |
|---|---|---|---|
| `apps/main.cpp` | `keepRunning`, `result`, one thread per manager | configure, start, join, SIGINT | makes output and managers |
| `Initialize.cpp`, `apps/initialize.cpp` | none | make configurations, output, tasks, processors, managers | `main` |
| `Manager.cpp` | its tasks and processors | `run()`: tasks in turn, send readings, process, send limits | tasks, output (shared by all managers) |
| `tasks/` | `lastRun` per task | poll a slave or module when due, listen | communicators |
| `communication/Connection.cpp` | file descriptor (and the kernel's buffers behind it) | open and flush, `sendData`, `getData` with two time-outs | adapters |
| `communication/modbus` | none of its own | plan requests, exchange, interpret registers | `Connection`, library MB |
| `communication/nmea` | none of its own | read until a pause, split, check and interpret sentences | `Connection` |
| `communication/wago` | none of its own | read instances one by one, map to a range | library EIPScanner |
| `processing/limits` | per device and field: the values of the last minutes | `process` | called by its manager |
| `out/Storage`, `out/Buffer` | a deque of (time, reading); a deque of limits | `add`, `parseFrom` | the HTTP output |
| `out/http/Sessioner` | session id -> time of last access | `create`, `getLastAccessTime` | the HTTP output |
| `out/http/HTTP` | the two above, a mutex, the server's thread | `send` (two), `GET /read`, `GET /process/limits` | managers' threads, two pool threads of httplib |
| `out/pipe/Pipe` | none | `send` (two) | `stdout` |
| `config/` | none | parse and check configuration files | initialisation |

What makes it hard:

* `GET /read` promises each session every buffered reading once, but keeps no
  position: a session has the *time* of its last access and the buffer the time
  of each batch, both from `system_clock`, and a binary search relates them.
  Sessions expire while others are read; the buffer drops its oldest readings.
* Two pool threads and all managers share the output under one mutex; exceptions
  leave the handlers at three places (an expired session, a reading that cannot
  be rendered, an unknown processor).
* A Modbus exchange is told from the next by time-outs alone. Nothing discards
  the input before a request and nothing compares an answer with the request.
* An NMEA talker says what it likes when it likes; where a sentence ends is told
  by its first character and by pauses, and nothing is kept from read to read.
* Which bytes of which answer make up a field is settled by sums over registers
  in a plan that was grouped by address.
* Limits are worked out in private by each manager and published in a shared
  buffer, under a different visit to the mutex than the readings.
* SIGINT and exceptions of managers stop threads that may be anywhere, and the
  output is destroyed by whoever lets go of it last.
* A configuration is found wrong at four different places, the last of them after
  the output and some of the managers have been made.
* Some state outlives the code that sets it: the settings of a serial line belong
  to the device, and `std::localtime` to the whole process.

What makes the components correct (the properties are listed under the modules
below): sessions neither skip nor repeat; the buffer overflows only at its old
end; critical sections are atomic; an answer is given to its request; a silent
slave starves nobody; a field is made of its own register's bytes, an entry of
one whole sentence; limits are exact, one entry per device; the program exits
when told to, with the right code.

## Modules

```
Sessioner   StreamBuffer          ReadLog            what GET /read promises
      \      /                      ^
     HttpOutput  -- implements -----+                one step per critical section
          ^
     HttpThreads -- implements HttpOutput            threads and mutex
ModbusLine                                           one manager's Modbus line
ModbusCodec                                          registers, requests, bytes, fields
NmeaLine                                             one manager's NMEA line
WagoModules                                          modules, instances, mapping
SerialPort                                           settings of a line over restarts
     \-- these four: Protocols                       one file of either protocol
Limits                                               managers, limits, Single buffer
Configuration                                        which files are accepted
Manual                                               what a file is asked to be
Rendering                                            times on their way to stdout
     \-- these three: Program                        main, files, threads, SIGINT, end
```

The theorems about a module `M` and their proofs are in `M_proof`, which extends
it: there are `HttpOutput_proof`, `HttpThreads_proof`, `ModbusLine_proof`,
`NmeaLine_proof`, `WagoModules_proof`, `Limits_proof`, `Program_proof` and, for
`SerialPort`, `ModbusCodec` and their composition, `Protocols_proof`.
`MC*.tla` instantiate the modules for TLC. Names ending a definition's comment with
"a bug:" are plausible wrong versions of the definition next to them; they are
used by no specification and serve to show that the properties can fail.

### Sessioner, StreamBuffer, HttpOutput

`Sessioner` is class `Sessioner`: `cookies` is its map, `Create` and
`Access`/`Refuse` are `create` and the two outcomes of `getLastAccessTime`,
`Unexpired` is what `clearExpiredCookies` keeps. `StreamBuffer` is
`Buffer<rdbus::Data>`: readings are numbered in the order they are stored, so
the deque is the interval `dropped+1..stored` with the time `stamp` of each;
`Add` is `add` with `constrainSize`, `From` is the result of `upper_bound` - any
place a binary search may end at, which is unique only in a sorted deque.

`HttpOutput` composes them with clients. Each handler is one step with one
reading of the clock: `Publish` is `send`, `ReadNew`, `ReadOn` and `ReadRefused`
are the three ways through `GET /read`. The text is rendered after the mutex is
released and may fail (`Unprintable`); the session has moved on by then, and the
`Set-Cookie` header stays on the reply. Clients receive or lose replies and may
forget their cookie; they are external. `ClockSteps` says by how much two
successive readings of `system_clock` differ.

Properties:

* `StampsSorted`, `DropsOnlyOverflow`: what `parseFrom` needs of the deque, and
  what `constrainSize` may do to it.
* `ReadPosition`: the time kept for a session separates exactly the readings it
  has been given (history variable `served`) from the others.
* `ActiveNeverRefused`: a client that returns within the time-out is not refused,
  whatever became of the table meanwhile.
* `ImplementsLog`: with `served` for the cursor, `HttpOutput` implements
  `ReadLog`, an abstract specification of `/read` that knows no clock, no cookie
  times and no search: a log that loses readings at its old end, and sessions
  that get each reading still in the log once. A reply that is lost or cannot be
  rendered counts as read; that is what the code does.
* `OwnSession`: a client's cookie names the session opened for that client or
  none. The code violates it, see below.

### HttpThreads

The same handlers in the steps of their threads: a request waits in httplib's
queue (external) for one of the pool's handlers, which takes the mutex, settles
the session, copies the readings, releases the mutex and renders; a manager
polls, takes the mutex and stores. A refused session throws inside the critical
section; the lock is released by unwinding (`Leave` at `"thrown"`). Checked:
`Exclusion`; `Answered`, every request is answered; and `ImplementsOutput`, the
refinement to `HttpOutput` in which a read happens when its session is brought
up to date - the justification for treating critical sections as single steps.

### ModbusLine

One manager's thread on its Modbus line: `StartTask`/`SkipTask` are
`PollSlave::run`, `Send` is `sendData`, `Read`, `TimeOut` and `Nothing` are
`getData`, `Accept`, `Reject`, `Abandon` and `Complete` are the adapter's and
the communicator's outcomes. Answers travel in pieces (`coming`, then the
kernel's `inbox`); slaves may be silent, answer with data in two pieces, with an
exception or with noise; pieces vanish; the device may be unplugged. A piece is
`current` until the next request is written. `LateAnswers = FALSE` is the timing
assumption on which the protocol rests: what is on the wire arrives (or is lost)
before a time-out elapses. Properties: `QuietLine`, `Attributed`, `CurrentOnly`
and the liveness property `PolledForEver`.

### ModbusCodec

What `ModbusLine` leaves out of an exchange: from the registers of a slave's
configuration to the fields of a reading. `Spacing` is the configuration's check
that registers do not overlap, `Groups` and `Requests` are `requestPlan`,
`Merged`, `BigEndian` and `Value` the stages of the interpreter. A register's
bytes are named by their table, address and half, so that a field's value shows
which byte it took for which significance; no arithmetic is needed to see a byte
out of place. Registers of 2, 4 and 8 bytes and any order that is a permutation
are covered (`CodecAssumption`); `config/modbus/Register.cpp` also lets an order
pass that names a byte twice or one the word does not have. Properties:
`SpacingExact` (comparing neighbours finds every overlap, and only overlaps),
`PlanExact` (the requests cover the registers' words, each once, and cannot be
fewer), `FieldsExact` (one field per register, of its bytes, in the documented
order). `OrderAsDocumented` says the last for every order; the code violates it
for those that are not their own inverse, see below.

### NmeaLine

One NMEA manager's thread, its connection and its talker. A sentence is four
pieces - `$`, text, `*` with the checksum, CRLF - and each may be lost or arrive
as noise, which is text without any of the characters that have a meaning. The
listener begins anywhere in the first sentence. `Read`, `TimeOut` and `Return`
are `getData`; `Split` is `split`; `Interpret` is one round of the loop in
`receive`, with `Valid` for `validate`, `Tokens` for the constructor of
`Response` and `Accepted` for `interpreter::parse`; `Deliver` is the manager's
send. Where a lost comma or line end lets tokens run into one another, `Tokens`
says so, and a number with trailing rubbish still converts, as it does in the
code. `Spoiled` is what excuses a sentence from being given: damage to itself, a
pause within it, or the loss of the `$` after it. Properties: `Unmixed`,
`OnceInOrder`, `Heard` and the liveness property `HeardAtLast`. `Unmixed` is
stated for lines with checksums, and rests on the count of fields as much as on
them: two sentences run together with only the first one's checksum left have a
good checksum, but too many fields. A sentence with fewer fields than configured
can so be completed by a later one's, and is then given with fields of both; one
of the instance's talkers sends such a sentence. `Completed` names that exception:
it takes the loss of both the `$` and the checksum of the later sentence. It came
to light as the case in which the proof of `Unmixed` would not go through. Every
sentence of a talker has at least one field (`NmeaAssumption`): without a comma,
`cleanBack` would cut the id.

### WagoModules

The modules of one controller. `Overlaps` and `Filled` are the two passes over
the offsets in the order `parseWago` makes them; `PollModule`/`SkipModule` are
`PollModule::run`; `GetSingle` is one round of the loop in `request` (a session,
a request for the next point, the mapping of its word), `GetFails` either
exception, `Complete` the return. `ExtractAnalog` and `Map` compute in integers
of the widths of the code. Properties: `OffsetsExact` (modules lie where the
README says, and are refused only if one would reach into another - see
`Hidden` below for when they should be and are not), `OwnPoints` (an entry holds
all points of its module, each once and in order, or an error alone),
`MappingExact` (in proportion, rounded towards the lower end, ends exact, for any
range an `int16_t` can hold).

### SerialPort

The settings of a serial line, which the device keeps when the program ends:
`OpenLine` is the constructor of `Connection` up to `tcsetattr`, `SetupIO` is
`setupIO`, `Restart` starts the program anew, maybe with another configuration.
`LineAsAsked`: an open line has the parity, speed and flow control that are asked
for whatever it was used for before. The one exception is stated there too:
`CSTOPB` is set for two stop bits and never cleared for one.

### Protocols

The four modules above under the `protocol` of one configuration file, which says
what kind of devices there are (`from_json` of `Config`, `initializeTasks`); the
parts that play no role are empty. A line is only heard while it is open.

### Limits

All managers with their limits processors and the shared Single buffer. A step
is what a manager does between two visits to the mutex: `Poll`, `SendReadings`,
`Process`, `SendLimits`. `history` is the processor's map; `list` has the entry
of each device that was due, and since a manager's tasks are of different
devices, the loop over them in `process` is a map over the devices (`Learnt`,
with `Updated` for one round); `Posted` is `removeIntersection` and the
appending after it. Entries bear the time of their reading, which the code leaves
out, so that equal limits of two readings stay two entries of the set `board`.
`stream` remembers every value sent, and the properties
speak of it: `BoardExact` (the incrementally pruned history yields exactly the
extremes over the window of the last reading), `LimitsFollowReadings` (no limits
of readings that have not been sent), `OnePerDevice`. Entries of NMEA devices are
left out: the configuration refuses limits for them. Fields always have a value
here, as those of Modbus and Wago devices do.

### Configuration, Manual, Rendering

`Configuration` says which files are accepted. A file is a record of what the
program tells apart in it; an optional section is a set of at most one record, and
`keys` stands for the many calls of `parseKeyValue`. There is an operator for
every `from_json` and for every check between sections, named as the function in
`config/` or cited in its comment.

`Manual` is what the README's chapter "Configuration" and, where it is silent, the
tests in `tests/serializers` ask of a file. Of `Configuration` it uses the shape of
a file (`IsFile`) and none of the operators that read or check one, so that the
two can be compared: `Sound` says it section by section. It follows the README where
the code does not: the limits of a file for NMEA may name the device of that file
(README.md:456, 524, 585), and `Disabled` is the name of the files that the code
refuses for it (`Config.cpp:257`).

`Rendering` is the way a time becomes text: `LocalTime` and `FormatTime` are the
two halves of `formattedTime`, with the object between them that
`std::localtime` has but one of.

### Program

`main.cpp` and what it makes and destroys: arguments, the files (all read, then
all checked), the output with its buffers, a manager after the other, the
managers' loops with their sends, the two writes of the catch
blocks as separate steps, SIGINT at any moment, the joins and `~HTTP`.
`PromptServer` is the timing assumption that the server's thread has come to
listen before `stop()` is called; `LinesEnd` that `getData` returns. Properties:

* `RunsExactlySound`: managers' threads exist only with files that `Manual` calls
  `Sound`, and the program gives up over its configuration only if a file is not,
  or is `Disabled`.
* `LimitsHaveBoard`: what the processors of any running manager work out has a
  buffer, and speaks of the manager's own devices.
* `ExitCode`, `OutputOutlivesManagers`, `InterruptExits`, `FailureExits`.
* `OwnTimes`: what a manager prints bears its own readings' times. The code
  violates it, see below.

## Runs

| Run | Instance | Shows |
|---|---|---|
| `http_output` | 2 clients, buffer of 2, batches of 1-2, 4 readings, time to 8, time-out 3, clock steps 1 and 3, one unprintable reading | all of the properties above except `OwnSession` |
| `http_reissue` | as `http_output` | **violation** of `OwnSession`: the id of an expired session is given out again |
| `http_threads` | 2 clients, 2 handlers, 1 manager, 2 turns each | `Exclusion`, `Answered`, `ImplementsOutput`, no deadlock |
| `modbus_line` | a slave with 2 requests, one with 1; poll times 1 and 2; 4 pieces | all properties of `ModbusLine`, no deadlock |
| `modbus_late` | the same, answers may be late | **violation** of `Attributed`: a late answer is given to the next request |
| `modbus_order` | the order BCDA | **violation** of `OrderAsDocumented` (`config/modbus/Register.hpp:16`) |
| `protocols` | up to 3 output and 1 input registers of 1 or 2 words, at addresses 0 to 3, three orders; talkers of three and twice of two sentences, six kinds of sentence, with and without checksums, two damages; up to 3 modules of 1 or 2 instances at offsets 1 to 5, 21 ranges, 30 words and both ends of them, poll times 1 and 2; lines of all parities, stop bits and two speeds | `SpacingExact`, `PlanExact`, `FieldsExact`; all properties of `NmeaLine`, `WagoModules` and `SerialPort`; no deadlock |
| `limits` | 2 managers; watched devices of 2 and of 1 fields and one that is not watched; 2 values; window 1, time to 4 | all properties of `Limits` |
| `program` | up to 2 files: 10 that are accepted, 46 that are not, at least one for each check, and pairs of these | all properties of `Program` except `OwnTimes`, no deadlock |
| `pipe_times` | 2 managers that print | **violation** of `OwnTimes`: a time of another manager's reading (`out/pipe/Pipe.cpp:13`) |
| `program_hangup` | a device may keep `getData` from returning | **violation** of `InterruptExits` (README.md:835) |
| `program_late` | the server may be stopped before it listens | **violation** of `FailureExits` (`apps/main.cpp:78`) |

Why the bounds are enough. In `http_output` the buffer overflows, with batches
that straddle the limit, sessions outlive the readings they have not read, both
clients' sessions expire in either order, and the table becomes empty and is
filled again. In `http_threads` both handlers and the manager compete for the
mutex while a session expires and another has just been opened; `MaxTime`,
`MaxStored` and `MaxSession` are beyond what `MaxTurns` allows, so they stop no
thread. In `modbus_line` a two-request plan shows the partial failure and two
slaves the confusion between neighbours; `MaxComing` is never reached when
answers are in time. In `protocols` three
registers at four addresses overlap, touch and leave gaps, in every order of
configuration, so that a request has a first, a middle and a last register; two
damages are what it takes to join two sentences under one
checksum, which one of the talkers makes a mixed entry of (`Completed`); three modules are what a check of neighbours can miss; the ranges
include both ends of `int16_t`, where the mapping's products are largest; and
serial lines are opened any number of times. In `limits` a value falls out of the window at the third
reading. In `program` every check has a file that it alone refuses, at first and
at second place; two managers are enough for one to fail while the other runs. The horizons (`MaxTime` and the like) end the
behaviours of `http_*` and `limits`, which is why these check no deadlock; in
`modbus_order` a slave that has been refused or read is done with.

Fairness. `HttpThreads` assumes weak fairness of each thread's steps, and strong
fairness of taking the mutex: `std::mutex` promises no order, but it is held for
the time of some copying, and managers spend nearly all of theirs waiting for
their lines. `ModbusLine` assumes that the manager's thread runs, that time
passes and that what is on the wire arrives or is lost. `NmeaLine` assumes
that the manager's thread runs and that the talker either speaks on or pauses;
its sentences come to an end, so it pauses at last (one that never does holds
`getData` for ever: `program_hangup`); `Protocols` assumes the same of its NMEA
part and nothing of the others, of which only safety is stated. `Program` assumes that
every thread of the process runs. Clients, devices and SIGINT owe nothing.

## Proofs

Each invariant below is proved the same way: an inductive one that implies it
holds at first, and is kept by every action. TLC has checked the inductive ones
on the runs' instances, except `PlanInv`, which quantifies over functions.
Theorems hold for every value of the constants that the modules' assumptions
admit; two assumptions on the surroundings are made by single theorems, and are
named where they are.

`HttpOutput_proof`, for every set of clients, buffer size, time-out and bound:

* `TypeCorrect`. `TypeOK` is inductive by itself, for any clock.
* `OnlyOverflowDropped`: `DropsOnlyOverflow`, for any clock.
* `PositionsExact`, `DequeSorted`: `StampsSorted` and `ReadPosition`, assuming
  `StrictClock` (every step of the clock is positive). Neither is inductive:
  that a batch comes after every session's last read, and a read after every
  stamp, holds only because no time in the state is ahead of the clock. `IInv`
  adds that (`PastTimes`).
* `ActiveServed`: `ActiveNeverRefused` under the same assumption, from an invariant
  that relates a client's last read to the time in its session's cookie.
* `LogImplemented`: `ImplementsLog` under the same assumption: by `IInv` the search
  can end only at the first reading the session has not had (`SearchExact`), and
  from the epoch only at the front (`SearchEpoch`).

The assumption is needed: with a clock that may be set back (`ClockSteps` with
-1) TLC finds `StampsSorted` violated, although the comment at
`out/Buffer.cpp:105` says "the buffer will always be sorted"; and within one tick
of the clock a batch stored at the time of a session's read is never given to it,
as `upper_bound` looks for later times only.

`HttpThreads_proof`, for any number of handlers, managers and clients:

* `MutexExcludes`: `Exclusion`, from `MutexInv`, whatever the clock does.
* `OutputImplemented`: `ImplementsOutput` under `StrictClock`. `ThreadInv` says that
  every client has one request under way at most, at one place (`OneEach`), that a
  handler inside has a session exactly between settling and leaving it
  (`HandlersInv`), and `IInv` of the shared part. Under the refinement mapping
  (`Shown`) settling a session is the whole of a read, storing is the whole of a
  `Publish`, and all other steps but a client's stutter; there is one lemma for each
  of these (`OpenIsReadNew`, `ResumeIsReadOn`, `RefuseIsReadRefused`,
  `StoreIsPublishHere`, `HearsIsHeard`, `CopiedIsSettled`).

`ModbusLine_proof`, for any slaves, plans and poll times:

* `LineTypes`: `LineTypeOK`, however late answers are.
* `LineQuiet`, `AnswersAttributed`, `AcceptsCurrent`: `QuietLine`, `Attributed` and
  `CurrentOnly`, assuming `~LateAnswers`. That the assumption is needed is what
  `modbus_late` shows. `TalkInv` says where pieces of the outstanding request's
  answer may be in each phase, and that nothing else is on the line (`WireInv`).

`NmeaLine_proof`, for any talkers, configured sentences, damage and pauses:

* `NmeaTypes`, `GivenInOrder`, `GivenUnmixed`, `HeardOrGiven`: `NmeaTypeOK`,
  `OnceInOrder`, `Unmixed` and `Heard`. None but the first speaks of more than its
  ends: what is given, and what was said. `NmeaInv` follows a piece all the way, by
  its place among all that is ever said (`Rank`). `StreamInv`: what has been read
  and what the kernel holds are, in this order, in line (`InLine`), miss nothing
  that was not damaged (`ReachesTo`) and have nothing between two undamaged
  neighbours (`Tight`). `ChunksInv`: chunks begin at a `$` and nowhere else have
  one, are in line, and lie before what is still to be split. `EntriesInv`: an entry
  without error is of a sentence whose text lies before all that still waits
  (`Sound`), which is why no read can give it again, and is `Right`, the body of
  `Unmixed`. `HeardInv`: an undamaged sentence is given, an entry, a chunk of
  exactly its four pieces, or all its pieces said so far are in line (`OnItsWay`).
  The heart is `EntrySound`: from a good checksum and the count of fields to one
  sentence's fields - any later text in the chunk must have lost the `$` between
  (`Swallowed`) - and `SplitsWhole`: a sentence heard whole is cut out whole. What
  `Split`, `Kept` and `FlattenSeq` compute is shown in the module's first part
  (`NthIs`, `KeptIs`, `FlattenIs`, `SplitChunks`).

`Protocols_proof`, for the manager made from any one file:

* `LineSetUp` (of `SerialPort` by itself): `LineAsAsked`, for any set of settings
  and any number of restarts.
* `SpacingCorrect`: `SpacingExact`, for any number of registers at any addresses.
  `InOrder` is some sorted arrangement; that there is one is shown by inserting a
  register after the other (`SortExists`), and by `Spans` neighbours in it that do
  not overlap leave no room for others that do (`SpacingRight`).
* `PlansCorrect` and `FieldsCorrect`: `PlanExact` and `FieldsExact`, for the same
  registers and any plan, assuming (`CodecAssumption`) that an order is a
  permutation of its word's bytes, which the program does not check.
  `Groups`, `WordCount` and `FlattenSeq` are folds. What a fold leaves behind at each
  place is a function on the places (`IteratesExist`), and facts about it are shown
  by least counterexamples. `GroupsAre`: the groups cut the sorted registers
  wherever the next is not adjacent, and only there (`Grouped`), so that each is a
  chain whose words reach from its first register's to its last's (`ChainSum`,
  `GroupIsChain`), and between two requests a word is left out (`RequestsAre`).
  `ParseIs`: by the same sum, the words a register is cut from an answer are its own
  (`MergedIs`), and putting them in order by an order's inverse gives the documented
  value if the order is its own inverse (`ValueRight`). `PlanInv` joins these over a
  poll: a register has its field, or is asked for by a request that is left
  (`Planned`, kept by `PlannedNext`), and as many fields will come as there are
  registers.
* `ListenerCorrect`, `LinesSetUp`, `ModulesCorrect`: what is proved of the parts on
  their own is so in the composition, whatever the protocol.

`WagoModules_proof`, for any number of modules at any offsets:

* `OffsetsDocumented`: `OffsetsExact`. `Filled` is a recursive function; what it
  computes is shown by least counterexamples over the natural numbers (`Least`),
  which needs no induction rule. For `BaseExists` every module has a last one
  before it whose offset is given, and by `FilledAt` it lies behind that one by
  the sizes in between.
* `PointsOwn`: `OwnPoints`, from `RequestInv`, on what has been read so far.
* `MappedExactly`: `MappingExact`, for all ranges of 16-bit numbers and all words
  without the sign bit (`MapExact`: nothing is lost by the conversion to `int16_t`).

`Limits_proof`, for any managers, devices, fields, values and window:

* `LimitsTypes`, `BoardBounded`: `LimitsTypeOK`, `OnePerDevice`.
* `ReadingsFirst`: `LimitsFollowReadings`.
* `LimitsExact`: `BoardExact`. The property speaks of managers between two polls;
  the invariant has to say at every place in `run()` what a processor knows.
  `Known` is what was sent of a device except the readings that are about to be
  processed, `HistoryInv` that the processor's past is exactly what is within the
  window of that, `FreshInv` that readings not processed yet are later than all of
  it, and `UpInv` that the last word about it is on the board or in `outgoing`.
  `UpdatedIs` is the heart of it: pruning by the new reading's time and adding its
  values turns the one window into the next. It rests on the clock: two polls
  of a device are never made at the same time. That no other manager has a device
  of the same name is assumed (`LimitsAssumption`), and not checked by the program
  across files.

`Program_proof`, for any number of files, whatever they hold:

* `ProgTypes`, `OutputSafe`, `ReturnsFailure`: `ProgTypeOK`,
  `OutputOutlivesManagers`, `ExitCode`, from `LifeInv`: what threads, output and
  result may be at each place of main (`PhaseInv`) and after each failure
  (`FaultInv`).
* `SoundRuns`, `BoardsThere`: `RunsExactlySound` and `LimitsHaveBoard`, from `FilesInv`,
  what has been checked of the files by each place of main, and two lemmas about a
  file: one that passes the four places' checks is `Sound` (`ParsedIsSound`), and a
  `Sound` one passes them or is `Disabled` (`SoundIsParsed`). They go section by
  section, as the checks and the manual are stated differently: registers
  (`RegisterRight`), devices (`DeviceRight`), names and ids, which the code sorts
  and compares with their neighbours (`DevicesApart`), limits, which the code joins
  before it looks for one that is not the file's own (`LimitsRight`), and the port,
  of which from_json and the managers' constructors each check a part (`PortRight`).

Only model-checked:

* Liveness (`Answered`, `PolledForEver`, `HeardAtLast`, `InterruptExits`,
  `FailureExits`): fairness and ENABLED are out of the prover's reach. Every
  invariant, action property and refinement of the passing runs is proved.

## Not modelled

Left out for good: the layout of the JSON, logging, the external libraries' inner
workings (httplib's queue and threads, MB's frames, EIPScanner, argparse) beyond
how this code uses them, and what the language leaves undefined (reads past the
end of an answer, NaN among the values of limits); the hazards in `PROJECT.json`
name these with their lines.

Divergences met on the way that no run shows as a violation:

* The overlap of Wago modules is checked before the offsets that are not given are
  filled in: offset 1 with two instances, then two instances without an offset,
  then one at offset 3, are accepted and share a point (`Hidden`).
* An offset of 1 cannot be told from none: a module given it explicitly is moved
  behind the module before it.
* A word with its sign bit is mapped as a number near -32768, not as a small
  negative one.
* One stop bit is not restored on a line that has had two (`LineAsAsked`).
* README.md:456 lists, among the devices that limits may watch, the "top level `name`
  (NMEA)"; `Config.cpp:257` refuses every file for NMEA that has the section, even
  one with no limits in it, and CHANGELOG.md:7, "Available for Modbus and Wago
  protocols", agrees with the code. `program` has such files, and `RunsExactlySound`
  names them as its one exception (`Disabled`). `validateLimitsProcessorNMEA` is
  never called.
* The README names the key of that section `data_processing`, the code and
  CHANGELOG.md:8 call it `data_processors`; `Manual` is about the section, whatever
  its key.
* The README's examples of whole files for Modbus and NMEA lack the two time-outs
  of `serial` that the code, and the README's own section on `serial`, ask for.
* `--ip` without a colon takes the address for the port as well.
* Two fields of a sentence may have one name (one of the files of `program` has
  them, and `Sound` does not ask otherwise). `tests/serializers/nmea/SentenceTests.cpp:61`,
  `TestDeserializationDuplicateFieldNames`, expects such a sentence to be refused,
  and passes only because it reads the sentence as a field (line 68).
* Two files may name the same serial line, or the same devices.
* An order of bytes may name a byte twice, or one its word does not have. README.md:131
  has the letters put "however you like", so `Manual` asks no more of it.
* The handler of an expired session sets status 401 and then 500; sessions are
  cleared only while some session is read, so requests without a cookie alone let
  the table grow; limits of a device that has gone silent stay on the board; a
  bind failure is silent.

## Plan

Every safety property that a passing run checks is proved. What is left of the plan
is to shorten: arguments by a least counterexample recur in `NmeaLine_proof`,
`WagoModules_proof` and `Protocols_proof`, and could share lemmas.
