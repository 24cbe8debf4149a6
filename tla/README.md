# A verification model of ChimeraTK DeviceAccess

DeviceAccess is a C++ library to access hardware registers through accessors.
An application opens a *device*, gets *accessors* (TransferElements) for its
registers and reads or writes them. Accessors with the flag `wait_for_new_data`
receive data asynchronously, pushed by threads of the *backend*. This directory
holds TLA+ modules which model the concurrent and the failure-prone parts of
the library, TLC configurations which check them, and TLAPS proofs.

The reference for every definition is the C++ source. Where a property quotes
the specification `doc/spec_TransferElement.dox`, the number of the paragraph
(B.9.3.4) is given.

## Inventory

| Component | State | Operations | What makes it correct |
|---|---|---|---|
| DataConsistencyRealm | newest key, circular buffer of versions | `getVersion(key)` | same key, same version; larger key, larger version |
| async::DomainImpl, SubDomain, distributors, AsyncNDRegisterAccessor | active flag, stored message, activation version, last versions, queues | `distribute`, `activate`, `deactivate`, `sendException`, `subscribe`, destructor of the accessor, `read` | streams in order, no update missed, one exception per error, no `logic_error` in a library thread |
| DeviceBackendImpl, DomainsContainer, NumericAddressedBackend | opened, exception flag and message, `_asyncIsActive`, `_isSendingExceptions`, request queue, two kinds of mutexes | `setException`, `open`, `activateAsyncRead`, `close`, `subscribe`, exception thread | an error switches everything off, once, before the recovery; no deadlock; no `terminate` |
| TransferGroup, TransferElement | transaction flags, exceptions, versions, buffers of each element | `read`, `write`, pre, transfer and post functions | all or nothing; errors are reported; versions tell what was transferred |
| TransferGroup::addAccessor, low-level elements | which accessor uses which low-level element, address ranges, copy decorators, `_isInTransferGroup` | `addAccessor`, `replaceTransferElement`, `isMergeable`, `setAddress` | every register covered, nothing transferred twice or in addition |
| unaligned write | `_unalignedAccess` mutex, words of the hardware | `write` of single accessors | neighbouring registers are kept, the lock is released |
| ReadAnyGroup | notification queue | `waitAny`, `readAny`, `accept` | order of the notifications, none lost |
| DataConsistencyGroup, matchers, DataConsistencyDecorator | versions, histories with buffers, last match | `readAny`, `update`, `setMatchingMode`, post-reads of the decorators | matches are consistent, none is missed, data belong to their versions |
| muxed interrupts | sub-domains and active interrupts of each level, registers of the controllers | `handle`, `activate`, `getAccessorManager`, destructors | everything subscribed is enabled, no interrupt lost or left pending |
| DoubleBufferAccessor, DoubleBufferPlugin | counted recursive mutex, counter of readers, enable register | `read` alone and in groups | no torn buffer, firmware may swap again |
| UIO and XDMA | interrupt thread, its promise, counters of the kernel | `activateAsyncRead`, `close`, `open`, interrupt loop | no interrupt missed, no activation blocked, removal noticed |
| Subdevice | address, data, busy and chip select registers of the target, mutex of all backends on it | transfers of four kinds | right words of the right chip, time-outs |
| Rebot | connection, protocol, time of the last request | `read`, `write`, heartbeat thread, `open`, `close` | answers belong to requests, connection kept alive, mutex released |
| SharedDummy | segment, mutex, process IDs, semaphores, counts of interrupts | constructor, destructor, trigger, dispatcher thread | one segment for all, nothing left behind, interrupts dispatched after crashes |
| ExceptionDummy | push decorators with their flags | `triggerPush`, `activateAsyncRead`, `setException` | accessors agree with the backend, one exception each |
| LogicalNameMapping | catalogue and its completion, shared accessors, variables with queues, locks of plugins | `getRegisterAccessor`, `getRegisterCatalogue`, variables, math, bitRange, fanOut and bit accessors | the accessor leads where the map file says, the catalogue tells what it can do, nothing is overwritten |
| RawConverter, NumericConverter, multiplexed accessors, TypeChangingDecorator | buffers | `read`, `write` | nearest value in the range, samples at their place |
| catalogues of registers | map and list of pointers into it, interrupts | look-up, iteration, copy, removal | order of the map file, copies independent |
| BackendFactory, dmap file | types, plugins, weak pointers to backends | `createBackend`, `setDMapFilePath`, `loadPluginLibrary`, `registerBackendType`, `LogicalNameMappingBackend::parse` | one backend per URI, broken plugins do no harm |
| parsers of map files | none | parsing | sequential text processing |

How they interact: the application calls `Device`, which calls the backend.
Transfers which fail call `setException()` of the backend, from any thread and
also with the lock of a domain held. `setException()` therefore only stores a
request, and a thread of the `DomainsContainer` takes the locks of the container
and of each domain to send the exception. Interrupt threads call `distribute()`
of a domain, which polls registers through a `TransferGroup` and pushes into the
queues which the application reads. `open()` recovers from an error, and
`activateAsyncRead()` starts the asynchronous data again with initial values.

What is hard: the interleavings of these threads; messages which arrive before
or after the initial value was polled; errors in the middle of an activation or
of a subscription; one of several transfers of a group failing; the early
returns of the post functions; merging of address ranges in an order which
depends on pointers; hardware which changes between two accesses (interrupt
controllers, busy flags, double buffers); threads and processes which share an
accessor, a connection or a memory segment, and which may die; caches which are
filled once (backends, shared accessors, completed catalogues).

`PROJECT.json` lists the hazards, each at its line and with its properties.

## Modules

| Module | Models |
|---|---|
| `DataConsistencyRealm` | the realm and the generator of versions |
| `FutureQueue` | `push_overwrite` of `cppext::future_queue` (external) |
| `AccessorStream` | abstract: what one asynchronous accessor promises to its reader |
| `AsyncDomain` | one domain with its accessors, instance of the realm, implements `AccessorStream` for each accessor |
| `AsyncDomain_proof` | its theorems, the refinement among them |
| `AsyncBackend` | the threads around the domains, step by step |
| `AsyncBackend_proof` | its theorems |
| `TransferGroup`, `MCTransferGroup` | `read()` and `write()` of a group |
| `TransferGroup_proof` | its theorems |
| `LowLevelElement` | alignment and merging, as operators |
| `TransferMerge` | `addAccessor()` |
| `UnalignedWrite`, `MCUnalignedWrite` | concurrent unaligned writes |
| `ReadAnyGroup`, `MCReadAnyGroup` | a `ReadAnyGroup`, its elements and their queues |
| `MuxedInterrupts` | the tree of distributors and sub-domains, and the interrupt controllers |
| `InterruptThreads` | the interrupt threads of UIO and XDMA |
| `AsyncSources_proof` | the theorems about `InterruptThreads` and `ExceptionDummy` |
| `Pcie` | the file of a PCIe device and the transfers through it |
| `Subdevice` | accessors of subdevices which share a target |
| `Backends_proof` | the theorems about `DoubleBuffer`, `Subdevice`, `SharedDummy` and `Factory` |
| `Rebot` | both protocols, the connection and the heartbeat |
| `SharedDummy` | processes with a shared memory segment |
| `ExceptionDummy` | push decorators of the dummy for tests |
| `DoubleBuffer` | the handshake with a firmware which swaps buffers |
| `Factory` | the BackendFactory, plugins, the dmap file and logical devices |
| `LogicalMath` | writing through the math plugin |
| `Accessors_proof` | the theorems about `LogicalMath` and `ReadAnyGroup` |
| `LogicalNames`, `MCLogicalNames` | the logical catalogue and its accessors |
| `LogicalVariables` | variables with push subscriptions |
| `SharedTarget` | bit accessors, bit ranges and sub-arrays on a shared accessor |
| `FanOut` | writing to several targets |
| `DataConsistencyGroup` | both matchers with their decorators |
| `Conversion` | `numeric::convert()` and `RawConverter`, as operators |
| `NumericRegister` | registers with one and with several multiplexed channels |
| `TypeChanging` | the TypeChangingDecorator |
| `Catalogue` | the catalogue of a NumericAddressedBackend |
| `MCBackends`, `MCRegisters` | the instances of the modules which are checked together |
| `MCRegisters_proof` | the theorems about `DataConsistencyRealm`, `LogicalVariables`, `SharedTarget`, `FanOut` and their composition |
| `MCBackends_proof` | the theorems about `UnalignedWrite`, `Pcie` and `Rebot`, and those about the parts with a proof module of their own, carried over to the composition |

### How modules are checked together

`MCBackends` and `MCRegisters` instantiate the modules which are about a single
component, and bind their variables to `s1`, `s2`, ... A behaviour begins as one of
these components, which the variable `part` names, and remains it: the state
space is the sum of those of the components, and each property is stated for
its own part. Components which share state are composed inside of a module
instead (`AsyncDomain` with `FutureQueue`, the realm and `AccessorStream`;
`TransferMerge` and `UnalignedWrite` with `LowLevelElement`; `NumericRegister` and
`TypeChanging` with `Conversion`; `MuxedInterrupts` with the hardware; `Factory` with
the logical devices which create their targets). `UnalignedWrite` and
`DataConsistencyRealm` are extended and not instantiated, since their assumptions and their
properties are those which the theorems are about. For the same reason `MCRegisters` extends `LogicalVariables`,
`SharedTarget` and `FanOut` too: these modules keep their own variables, which change only if the module is the `part` of the behaviour.
`MCBackends_proof` instantiates the proof modules of other
parts in the same way as `MCBackends` instantiates the parts, so that their theorems hold for the specification which
the run checks.

A definition with the comment "Mistake:" is a variant of the one after it with a bug, and
not part of a model. It shows that a property of the module can fail.

### DataConsistencyRealm

A realm is the record of `_latestKey` and `_versionHistory`. `NumberOfNewEntries`,
`RealmAfter` and `VersionOf` give the effect and the result of `getVersion()`;
the addition of the key type wraps at `KeyRange` (2^64 in the code). `NewVersion`
stands for every other place which creates a `VersionNumber`. The variable
`given` records what was handed out and is not part of the code.

### AsyncDomain

All operations of `DomainImpl` run under one mutex, so each one is a step with
everything it calls: the poll distributor first (the transfer group, then the
version of the realm), then the variable distributor with the version it has
returned, then `send()` and the queue of each accessor. Messages wait in
`inFlight` between their arrival and their distribution, and the initial value
in `initial` between its polling and `activate()`, because the domain is not
locked there. `subscribed` stands for the AsyncVariables of the two distributors; a
distributor, and the domain, live as long as they have accessors.

The variable `backend` is chosen at the start and never changes. A `"trigger"`
backend sends interrupts and polls the registers, a `"realm"` backend also takes
the version from a `DataConsistencyRealm`, and the messages of a `"data"` backend
bring data with their versions.

`CheckedActivation` restricts the application: it does not activate a device
with an error. Without it `DomainImpl::activate()` makes the domain active with no
initial value, and the activation after the recovery finds it active and has no effect
(the specification, B.8.5.4, says that the first call has no effect).

### AsyncBackend

Threads: the reporters (transfers of other accessors, `Device::setException()`),
the recovery thread (`open()`, `activateAsyncRead()`, `close()`), the subscriber
(creation of accessors), the interrupt thread and the exception thread. `pc`
is where a thread is, `exc` where it is inside of `setException()`, which any
of them may call with locks held. Each access to an atomic variable and each
lock is a step. The content of a domain is reduced to absent, inactive, active.

The variable `alone` says which calls an application does not let overlap with
others and with reports of errors; it is chosen from `Disciplines` and never
changes. In the run `AsyncBackend` `open()` is always alone, and the remaining
calls either overlap with everything or are `Serialised`. What needs which:

* `NeverTerminates` and `ExceptionsBeforeRecovery` need `open()` to be alone. An `open()`
  between the atomic operations of `setException()` clears the flag of an error
  whose distribution has not been requested yet (run `AsyncBackend_terminate`).
* `NoActiveDomainInError` needs `Serialised`: `activateAsyncRead()` does not look at
  the exception state when it comes to a domain, so an error which was reported and
  distributed during the call leaves the domain active.
* `AllDomainsActive` needs `Serialised`: `_asyncIsActive` is read before the lock of the
  container is taken, so an accessor which is created while `activateAsyncRead()`
  runs may stay silent.
* Locks, messages and `OpenReturns` need nothing more.

### TransferGroup

The members of all elements are one record `s`, and the member functions are
operators on it: `preRead`, `postRead`, `preWrite`, `postWrite` of the low-level
element, of the accessor and of the copy decorator, with the checks of the base
class. `read()` and `write()` visit one element per step, and between the steps
other threads report errors and the registers change. The order of
the elements is the order of the pointers in the code and the order of numbers
in the model; the group in `MCTransferGroup` puts a copy before its target.

The variable `app` is chosen at the start: whether the application only makes
correct calls, whether it writes, and which accessors it has added twice. With
calls that are a `logic_error` (a device which is closed, a register which is not
writeable, a version which is too old) the code leaves `read()` and `write()` before all
post functions have run, so that transaction flags stay set and the next call skips
work; `CallsArePaired` and the properties of `write()` are therefore stated for correct
calls. Further behaviour which the model has and no property covers: a failed `write()`
is not reported to the backend, because `write()` calls `postWrite()` and not
`postWriteAndHandleExceptions()`; and a copy decorator never gets the version of its target.

### TransferMerge and LowLevelElement

`AddAccessor` follows the two loops of `addAccessorImpl()`; a low-level element is
identified by the accessor whose constructor made it, so the sharing of the
objects is part of the model. `SetAddress` is `setAddress()` with its
padding, `Merge` the call of `changeAddress()` in `replaceTransferElement()`.
`flagged` holds the accessors whose present implementation has `_isInTransferGroup`
set: a copy decorator, made after the flag was set on the object which it replaces,
has not. An element is also merged with itself, which clears its unaligned flag.

### UnalignedWrite

Each writer is a thread which writes its own accessor: check, lock, read back,
transfer, unlock, each of which may fail. Registers do not overlap, but share
words. A failed transfer may have reached the device. `Grouped` accessors are alone in a
TransferGroup. `CloseAnytime` is off in the runs: with it `close()` between lock and unlock
makes `doPostWrite()` skip the unlock, and the mutex stays locked.

### ReadAnyGroup

The backend pushes entries into the `_readQueue` of each element (`queue`), and
`when_any()` adds the index of the element to the notification queue
(`notifications`, external like `push_overwrite`). A `runtime_error` and the
`thread_interrupted` of `interrupt()` take the same path and are one kind of entry, a
`DiscardValueException` is another. `inProgress`, `active` and `buffer` are the members
of the TransferElements which `preRead()` and `postRead()` change, and `lastOperation`
is `_lastOperationIndex`, with names for its special values `max` and `max - 1`.
`call` says where `readAny()` and its relatives are: they are split where they
wait, between the notification and its acceptance, and at each transfer of a
poll-type element. `held` are the `Notification` objects of the application, which
accepts them or lets their destructor do it. `taken` and `finalisedAt` only record
what happened. `finalise()` links one queue after the other (`linked`), and the backend may push
in between: an entry is notified by the step which links its queue if it is present then, and by its push
otherwise. Elements which are not in the group yet are read directly, which fails in `preRead()`, finds nothing
but discarded values, or takes the first other entry (`PreReadFails`, `ReadNothing`, `ReadEntry`); after
`finalise()` the elements outside have no influence and are left out, and the device is
opened and closed between the calls.

The variable `retains` is chosen from `Retaining` and never changes. If it is true, the
application waits for the next notification although it still has one. The code lets it,
but `handlePreRead()` then no longer knows all elements which need a `preRead()`;
the properties are stated for the other applications, and the run `ReadAnyGroup_retain`
shows what happens.

### MuxedInterrupts

Each interrupt controller has the status, enable and master enable registers as sets of
bits; which of the registers exist, and so how interrupts are acknowledged and
masked, comes from the description in the map file (`Parsed`, `Complete`, `Permitted`). The operations
of the software hold the lock of the domain. What they do is a list, the `agenda`:
one access to the hardware per step, so that events, and the destructor of a distributor, which
does not take the lock, come between any two of them, and each access may fail.
An event between polling and clearing is lost; such sub-interrupts are in `overtaken`.

### InterruptThreads

`pc` is the application, `thread` the interrupt thread; `masked`, `pending`, `unread` and
`counter` are what the kernel keeps for the device file. A UIO thread clears before it waits, an
XDMA thread reads the number of events. The promise which `activateAsyncRead()` waits for is `done`.
The device is removed and comes back. It is removed only while it is active: if it is gone
between `open()` and `activateAsyncRead()` (`RemoveAnytime`) an exception leaves a noexcept function.

### Pcie

`files` is the table of the kernel: it gives the lowest free descriptor to the next `open()`, and a file stops
to work when the device behind the node is removed or exchanged (`ChangeNode`). The backend finds out which of the three
drivers it has, or none, and keeps the functions of that driver (`access`). A transfer is one system call or one for each
word, and may fail at each of them. The words of the buffer show what a transfer has left there: data, the request
which was put in front of them for the driver, or what was there before. `SetException` is
`Device::setException()`; every failing transfer reports an exception, too.

### Subdevice

Two threads have an accessor each, of backends with different chip
select values on the same registers. A transfer is cut into the words which the code transfers: chip
select, address, data or read request, polling of the busy flag, each of which may fail. The hardware works
on a transaction while the software polls, and may be slower than the time-out. The mutex of the
window is `job`. `parameters` runs through the accepted combinations of the device
descriptor; others are refused by `Open`.

### Rebot

The server is a queue of one request and its answer, which come, come late or do not
come. `Receive` takes one word of the answer; the states of the connection and of its timer are those
of `Connection`. `request` numbers the requests, so that `mismatch` can tell an answer
which belongs to another one. Time passes in `Tick`, which also wakes the heartbeat.

### SharedDummy

A process opens the segment and the mutex by name, waits for the mutex until its time-out,
enters its ID, and starts a thread with a semaphore. What the code does under the
mutex is one step. A crash may leave the mutex locked, an ID in the set, or a count without a post.
`Overlap` is off: with it a constructor between the last destructor's steps works with
a segment whose name is removed. Interrupts which come before the thread sees their number for the
first time are dispatched once, not as often as they came; `EachInterruptIsDispatched`
would say more and is violated.

### ExceptionDummy

`Order` are the accessors in the order in which they are created, so that `created` is the first part of it
and the list which the loops go through. `calls` is a stack: a read of an accessor may report an error, which calls
`setExceptionImpl()` inside of a loop over the accessors, with the mutex released. Each turn of the loop
is a step.

### DoubleBuffer

The firmware writes a frame in two halves, and swaps buffers between frames if swapping is
enabled. Readers lock, disable, read the current buffer number, read two halves and release, alone or in a
group; each access may fail. `kind` is the accessor of the NumericAddressedBackend with
its mutex or the plugin with its counter.

### Factory

The dmap files, the devices described in them and the plugins are constants. `Load` is
`dlopen()` with the static initialisers of the library; `Parsed` is what is left of the parsing of
a description. `existing` are the weak pointers, `Held` the reference counts. `Destroy` is
a step of its own, since a destructor does not hold the mutex of the factory. A logical
device creates its targets one at a time, and other threads use the factory in between. `FactoryAssumption` is what the
files have to fulfil: the URIs of the dmap files have descriptors, the map files of logical devices exist, and no logical
device is among its own targets. Such a device could not be opened, since it would wait for itself in `createBackend()`, and
would hold itself for ever.

### LogicalNames, LogicalVariables, LogicalMath, SharedTarget, FanOut

`LogicalNames` has the catalogue before and after its completion (`infos`, `completed`), the
target device, which may change when it is opened again, and the accessors: `CreateFor` follows the redirections and
the plugins down to the target. `LogicalVariables` splits what runs without the mutex of the value: the copies
which `activateAsyncRead()` and `setExceptionImpl()` push one by one. `LogicalMath` has the main thread,
which writes its registers in a group, and one thread per parameter. `SharedTarget`
has the three kinds of accessors which write parts of a register through one buffer. `FanOut`
has the buffers of the decorator and of its targets, which are exchanged and copied.

### DataConsistencyGroup

Updates arrive with versions which do not decrease; a buffer is identified by the
update it was filled with, so that a swapped buffer with an old version shows. `MatchesAt` finds where a
version is, in the target buffer or in the history. Both the `HistorizedMatcher` and the
`SimpleMatcher` are in the module; `mode` is chosen at the start and `setMatchingMode()` changes it.

### Conversion, NumericRegister, TypeChanging

Real numbers are multiples of 1/64, a byte has two bits, a
float six and a double thirteen bits of mantissa: small enough to check all contents of a
register of one channel, and wide enough that registers are wider than a float. `Nearest` and
`NearestRaw` are the reference definitions, the rest follows the branches of
`numeric::convert()` and `Converter`. NaN, infinities and overflow of exponents are left out.

### Catalogue

A pointer of `_iteratedCatalogue` is a pair of the catalogue it points into and a name,
so that a copy which points into the original shows.

## Runs

Passing runs:

| Run | Question | States |
|---|---|---|
| `AsyncDomain` | a domain of each kind of backend: order and completeness of the streams, refinement of `AccessorStream` | 618 thousand |
| `AsyncBackend` | locks, exception flag, message, activation with all threads; `open()` returns, errors switch off | 193 thousand |
| `TransferGroup` | `read()` and `write()` of a group with merged accessors and a copy | 2.4 million |
| `MCBackends` | safety of the parts muxed, threads, subdevice, rebot, exception, shared, doubleBuffer, math, factory, readAny, pcie, unaligned | 2.0 million |
| `MCBackends_progress` | liveness of the parts muxed, threads, subdevice, rebot, doubleBuffer, math, readAny, unaligned | 280 thousand |
| `MCRegisters` | safety of the parts realm, pair, triple (groups), numeric, decorator, merge, catalogue, variable, sharedTarget, names, fanOut | 1.1 million |

Why the bounds are enough. In `AsyncDomain` a
queue of two entries overflows within three updates; versions are bounded by
five, which leaves room for two activations with an error between them and a
message in flight at each point; with two accessors, one with data and one without, one can subscribe when the
other is active. `AsyncBackend` has two domains, so that the exception thread and
an activation can be at different domains; the reporter, the interrupt, the activation and the
subscription can report errors at the same time. The group has the
three relations which two accessors can have (merged, separate, copy), and the versions
allow two operations in a row.
Of the parts of `MCBackends`: the controllers are two levels deep, with one bit next to the nested one, and there
are two events, so that one comes during the handling of the other. Interrupt threads see four interrupts
and two failures or removals; the counter starts at zero and does not reach its modulus. The subdevice has three words in two
data registers, so that an unaligned request needs both, and two chips of which one is closed meanwhile. A Rebot
operation has up to two blocks, two users besides the heartbeat, and requests are numbered modulo three: a late
answer is always told from its neighbours. Two processes and one crash reach the mutex, the set of IDs and the
semaphores. A reader with one and one with two accessors nest their reads. Two plugins, one of
which writes when a parameter is written, and two parameters are the smallest group with both kinds of plugins.
The factory has two Devices, three backends and two dmap files with the same aliases: one more of each adds states
but no kind of step. In the ReadAnyGroup three pushes, two of them
before `finalise()` if they come early, fill a queue of two entries and replace one of them. A PCIe device changes or fails twice, so that an `open()` which
fails is followed by one which works, with another driver; structures of two words make one-word requests small. Three
writers in two words share each word.

Of the parts of `MCRegisters`: the realm has a buffer of three entries and ten keys,
so keys wrap, repeat, go back and jump over the whole buffer. Pairs of elements have histories of up to two entries and four
updates, so a history is full and rotates; triples have a match which needs a missing post-read of two others. Registers
of all contents of eight bits, with fractional bits below, at and above zero; a multiplexed register with four channels of two
widths. Four accessors of registers which overlap, touch, are apart, are equal and are unaligned by either end,
so that a late one closes the gap between two elements. Map files of three lines with nested interrupts, duplicates and
reserved names. Queues of two entries overflow within the four versions of the variable. Of a shared
register one thread writes two elements in a group, another one the third. A fan-out has two targets besides the first.

Deadlock is not checked in the runs with bounded
versions, groups, events or pushes, where a behaviour ends when the bound is reached.

Violation runs show where the code does something else than its documentation
says. Each has a finding in `PROJECT.json` with the quoted line.

| Run | What happens |
|---|---|
| `AsyncDomain_realm_error` | a realm gives a version below the one which an accessor got last, and `send()` throws |
| `AsyncBackend_terminate` | `open()` inside of `setException()`, and a second error throws in a noexcept function |
| `UnalignedWrite_group` | a write in a group overwrites the neighbouring register |
| `ReadAnyGroup_retain` | of two retained notifications of one element the second is accepted, but its data does not reach the buffer |
| `Pcie_open` | `open()` of an open device which works returns without clearing the exception which was set |
| `LogicalNames_bitRange` | a bit range in the second element of an array reads and writes the first one, whose bit range was used before |

### Stated, but not promised by the code

The modules state some further properties which the code does not have and which
no document promises clearly enough. No run checks them; each fails in an instance of its module with the
constants given here, and the properties above are stated so that they leave these cases out.

| Property | What the code does |
|---|---|
| `Factory!OpenedHasTargets` | a logical device whose targets could not all be created can be opened the second time, without them |
| `LogicalNames!LengthFollowsTarget` | a length taken from the target stays when the target has changed |
| `NumericRegister!FloatIsRoundedToNearest` | adding 0.5 to a float at the end of its precision rounds to the wrong integer |
| `TypeChanging!LimitedStringArrives` | strings for 8 bit types are cut and not limited |
| `FanOut!RefusesForClosedDevice`, `OldVersions = TRUE` | after a failed write the same version is refused, as some targets have it |
| `DoubleBuffer!PostReadDoesNotFail` | `doPostRead()` accesses the device and throws |
| `Pcie!OnlyOwnFilesAreClosed`, `OthersOpenFiles = TRUE` | after a failed `open()` of an open device the next one closes the descriptor again, which may be another file by now |
| `Pcie!SmallDmaIsRead` | `readDMAViaIoctl()` copies in the wrong direction if the request is smaller than its structure |
| `SharedDummy!EachInterruptIsDispatched` | interrupts with a number which the thread sees for the first time are dispatched once |
| `SharedDummy!RegistersAreShared`, `Overlap = TRUE` | a constructor overlaps with the last destructor |
| `InterruptThreads!ActivationIsNoexcept`, `RemoveAnytime = TRUE` | the device is removed between `open()` and `activateAsyncRead()` |
| `LogicalVariables!NewestValueArrives`, `WriteWhileActivating = TRUE` | an older value is pushed after a newer one |
| `SharedTarget!OthersAreKept`, two registers in a group (`OneTargetPerGroup` is false) | `targetUseCount` counts for the thread: the second register is written with bit ranges of it without having been read |
| `ExceptionDummy!AccessorsAgree`, `InitialValuesFail = TRUE` | a failing initial value locks a mutex twice |
| `LogicalMath!MutexIsReleased`, `Group = <<b, a>>`, `Push = {a}` | the counter of locks is shared by the mutexes of all plugins: `postWrite()` of one without push parameters takes the count of the one after it, whose mutex stays locked |

## Fairness

`AsyncBackend!Fairness`: a call which has been started continues (weak fairness
of `setException()`, strong fairness where locks are taken: `std::mutex` does not
starve a thread for ever, and the exception thread is woken by its queue). No
fairness is assumed of the calls themselves: nobody has to open the device or
to send an interrupt. `UnalignedWrite!FairSpec`: a thread in `write()` continues,
strong fairness of taking the mutex.

`MCBackends!FairBackendsSpec` has the conditions of its parts; as a behaviour is one part only, they
share formulas. The thread with the lock of a domain works on, and an interrupt line
which stays asserted gets its handler at last (strong, as the domain lock may be taken in
between). The interrupt threads keep running: `poll()` returns, and the timer of the XDMA thread expires.
A transfer of a Subdevice goes on, whereas its hardware needs not: the time-out ends it. Time passes in
`Rebot`, threads with the mutex work on, the heartbeat wakes up; the server needs not answer. Readers of
double buffers go on. The main thread of `LogicalMath` goes on, and a thread which waits for
`_writeMutex` gets it if it is free again and again. A call of a ReadAnyGroup which can go on does. No application has to make a call, and no
device has to send an event or to push data.

## Proofs

`MCRegisters_proof` proves about `DataConsistencyRealm`, for every size of the buffer, every key
range, every set of keys and every bound on the versions (`RealmAssumption`):

* `RealmInvariant`: `Spec => []RealmInv`
* `KeysInOrder`: `Spec => []LargerKeyLargerVersion`
* `KeysConsistent`: `Spec => SameKeySameVersion`

Neither property is inductive: a realm whose buffer has gaps or holds other
versions than it has handed out would break them. `RealmInv` adds that the buffer
has one entry for each of the newest keys (`HistoryHasNoGaps`), that the entries
increase (`Increasing`) and were generated before (`Generated`), and that what was given
for a key is its entry, or less than the oldest entry if it has left the buffer
(`GivenAgrees`). The proof follows the branches of `getVersion()`: found,
first key, too old, new. The lemmas about `PushFresh` give its length and
where old and new entries are; the step for a new key uses them to move the
window. TLC checks `RealmInv` in the run `MCRegisters`.

It proves about `LogicalVariables`, for every number of writers and subscribers, every length of the queues
(`VariableAssumption`) and under the assumption `~WriteWhileActivating`:

* `SubscribersAreCurrent`: `VariableSpec => [](NewestValueArrives /\ NewestIsFresh)`

A subscription which the controlling thread has still to serve may have nothing or an old value in its queue.
`CurrentInv` says that all others end with the value of the variable, also if a queue was full and its last entry
was replaced (`PushedIsLast`); `ControlInv` that nothing is left to do when the thread is idle, and that the
value which `activateAsyncRead()` has copied is still the current one, which the assumption is for. `FreshInv` compares the
version of the value with the version of the opening.

It proves about `SharedTarget`, for any registers, masks, threads and groups (`TargetAssumption`) and under the
assumption `OneTargetPerGroup`:

* `PartsAreKept`: `SharedSpec => [](OthersAreKept /\ LocksReleased)`

`LockInv` says that the recursive mutex of a register counts the accessors of its holder between `preWrite()` and
`postWrite()`, and that `targetUseCount` counts those of a thread; so an accessor which has set its elements in the buffer
is one of the holder (`OnlyHolderFills`). `BufferInv` says of the buffer what the properties say of the register: it
has the new values of the elements which have been set, and what is expected of the others once the register was
read (`Fresh`). The core is `ReadsFirst`: the register is read before the first element is set, and never
afterwards, for each of the three kinds of accessors. For bit ranges this needs the assumption: `targetUseCount` is a counter of the
thread, not of the register, and in a group with bit ranges of two registers the second register is not read, as the
counter is 2 then. TLC finds `OthersAreKept` violated in such a group: the other bits of the second register get what the
shared buffer holds. (The comment at `LNMBitRangeAccessPlugin.cc:206` says that the first accessor to write to the
`_target` reads.) `LocksReleased` does not need it.

It proves about `FanOut`, for every number of targets (`FanOutAssumption`):

* `FanOutIsComplete`: `FanOutSpec => []FanOutDelivers`

`WriteInv` has, for each phase of `write()`, where the value of the application is and which targets have it.

`RegistersSpec` implements the specifications of these four modules (`PartsAreTheModules`), so that the run `MCRegisters`
checks what `RealmStaysConsistent`, `VariablesAlwaysArrive` and `WritesAlwaysArrive` state for all values of
their constants.

`MCBackends_proof` proves about `UnalignedWrite`, for every alignment, every memory and every set of
writers whose registers do not overlap (`WritersAssumption`), under the assumptions
`Grouped = {}` (no accessor is in a group) and `~CloseAnytime` (no `close()` during a
`write()`):

* `LockReleased`: `Spec => []LockIsReleased`
* `WritesAreKept`: `Spec => []WrittenDataIsKept`

Both assumptions are needed: the run `UnalignedWrite_group` violates the property
without the first, and a `close()` leaves the mutex locked. `LockInv` adds that a
transaction exists only while the device is open, that the owner of the lock is in one
(so that `postWrite()` reaches the unlock), and that a transfer with padding has the
lock. `DataInv` adds that before the transfer the buffer holds the new data in the
register and the *present* content of the memory around it; a step of another writer
keeps that because of `AlignedApart`: the padding of one element never reaches a
register of whole words, which is written without the lock. That lemma is arithmetic
of `setAddress()` (`Padding`, `DivMod`, `Multiples`).

`AsyncBackend_proof` proves, for every set of domains and of reporting threads
(`BackendAssumption`):

* `LocksAreOwned`: `Spec => []LockOwners`, whatever calls overlap
* `NeverTerminated`: `Spec => []NeverTerminates`
* `ExceptionsComeFirst`: `Spec => []ExceptionsBeforeRecovery`
* `MessageIsCurrent`: `Spec => []MessageIsCurrentOnceSet`

The last three of these assume that each application in `Disciplines` keeps `open()` alone, without
which the run `AsyncBackend_terminate` refutes the first of them. `LockInv` is
`LockOwners` with the labels of each thread and the fact that a thread which works on a
domain has chosen one; a lemma for each way to take or to give back a lock does the
work, and each action is an instance. `ErrorInv` is what the three properties have in
common: at most one thread is in `setException()` (the exchange of the flag lets no second one in
while the error is active, and `open()` clears the flag only when nobody is inside),
and while `_isSendingExceptions` is set the distribution is about to be
requested, waiting in the queue or running, and only one of the three.

It also proves

* `NoDomainIsActiveInError`: `Spec => []NoActiveDomainInError`
* `ActivationIsComplete`: `Spec => []AllDomainsActive`

under the same assumption; the properties are about applications which keep activation, closing and subscription apart
too (`Serialised`). `DomainsInv` says what each of them still has ahead: a domain which is active in spite of an error
is about to be visited by the exception thread (`ErrorReachesDomains`), one which is not active but should be is about
to be activated (`ActivationReachesDomains`). That holds because an activation or a subscription has the lock of the
container until it has visited its domains, and the exception thread cannot start before; and because
`setException()` switches asynchronous read off before it requests the distribution (`SwitchedOffInv`).

`AsyncDomain_proof` proves, for every set of accessors, all sizes of the queues and of the realm, and every number of
updates, messages and versions (`DomainAssumption`):

* `DomainHolds`: `Spec => []DomainInv`
* `TriggersKeepVersions`: `Spec => SameTriggerSameVersion`
* `DomainImplementsStream`: `Spec => AccessorViews`, the refinement of `AccessorStream` by each accessor
* `NewestValuesArrive`: `Spec => []NewestValueArrives`, assuming `CheckedActivation`
* `NewestDataArrives`: the same without that assumption, for backends with versions in their data

`TypeInv` has the types and says that the realm has no gaps. `OrderInv` is why `send()` never throws: everything which
waits anywhere in the domain has a version which was generated (`VersionsGenerated`), newer versions have newer values in all of these
places (`MessagesConsistent`), and what will be distributed is not older than what was (`DistributionInOrder`).
`StreamInv` has the same for the queues of the accessors, and gives the refinement: an operation appends to, replaces
in, or takes from a queue, or does nothing that the reader could see; each action of `AsyncDomain` is mapped to a step of `AccessorStream` or to a stutter. `ArrivalInv`
follows the newest update from the hardware through the message in flight, the stored message and the initial value to
the queues (`NewestInv`), and says when polled data is newest (`PolledInv`). The latter needs that nobody activates a
device with an error, as the domain does not get the exception then: this is what `CheckedActivation` says of the application.

`TransferGroup_proof` proves, for every group, whatever low-level elements its accessors share and whichever copies it
has (`GroupAssumption`):

* `GroupHolds`: `Spec => []GroupInv`
* `ReadFillsBuffers`: `Spec => ReadDelivers`
* `ReadFailsCompletely`: `Spec => FailedReadIsTold`
* `WriteTransfersBuffers`: `Spec => WriteIsTold`

The last three assume `CorrectApplications`, those which cause no `logic_error`; the run also has one which does, and
there the formulas say nothing. `CorrectInv` describes each phase of an operation. Its center is
`ExceptionsAgree`: between the transfers and the end the exceptions in the elements tell which transfers have failed, no matter
which post functions have thrown meanwhile and handed them on; the `todo` of each phase tells which elements have ended
their transactions. A low-level element ends its transaction with the first of its accessors
(`EndedTogether`), and the others take over its version. Only the last step of the post phase ends an operation, because all which
can be thrown after a transfer is a `runtime_error`, or nothing (`OnlyFinishEnds`).

`Backends_proof` proves `FramesStayWhole` (`DoubleBufferSpec => []FramesAreWhole`) for every set of readers and
any number of accessors in their groups (`DoubleBufferAssumption`). Swapping is off whenever a reader relies on it
(`SwapInv`), since the counters are the number of accessors between their pre- and their post-read (`CountInv`, with the
set `Counted` whose cardinality they are), and only the last one enables it. While it is off the
buffer which is not written to has one frame (`FrameInv`), which is what readers read (`ReaderInv`).

It also proves about `Subdevice`, for every number of chips, every size of the data register and of the chips, and every
alignment and length of the registers (`SubdeviceAssumption`: the registers of the map file are in the chip):

* `WordsArrive`: `SubdeviceSpec => [](WriteArrives /\ ReadIsRight)`
* `WrittenDataIsKept`: `SubdeviceSpec => WrittenDataKept`

`LoopAt` describes the loop over the transfer addresses: the words which have been copied are those whose place is before
the block of the address, the address register and the chip select have the values of the job, and the hardware
is free after each turn unless the time-out has passed (`late`). `Transferred` says that these words are where they belong,
and that the transaction the hardware works on is that of the job with the words of the block;
`TransferredByArea` is the same for `areaHandshake`, which writes its whole area in each turn. All types but this one
number their words in blocks of `Size` (`First`, `Base`), so that the arithmetic is done once: `OneBlock` shows which words
the offset and the number of a turn select (aligned or not, in the first, a middle or the last block), from `Quotient` and
`DivMod`; `OneTurn` applies it to the three types. `RequestsOk` has the words of a write in the buffer until the
post phase swaps it back.

And about `SharedDummy`, for every set of processes and of interrupts, every number of members of the segment and
any number of crashes (`SharedAssumption`), assuming `~Overlap`:

* `SharedRegisters`: `SharedDummySpec => [](RegistersAreShared /\ InterruptsAreDispatched /\ SemaphoresAreFree /\
  NothingIsLeft /\ StoppedThreadsWakeUp)`
* `SharedRegistersAreKept`: `SharedDummySpec => RegistersAreKept`

`PlaceInv` is what the rest relies on: who is registered has its ID in the one segment which is found by name, and a segment has no
other IDs but those of dead processes. The process which removes the names is alone (`AloneInv`), because the one which
leaves last sees the IDs of all others under the mutex. A mutex which a process uses is that of the
name, or locked by a dead process (`MutexInv`): a new one is only created when the old one is stale. `FitInv` counts the
entries for semaphores, of dead processes too. `CallsAt` follows an interrupt from
its count to the call of the handler: a thread which sleeps has seen all counts unless its semaphore is posted or about to be (`Called`).
A count whose process dies before the post is lost for the threads until the next one, and excepted.

And about `Factory`, for every dmap file, every set of descriptors and plugins, and every number of Devices and backends
(`FactoryAssumption`):

* `OneBackendIsShared`: `FactorySpec => [](OneBackendPerUri /\ NothingIsKept)`

`FactoryInv` says that whatever a Device or a logical device holds is alive and is what the weak pointer for its URI
points to (`HeldInv`), so that there cannot be two of them; weak pointers to other backends have expired
(`FoundInv`). For `NothingIsKept` each target has a URI which the map file of its owner names
(`MayUse`, part of `HeldInv`): of the backends which are left one is the target of no other, because no device is its own target, so nobody holds it. A
name stands for the first line of the dmap file which has it; that there is a first one is lemma `FirstOfAll`, by the
well-foundedness of the inclusion of finite sets.

`AsyncSources_proof` proves `NoInterruptLost` (`InterruptThreadsSpec => []ThreadsMissNoInterrupt`) for every number
of interrupts, removals and errors. `MaskInv` says that a masked interrupt has an event to be read or a thread about to
clear it, `NewestInv` that new data has an event or a thread which has read it, `PromiseInv` and `EndInv` when the
promise is kept and why a thread has ended. `CounterAssumption` is that the counter of the kernel
does not wrap: `subtractUint32OverflowSafe()` subtracts from 2^32 - 1 instead of 2^32 then (UioAccess.cc:173-181), so that
the result is one less than the difference and an interrupt at the wrap is not seen (lemma `Differences`).

It also proves `ExceptionsArrive` (`DummySpec => []ExceptionIsPushedOnce /\ []AccessorsAgree`) about `ExceptionDummy`, for
every number of accessors. `CallsInv` follows the calls, which visit the accessors one by one: those which a call has
passed are as it leaves them (`Settled`), those still in its list as it found them, and the one it is busy with depends on its
place (`Current`). A `setExceptionImpl()` may run inside of the push of another function (`Nested`); it finds some
accessors done and others not, and leaves all of them in the same state. The theorem assumes `~InitialValuesFail`: if reading the
initial value fails, `activateAsyncRead()` calls `setException()` with the mutex which it holds already.

`Accessors_proof` proves, for every set of plugins and parameters:

* `ResultsStayCurrent`: `MathSpec => []ResultsAreCurrent`
* `NothingOldArrives`: `MathSpec => NothingOldIsWritten`

`MathAssumption` has the plugins with push parameters first in the group, without which the mutex of another one is
released (see above). `MutexInv` says which mutexes the main thread has: those of a consecutive part of the group, as many as
`_writeLockCounter` counts, so that each `postWrite()` finds its own. `SeenInv` and `ResultInv` then say that the newest result
is in the target, on the way to it while the mutex is held, or still to be computed by the thread of a parameter; this is
where the mutex is needed from `doPreWrite()` to `doPostWrite()`. `FailureInv` is that the device is not opened
during an operation. `VersionInv` compares everything which counts as written with the version of `open()`.

And about `ReadAnyGroup`, for every number of push-type and poll-type elements, every length of their queues and every
number of pushes (`GroupAssumption`):

* `GroupKeepsUpdates`: `ReadAnySpec => [](NotificationPerEntry /\ AcceptCompletesRead /\ PolledIsNotOlder)`

`SetupInv` has what is known before and after `finalise()`, which goes from one element to the next: no element is added
twice. `CountInv` is that an element which is linked has as many entries in its queue as there are notifications for it, those which the
application has retained or is accepting included. `TransactionInv` says that an application which accepts each
notification before it waits again has at most one, and that all elements but the one of the last operation have been
prepared for the next transfer, without which the data of an update would be lost. Updates are numbered in
their order (`NumberInv`); what the properties say about data and their age
follow from it (`CompletedInv`, `PolledInv`).

`MCBackends_proof` proves about `Pcie` and `Rebot`, as parts of the composition:

* `FilesAreUsed`: `BackendsSpec => []FilesAreUsedRightly`, for every number of descriptors, size of the area, of the
  structures in front of the data, and number of events (`FilesAssumption`)
* `TransfersArrive`: `BackendsSpec => []TransfersAreRight`, for every number of users, blocks and requests and all
  time-outs (`RebotsAssumption`); it has the result about `Subdevice` in it

`FilesInv` is the property with the types of the files and of the memory; this is inductive. `OpenNodeIsRight` is about the ways in
which `open()` ends, `StoredIsThere` about transfers of one and of many words. `RebotAnswersInv` says that at most
one request is under way, with the number of the last one: it waits for the server, or its answer has the
words which the operation in progress still expects (`Asked`, `Answered`). `RebotSleepInv` bounds the sleep of
the heartbeat by the time since the last request.

It carries what is proved about single modules over to the composition: `FramesArrive`, `InterruptsArrive`,
`ResultsArrive`, `TransfersArrive`, `ProcessesShare`, `ExceptionsArriveOnce`, `GroupDataAreKept` and `BackendsStayShared` state the
invariants of the run `MCBackends` for every value of its constants, and
`UnalignedIsPart` says that `BackendsSpec` implements `Spec` of `UnalignedWrite`. A behaviour keeps its part, and its
steps are steps of the part (`PartStays`, `PartSteps`).

TLC has checked the inductive invariants on small instances before they were proved.

Only model-checked: the properties of all other modules (of the run `MCBackends` these are `MuxedInterruptsArrive` and `DevicesFitDMap`,
which is about the result of a fold over the libraries of a dmap file), those of the violation runs, and `BackendStepsAreSafe` as a whole, of which
`NothingOldIsWritten`, `WrittenDataKept` and `RegistersAreKept` are proved. Liveness under fairness
is beyond the prover and stays with TLC (`OpenReturns`, `ErrorSwitchesOff`,
`BackendsGoOn`). What recursive definitions compute for every input is out of its reach
too: the conversions are checked over all contents of small registers, and the creation of accessors through
redirections (`CreateFor`) over all registers of small map files. Of the run `MCRegisters` the properties `MatchesAreConsistent`,
`ConversionsAreNearest`, `MergingIsRight` and `CataloguesAreTrue` are only model-checked.

## Not modelled

Every component has an entry in `PROJECT.json`; its note says what is left out. In short:

* text processing: the parsers of map files, xlmap files, dmap files and device descriptors (their results are
  constants of `Catalogue`, `LogicalNames` and `Factory`), `RegisterPath`, tags and metadata;
* I/O: device files of UIO and XDMA, sockets, shared memory as bytes;
* strings, IEEE754 raw values, NaN and infinities in the conversions;
* the delayed unsubscription inside of a distribution (`unsubscribe()` is one step of `AsyncDomain`), the destruction of
  a backend with active threads;
* decorated accessors in `TransferGroup!addAccessor`; writers of overlapping registers in `UnalignedWrite`;
* `writeDestructively()`, `readUntil()` and `readUntilAll()`, which only loop or forward;
* template tables, virtual dispatch, iterators and test utilities such as `UnifiedBackendTest.h`, which have no state of
  the running system.

## Plan

In the order of their worth:

1. Theorems: `TakenInOrder` of `ReadAnyGroup`, the matches of `DataConsistencyGroup`, coverage of merged elements for
   every alignment.
2. The delayed unsubscription of `AsyncAccessorManager` as steps of `AsyncDomain`.
3. Overlapping registers in `UnalignedWrite`.
4. Reading through the math plugin, and groups with decorated accessors.
