# krata's Xen crates in TLA+

Specifications, model-checking runs and proofs for the crates under
`src/crates`: the user-space Xen control plane that `edera-dev/krata` is built
on. They are libraries of asynchronous Rust on tokio. Line numbers refer to
the files named.

## The system

| component | state it keeps | operations | what is hard |
|---|---|---|---|
| store connection, `xenstore/src/bus.rs` | request id and watch id counters, reply map, watch map, three channels, a processor task, a reader thread | `send_buf`, `add_watch`, drop of a handle; the arms of the processor's `select!` | many tasks share one socket; replies are matched by id; callers are cancelled; queues fill; the task may end |
| store operations, `xenstore/src/lib.rs` | none of its own | read, write, list, rm, watches, transactions | a transaction may be refused (EAGAIN) |
| device id allocator, `xenclient/src/devalloc.rs` | bitmap and cursor | `allocate`, `release`, `serialize`, `deserialize` | full circle, wrap, stored form |
| device transactions, `xenclient/src/tx/`, loops of `xenclient/src/lib.rs` | two allocators loaded from the store, the open transaction, the abort flag | add lists of devices, destroy a device | optimistic concurrency on the stored allocators, retries, drops |
| device nodes, `xenclient/src/tx/` | frontend and backend nodes that link to each other | `add_to_transaction` of each kind, `add_device`, `destroy_device` | paths chosen apart in two places, ids of a former domain |
| domain life cycle, `xenclient/src/lib.rs`, `xenplatform/src/domain.rs` | entries in the store, the domain in the hypervisor | `create`, `init`, `destroy`, `destroy_store`, `destroy_backend` | failure half way, ignored errors, reuse of a domid, drivers that do not react |
| device state waiter, `xenclient/src/devstate.rs` | one watch for several paths | `wait` | deadline, events, dropped result |
| event channels, `xenevtchn/src/lib.rs` | wake map, bound channels, a thread | bind, unbind, notify, subscribe | a port read before and used after an unbind |
| boot and memory, `xenplatform/src/boot.rs`, `mem.rs`, `x86pv.rs` | segments, windows onto the domain's pages, p2m, page tables | `initialize`, `boot`, `alloc_segment`, `alloc_page_tables`, `setup_page_tables` | overlapping ranges, rounding, windows left by errors |
| ELF loader, `xenplatform/src/elfloader.rs` | the image | `load`, `parse`, copy of segments | data that looks compressed, truncated data, two loops over headers that choose differently |
| hypervisor calls, `xencall/src/lib.rs` | a file handle | one method for each call | `mmap_batch` retries |
| grant tables, `xengnt/src/lib.rs` | mapped references | `map_grant_refs`, drop | what is looked up by address between other threads' mappings |
| loop devices, `loopdev/src/lib.rs` | none | `next_free`, `attach`, `detach` | other processes |
| PCI, `xenclient/src/pci.rs`, `tx/pci.rs` | sysfs, rights in the hypervisor | `prepare`, `reset`, `encode` | two domains and an administrator at one device; failure half way |
| names of block devices, `xenclient/src/util.rs`, `tx/vbd.rs` | none | `vbd_blkidx_to_disk_name` | carry with an offset |

How they interact: `XenClient` sends everything it does to the store through
one `XsdClient`, whose clones share one `XsdSocket`. A call to the store is a
message in a channel, an answer in a one-shot channel; a watch is a channel the
processor writes to. Device transactions are sequences of such calls that the
store isolates. The hypervisor is reached by ioctl on files of its own.

What makes each part correct: the connection delivers to each call its own
answer, once, or an error, and to each watcher a wake-up after the last change;
the allocator gives out no id that is in use; a device transaction takes effect
as a whole or not at all, and with it the ids; a domain that is destroyed, or
could not be made, leaves nothing behind that no error explains; a channel, a
window or a device that was handed out stays its owner's until it is given
back; a domain that was built has its segments mapped, its page tables read
only and every page once; and whatever waits for the other side ends.

## Modules

| module | models |
|---|---|
| `NextFit` | what "the next free id" means |
| `IdAllocator` | abstract: an allocator whose calls are single steps |
| `DeviceIdAllocator` | `devalloc.rs`, one step for each iteration of the scan |
| `XenstoreRpc` | abstract: a remote call that runs at most once |
| `XenstoreBus` | `bus.rs`, and of `lib.rs` the calls that make and drop watches |
| `LastHandle` | clone and drop of `XsdSocket`, the count of handles |
| `DeviceRegistry` | abstract: devices are added, removed and their ids released in single steps |
| `DeviceTransactions` | `tx/mod.rs`, and of `xenclient/src/lib.rs` the device loop of `init` and `destroy_device` |
| `DeviceNodes` | the nodes and links each kind of device gets, `tx/*.rs`, and what `destroy_device` finds of them |
| `DomainLifecycle` | `create`, `init`, `destroy` with `PlatformDomainManager` |
| `DomainTeardown` | `destroy_store` and `destroy_backend`, step by step |
| `DeviceStateWaiter` | `devstate.rs` |
| `PciDevices` | `PciRootDeviceConfig::prepare` with `pci.rs` |
| `BlockDevices` | names and numbers of block devices |
| `EventChannels` | `xenevtchn/src/lib.rs` |
| `GrantTable` | mapping and unmapping of `xengnt/src/lib.rs` |
| `LoopDevices` | `loopdev/src/lib.rs` |
| `MmapBatch` | `mmap_batch` of `xencall/src/lib.rs` |
| `PageTables`, `DomainBuild` | `boot.rs`, `mem.rs`, `x86pv.rs` |
| `ElfImage` | `elfloader.rs` |
| `MC...` | the instances |
| `DeviceIdAllocatorProofs`, `XenstoreBusProofs`, `DeviceTransactionsProofs` | theorems about the module of that name |
| `DomainsProofs`, `KernelObjectsProofs`, `EndingsProofs`, `DomainBuildProofs` | theorems about `MCDomains`, `MCKernelObjects`, `MCEndings` (`BlockDevices` among them), `MCDomainBuild`, for all values of their constants |
| `DomainTablesProofs` | the page tables of `MCDomainBuild`, on top of `DomainBuildProofs` |

`DeviceIdAllocator` instantiates `IdAllocator`, `XenstoreBus` instantiates
`XenstoreRpc` and `DeviceTransactions` instantiates `DeviceRegistry`, each with
a refinement mapping, and each has the abstract specification among its
properties. `DeviceTransactions` uses an allocation as one step
(`NextId`, `Allocate`): that this is what the code's scan does is the theorem
`RefinesIdAllocator`. In the same way `DeviceNodes` takes a transaction for one
step, and `DomainLifecycle` the whole of `destroy_store`, whose steps are those
of `DomainTeardown`.

`MCDomains`, `MCKernelObjects`, `MCEndings` and `MCDomainBuild` each hold
several models that do not meet. A variable `part`, chosen in the initial state
and never changed, names the one that takes steps; the others' variables rest.
The state graph is the disjoint union of those of the parts, so that an
invariant or a liveness property of one part is checked as it would be alone.
Models that use a name for the same kind of thing (`pc`, `errors`) share the
variable.

Operators whose comment calls them mutants are not part of a specification. Each is
a plausible mistake in the definition below it, and putting it there breaks a
property: the table in `PROJECT.json` says which.

### DeviceIdAllocator

`states` and `cursor` are the two fields; `start` is the local of `allocate()`.
The allocator is used behind a `Mutex`, so calls do not interleave, but the
scan has a step per iteration: that it ends, and skips nothing that is free, is
what is to be shown. `Reload` is a commit followed by the next load: the state
goes to bytes and back, bit by bit. The run needs more than 256 ids, so that the
second cursor byte matters: it has 264, of which three may be released (the
first, the last, one in between), and checks the stored form at every cursor.
The state is finite, so every order of operations is there.

### XenstoreBus

A caller is in one of the states `idle`, `numbered` (it has an id),
`registered` (its sender is in the reply map), `waiting` (its message is
queued). These are the points where other tasks may run: the two locks of
`send_buf` and the wait for the answer. A request is named by its number `n`,
1 for the first id handed out; `n` stands for the one-shot channel of the call
as well. The code knows only `req = (n - 1) mod IdSpace`. `slot[c]` is what the
receiver of `c` holds: nothing, an answer, or `Closed` when its sender was
dropped.

The processor has one action for each arm of `select!`; an arm that writes has
two, because `write_all` waits for room in the socket and meanwhile no other
arm runs. The reader is a thread and waits for room in its channel. The store
is outside the repository: it serves requests in order, answers each, fires a
watch when it is set and whenever its path changes, and waits when the socket
towards the client is full. `Cancel` is the drop of a caller's future.
`ProcessorEnds` (only where `Failures` is `TRUE`) is the return of `process()`.

One assumption is made of callers: an id comes round again only when the
request that had it is done with (`WindowOpen`). With 2^32 ids the code relies
on it too and does not check it.

Bounds: `MaxRequests` calls and `MaxChanges` changes of watched paths. In
`bus_safety` three callers and a watch have three ids and four requests, so that
ids come round while earlier requests are still in use. Queues of one or two
entries fill, so that refusals, lost events and blocked writes are all met.
Callers are symmetric.

- `bus_safety`, with failures: replies reach their calls, ids under way differ,
  waiting calls can be answered, the reply map is accounted for, no wake-up is
  lost although events are, and the whole refines `XenstoreRpc`.
- `bus_calls_return`: every call ends, as long as the processor task runs.
  Three requests fit the pipe here. If they do not (five, with every capacity
  one) there is a circular wait: the processor waits for the socket to the
  store, the store for the socket from it, the reader for its queue and that
  queue for the processor. The capacities in the code, ten and ten beside the
  kernel's buffers, put this off without ruling it out.
- `bus_ends` (a violation): when the processor task ends, calls that wait never
  end. The senders live in the reply map, which all clones of the socket share;
  `RecvError`, for which `error.rs:36` has a message, cannot occur.
- `bus_unwatch` (a violation): the payload of an unwatch is id, path
  (`bus.rs:282-285`), where the protocol has path, token (`sys.rs:143-144`,
  `lib.rs:249`). A watch that was set is therefore never taken back. With the
  two exchanged the property holds in the same instance.

Not covered by a property: a `bind_watch` that is cancelled while its request
is queued, followed by the drop of the handle, may send the unwatch first.

Fairness: each caller (tokio polls what can proceed), the processor task, the
reader thread and the store. No fairness for the start of a call, for
cancellation, for the drop of a handle or for changes. It is used in
`bus_calls_return`, `bus_ends` and `bus_unwatch` only.

### DeviceTransactions

One domain, several tasks; each either adds a list of devices (the second loop
of `init`, which other users of `XenClient::transaction` repeat) or destroys
one. The stored allocators are two keys, the nodes of devices two sets. A
transaction's isolation is the store's: the model keeps the keys each
transaction has used (`seen`) and whether one of them has changed since
(`stale`); such a commit is refused. Nodes share directories, so the addition
or removal of other nodes may cause a refusal as well, but need not (`near`).
`txn` is the `XenTransaction` with its copies of the allocators, `results` is
what the caller's loop collects.

`Cancel` may come at any point. What becomes of an open transaction then
depends on where it is: `XenTransaction::new` and `destroy_backend` hold a plain
`XsdTransaction`, which has no `Drop`; between the loads and the commit `Drop`
spawns an abort; from the commit on the abort flag is off. `lost` counts the
transactions that stay open for good. The waits in `destroy_backend` end after
at most three wake-ups whatever they read, so `RemoveNode` needs no guard.

Callers are assumed to destroy a device by one call at a time, and not again
after a call that succeeded or was given up. Without that, an id can be
released that a newer device has.

Bounds: two tasks, three ids, four calls, lists of one disk or of a network
device and a disk, one cancellation. Ids run out, come round and are used
again; commits collide; a destroy fails between its two nodes and is repeated.

- `devices`: ids and block indexes are exclusive and held while in use, none is
  lost, results belong to the attempt that was committed, open transactions are
  accounted for; and it refines `DeviceRegistry`: a committed attempt is one
  step, in which every device gets the ids that come next.
- `devices_calls_end`: the retry loops end. The loops have no limit, and a task
  may lose every race against others that keep making calls; the bound on calls
  stands for the assumption that they stop. Fairness: tasks in a call, and the
  spawned aborts.

### LastHandle

`Drop for XsdSocket` asks for the strong count while the dropped handle still
counts; the fields go afterwards. These are two steps, and two handles may be
between them. The processor task is never aborted under a handle in use;
when two are dropped at once it may be that nobody aborts it
(`AbortedWithTheLast` says that this is the only way). Four handles; part of
`kernel_objects`.

### DomainLifecycle, DomainTeardown, DeviceNodes, PciDevices: the run `domains`

`DomainLifecycle` has one step for each call that `create`, `create_internal`,
`init` and `destroy` make: the hypervisor's calls in the order of the code
(`Steps`), the transaction that declares the domain, introduction, the
transaction for the devices, unpausing. Every create has a uuid of its own, and each piece of
the store remembers whose it is; numbers of domains come round. A call may
fail (`CallFails`, then `Undo` or an end without one, as `create` has it) and
a task may be dropped anywhere (`Cancel`). `ReturnedAreWhole` is what a caller
relies on: what `create` returned is whole, in hypervisor and store, until its
owner destroys it. `LeftoversAreExplained` says what errors leave, and that
nothing else leaves anything: a domain of whom nobody knows, stale entries and
vm directories each belong to one that met an error or was dropped. A create
that is dropped half way leaves a paused domain for good.
Assumption: a domain is destroyed by one call at a time, and by its owner.
Bounds: two tasks, two numbers, three creates, two errors, one drop.
`introduce_domain` and `write` of `xenstore/src/lib.rs` answer `Ok(true)`
whenever they do not fail, so that `IntroduceDomainFailed` cannot occur, and
the model has no such branch.

`DomainTeardown` has the inside of `destroy_store`: two callers of destroy list
the backends, one read of the store at a time (the console's, the types of device, the
devices, the backend of each; a device that has gone meanwhile is passed over), close each (`destroy_backend`, with the state it read, its own
transaction and at most three wake-ups), and remove everything in one last
transaction, while drivers change their states and another task still commits a
device. Without errors, refusals and devices that come when the names have been read nothing
remains (`NothingRemains`); a node that was removed does not come back by being closed,
and is removed under a driver's hands only after three looks
(`NodesAreTornDown`); a destroy ends even if no driver reacts (in `CallsEnd`
of `endings`). The wake-ups counted are events of any kind, the first
firing of the watch and that of the caller's own write included, so the
driver may have much less time than three seconds. `looks` counts for each caller
apart: two that destroy a domain at once look three times each. Two devices, one late
device, one error.

`DeviceNodes` looks at the nodes themselves: paths and links of frontend and backend
for each kind of device, the default console (whose frontend lies elsewhere),
configurations that fail after ids were taken, a domain that is declared where a former
one's nodes were left behind. `DevicesAreWhole` has an exception
the code needs: `destroy_device` looks for a default console at
`device/console/<id>`, finds nothing, gives its id back and leaves its nodes, and
the backend may become another device's. That `add_domain_declaration`
writes the former domain's allocators back, which looks like a mistake, is what
keeps a new device off a backend that was left behind (`BackendsAreNotTaken`).
Three device ids, two block indexes, lists of two, four calls; one call at a time.

`PciDevices` has two domains that are prepared at once, and an administrator
who rebinds devices. Addresses are modelled with what is written of them when
sysfs is asked (`Display`) and with what the hypervisor is told (`encode`, cut to
widths): an address without a domain or with a virtual function is never found,
and one cut to another device's is never assigned. Whoever was prepared has the very
devices asked for; a domain whose prepare failed
is destroyed, so nobody keeps rights to another's device.

The rounding of page counts adds the page shift less one, 11, instead of the page size less
one (`tx/pci.rs:121`). So of a BAR that is not whole pages the last page is not
permitted, and of one of 256 bytes none is: the guest cannot use that part. `PreparedAreWhole`
says that this page (`Partial`) is the only thing that is missing, and
`RightsFollowOwnership` that nobody gets a page of another's device, shared ones
included. The instance has BARs of a page, of 256 bytes, and of a page and 256 bytes, the last
two with a page in common. A call that permits no pages may be refused by the
hypervisor (`PermitNothing`), and the domain is given up then. The order in which the lines of
`resource` are permitted is left open (`lines` is the set still to do). The reset
comes before the assignment, so it may hit a device another domain has meanwhile.

### EventChannels, GrantTable, LoopDevices: the run `kernel_objects`

`EventChannels`: a task binds a port, subscribes, waits, unmasks and unbinds, by
an explicit call or by drop; the processor is a thread of its own that reads a
port, looks it up and wakes. The lock of the file handle is state, because an ioctl
runs on a blocking thread: a future that is dropped gives the lock back while its
ioctl still runs (`orphans`). The wake map and a `Notify` are modelled with
identity, since a port that comes round must not wake its former owner's.
An open channel is the one the thread would wake
(`ChannelsAreRegistered`), ports nobody has are the work of dropped futures and of
unbinds that failed (an error leaves the port bound and its entry in the map,
`xenevtchn/src/lib.rs:136-139`), and an event is never lost, subscribed before or after it fired
(`EventsAreNotLost`). Assumption: a port is unbound once, by a call or by the drop of its channel;
were the two to follow one another, the second could unbind a port that is
someone else's by then. An unmask of a port that is bound does not fail.
Two tasks, two ports, one drop, one failure.
The thread ends only when the file can no longer be read.

`GrantTable`: three threads map and drop. The drop asks for the index behind the
address first, unmaps, and gives the index back last: `MemoryIsOwn` shows that
the order matters. When `mmap` or a later call fails, the index stays in use; when
`munmap` fails, the error is ignored (`xengnt/src/lib.rs:238`), the index is
given back all the same, and a window that is nobody's stays (`stuck`).
`AllocGref::write` (`xengnt/src/sys.rs:128-129`) puts the count in the high
half of a word; nothing uses it, and it is not modelled.

`LoopDevices`: `next_free` reserves nothing. Three users race for two devices;
`LOOP_SET_FD` decides. Nobody loses a device to another's attempt or clean-up. After a
failure the device is free again, with two exceptions, which `FailedIsFree` counts: the code
takes nothing back when direct I/O is refused, and a `LOOP_CLR_FD` that fails, in
`detach` or in the clean-up whose error is ignored (`loopdev/src/lib.rs:183`), leaves
the file attached. The autoclear flag of `AttachOptions`, with which the kernel detaches
at the last close, is not modelled.

### DeviceStateWaiter, MmapBatch, BlockDevices: the run `endings`

`DeviceStateWaiter` has one step for each read of a round, because states change in
between. `WaitsEnd`: `wait` ends by its deadline; and, without one, devices that
have become ready are found even when all their events were dropped, thanks to
the timer of 250 ms. Success is only found when one round has read the desired
state of every device. `waiter_truth` (a violation) shows that `wait` tells
nobody: it looks at the error of `timeout` and drops the result of `do_wait`
(`devstate.rs:122-130`), so that a device whose state is beyond the desired one
makes it return `Ok` at once.

`MmapBatch`: an answer of 0 means that every frame is mapped, and
every user of the function takes no other for success. The search for the
end of a run of paged frames never leaves the loop when the run contains the last frame
(`xencall/src/lib.rs:312-320`), so `BatchReturns` excludes that case; and only the
first run is tried again. Five frames, any of them paged out.

`BlockDevices` names the first thousand and one disks, which has names of one, two and three
letters. `EventChannels` (one port) and `DomainTeardown` are run here for their
liveness. Fairness: a task is polled while it can proceed, weakly; the
processor thread and detached ioctls run; tokio's mutex is fair, so taking it has
strong fairness; timers fire. Drivers, administrators, errors and drops have none.

### DomainBuild, PageTables, ElfImage: the run `build`

`DomainBuild` goes through `initialize` and `boot` of `boot.rs` in the order of
the code, with a step for each segment, window and table. The state has what the code
keeps (segments, `virt_alloc_end`, `pfn_alloc_end`, p2m, the list of windows)
and what it changes outside (frames in windows, page tables). `PageTables` has the
layout: `count_page_tables` with its overlap check and `setup_page_tables`. Widths
are constants, 2 bits a level instead of 9, so that a few dozen pages need
tables of all four levels. Images differ in base, size, place of the frame list,
initrd and total memory. `TablesAgree`: the kernel gets
the addresses it was linked for, segments are mapped to
their pages, no page table is writable by the guest and every other page of the
kernel's area is. Three cases are excluded:

- The kernel's area and the list's overlap (`AreasAreApart`). `count_page_tables` looks for that, but
  compares whole addresses (`x86pv.rs:223`) with areas that have been cut to
  48 bits (`:228`), so in the upper half it never finds any, and the build goes on. Without the guard TLC
  shows the one list of tables hiding the other.
- An area goes round the end of the address space (`AreasAreWhole`). TLC has found no
  image where this goes wrong, since such a build fails before its tables are written; the
  proof does not show that, and keeps the guard.
- Where pages ought to be writable, areas that are not whole or begin amid a page. They
  may have a table without any entry, whose page is read-only all the same.

`MemoryAgrees`: pages and frames are
handed out once, and windows are accounted for: a failed build leaves at most the one
whose mapping failed half way (`mem.rs:107-113`, `x86pv.rs:694-697`), a booted one none.
When a `munmap` fails, `unmap_all` ends (`mem.rs:186-188`), and the windows from there on
stay: the build is `stuck`. `BuildsEnd`: the
loop that looks for the number of page tables ends. The model also shows what
the properties exclude: a frame list at or above the kernel's base makes the
tables lack a level, a command line longer than its array panics
(`x86pv.rs:651`), so does a page for hypercalls whose address is below the base or behind the
domain's last page (`x86pv.rs:762-764`), an initrd with `MOD_START_PFN` 0 is mapped before there
is memory and so always fails, and the branch that falls back from superpages
to pages is unreachable because `populate_physmap` fails on a short answer.

`ElfImage`: `load` tries each place that looks like compressed data; a decoder may
fail, give junk, part of the image or the whole. `parse_sync` measures the loadable
headers with permissions, `load` copies all headers. For images whose other headers lie in the
loadable ones (as notes do), and whose loaded segments do not overlap and are no longer
in the file than in memory (`Plain`), the segment in memory is what the image
says, whatever the decoder gave, and nothing panics (`KernelIsTheImage`); others may
panic or overwrite: a header that is longer in the file than in memory makes the
subtraction at `elfloader.rs:290` or the index behind it panic. A whole image is found behind places that decode to nothing.

## Runs

| run | shows | size |
|---|---|---|
| `allocator` | next-fit allocator, stored form, 264 ids | 8,800 states |
| `bus_safety` | safety of the connection with failures, refinement | 1,013,000 |
| `bus_calls_return` | calls end while the processor runs | small |
| `bus_ends`, `bus_unwatch` | violations, see above | small |
| `devices` | ids, transactions, refinement | 215,000 |
| `devices_calls_end` | retry loops end | small |
| `domains` | life cycle, teardown, nodes, PCI | 2,118,000 |
| `kernel_objects` | channels, grants, loop devices, handles | 2,899,000 |
| `endings` | liveness of the smaller parts, true answers, names of disks | 60,000 |
| `waiter_truth` | violation, see above | small |
| `build` | page tables, memory, loader | 14,500 |

`CHECK_DEADLOCK FALSE` is set wherever calls are bounded: when they are used up
the system rests.

## Proofs

For `DeviceIdAllocator`, for every number of ids that is a multiple of eight and
whose cursor fits four bytes: types, `ScannedAreTaken`, the stored form, and the
refinement of `IdAllocator`. The inductive invariant is `TypeOK` with
`ScannedAreTaken`: a step of the scan extends the arc of taken ids by one
(`ArcGrows`). The stored form needs no induction: bytes of the cursor are
divided out and added up again, and a bit of a byte is found by its weight.

For `XenstoreBus`, for any numbers of callers and handles, any capacities and any
number of ids, with failures or without: types with queue capacities
(`TypeCorrect`), `ReplyReachesItsCall`, `IdsUnderWayDiffer`,
`WaitingCallsAreServed` and `EntriesAreAccounted`. None of these is inductive.
The invariant `IInv` adds

- `Window`: the ids in use lie in a window of at most `IdSpace` ids that ends at
  the next one, so each is its request's number modulo `IdSpace`; two requests
  in it with the same id are the same (`WindowGivesOneRequest`);
- `Entries`: an entry of the reply map stands under the id of its request;
- `OwnEntry`: a call has an entry exactly from the time it enters it until its
  slot is filled;
- `Kinds`, `Slots`, `CallsDiffer`: what carries a number, when a slot is empty,
  and that calls in progress have numbers of their own.

Steps that only pass messages on are dealt with once (`PassedOn`,
`PassingOn`); those that take an id, enter or take out an entry, or end a call
have a lemma each. The assumption on ids, `WindowOpen`, enters in `WindowMoves`
alone. Other assumptions: `CapacityAssumption`, `SizeAssumption`,
`ReleasableAssumption`.

That the bus implements `XenstoreRpc` (`RefinesRpc`) needs more, in `RpcInv`: a
caller's request is in one place on its way to the store (`Lines`,
`NotSentYet`), so that it is executed once; and what comes back with the number of a call
in progress is the answer to an executed request (`Answers`), so that a slot
is never filled before (`SlotsExecuted`). Each step of the bus is then one step of the call
or none (`RpcSteps`, one lemma for each group of actions).

`NoLostWakeup` (`WakeupsCorrect`) needs `WatchInv`: watch ids were given out in
order, so the id of a handle leads to it in the watch map, and requests for
watches, as well as the store's watches, name a handle by the id it has. The theorem assumes that
there are no more handles than ids; with more, `CreateWatch` would replace
entries of the map (`bus.rs:186`).

For `DeviceTransactions`, any finite set of tasks, any number of ids, any lists
of devices, any number of calls and cancellations: types,
`TransactionsAreAccounted`, `IdsMatchDevices`, `ReturnedDevicesAreStored`. What is
inductive says, beside these,

- `Shape`: what a task has at each place of its call;
- `Loaded`: from the time a task has read "devid", either another commit has
  spoilt its transaction, so that the store will refuse it, or its allocators are
  the stored ones with its own new ids added or its device's taken out: this is
  why two tasks that work from the same copy cannot both commit;
- `Going` and `Fresh`: a device that is being destroyed is nobody else's and has
  lost its nodes by the time its ids are given back; one that was committed is
  nobody's until its call returns;
- `LiveHold`: all devices with a node, in a caller's hands or on their way out
  hold ids of their own; `Accounted`: no other ids are held.

A commit is the one step that needs `Loaded`; every other one changes hands only
(`HandsChange`) or nothing (`QuietKeeps`). The store's promise is used as it is
modelled: a transaction that read a key which was changed since is refused.

That it implements `DeviceRegistry` (`RegistryImplemented`) needs two facts more.
`Chain`: the first `n` ids that a cursor finds free are those up to the `n`-th, so an
attempt that has allocated `n` ids one by one has the ids a single step
takes. `Follows`: as long as no other commit has spoilt an attempt, it has taken exactly
the ids that come next in the stored allocators, in the order of its list. The
commit of an addition is then `Add`, the removal of the frontend node is `Remove`, the
commit of a release is `Release`, and every other step changes nothing a caller could see;
an attempt that is thrown away is none.

For `BlockDevices` (in `EndingsProofs`), for every block index: the digits found and the number left
make up the index at every turn (`RemainderHolds`), and virtual device numbers of
different disks are different ranges (`NumbersAreDisjoint`). Both rest on one
lemma about division, `DigitSplitsOff`. A name is read back by a recursive
function; that one digit more in front is a number that begins with that digit
(`Reads`) is all that is used of it, so the proof goes along the loop of the
code and needs no induction over names (`NamesCorrect`).

`KernelObjectsProofs`, for any numbers of whatever there is:

- `ChanInv` for `EventChannels`. Whoever is between an ioctl and its answer has
  the lock (`Locked`); a port in the hands of a task is nobody else's (`Holding`), nor that
  of an unbind whose future was dropped and whose ioctl is still to run
  (`Unbinding`); and two ports never have one `Notify`
  (`NotifiesDiffer`). With these
  `EventsAreNotLost` is inductive: taking a permit or removing an entry touches one
  owner's port, and making an entry keeps the permits of all others. That bound ports
  nobody has are no more than dropped futures and failed unbinds is counted (`Counted`). The set of
  `Notify` objects is a bound like the rest: when it is used up nobody subscribes.
- `GrantInv`: what a thread holds at each place of the code (`GrantPlaces`), that
  windows show indexes of their own (`WindowsDiffer`), and that no two threads work
  with one index or address (`ThreadsDiffer`).
- `LoopInv`: who is not idle has one device open, and has not attached it
  before `LOOP_SET_FD`.
- `DropsInv`: while a handle is in use the processor task runs, and it runs on after the
  last one only if two drops have met.

Assumed is that the value for "nothing" is none of the tasks, ports or devices, and that bounds
are numbers (`ConstantsAssumption`).

`EndingsProofs`, for any number of devices, states and frames: `AnswersAreTrue`.
While a round of `do_wait` has counted every device it has read, all of them were
ready (`Counting`); `mmap_batch` answers 0 only at once, before any search
for paged frames (`Searching`). `NameIsItsNumber` is proved here for the run.

`DomainsProofs`, for any numbers of tasks, domains, devices and configurations:

- `LifeInv` for `DomainLifecycle`: every uuid was given once and has one owner, a
  call or the set of known domains (`Owned`, `Numbered`); how far a create has come shows
  in the hypervisor and the store (`AllAdvanced`); who undoes or has met an error
  is on record (`Explained`). The leftovers are counted against these.
- `TearInv` for `DomainTeardown`, with any number of callers at once: what is
  listed, in hand or closed (`Ordered`), the looks each caller has had (`Looked`), and that a
  transaction which can be committed has read what is there (`Isolated`). As long as
  nothing went wrong the domain is there as a whole or not at all
  (`AllOrNothing`), and a caller that has listed the devices has missed none (`ListedAreAll`).
- `NodesInv` for `DeviceNodes`: every node is a device's or an orphan's and leads to its other
  half, every id is one device's or was left behind (`Sound`). It is stated of
  a view, so that the store and the open transaction share the proof (`Adding`).
  `ConfigsAssumption`: kinds are kinds.
- `PciInv` for `PciDevices`: what a prepare was asked for is there as far as it has come, and
  the domain has no rights beyond that (`Progress`). `HardwareAssumption` says that addresses
  of real devices fit their widths, that regions of different devices do not
  overlap, and that regions of memory are what PCI makes them: of units of 16 bytes, at the
  beginning of a page or within one. They may share a page. The rounding of `tx/pci.rs:121` gives
  such a region the pages it has as a whole and no other (`PermittedIsWhole`, `PermittedIsOwn`), so
  a shared page is never permitted to anybody.

`DomainBuildProofs`: `KernelIsTheImage`, for every image and every outcome of the decoders.
`ElfInv` relates the three loops over the headers: the range measured so far covers the headers
seen (`InRange`), and a place in memory holds what the image says or
nothing yet, and what it says if a header already copied loads it (`Filled`).
`FilesAssumption`: headers lie no higher than the value the search for the
lowest begins with (`u64::MAX` in the code).

The same module has `MemoryAgrees`, for every image, all widths and any outcome of the calls to
the kernel and the hypervisor (`MemoryKept`). `BuildInv` is what is inductive:

- `CountersInv`: how far pages and addresses are handed out, which agree from the moment
  there is memory; `FramesInv`: the frame of a page follows from its number, and
  differs for different pages (`FramesDiffer`), superpages and single ones;
- `SegsInv`: segments lie one behind the other and use no more than they have;
- `TabsInv`: counted tables lie in the segment made for them, behind the list of frames when
  it has one, or are to lie at the end until they are allocated. The ranges of its levels are whole tables (`Aligned`), also when
  those of the first mapping are cut out of them (`UncoveredAligned`); and the tables of
  a mapping are apart from what others use, and in a window as a whole or not at
  all (`Apart`);
- `WinsInv`: what each window shows, those that a failed `munmap` left included;
- `TablesInv`: what has been written is in pages that no segment uses for anything else.

The step that needs all of it is `setup_page_tables`, which finds a window by
the first table of a level and indexes it by the number of the entry: the
number, divided by the entries of a table, is less than the number of tables
counted (`EntriesAreInTables`), so the entry lands in a table of the mapping.
`WidthsAssumption` and `BoundsAssumption` say of powers of two what the
provers do not know: that they are positive, that a table of a level reaches
as far as its entries do together, from one page to the whole address space, and
that the end of the first area is rounded to whole pages.

`DomainTablesProofs`: `TablesAgree`, for the same (`TablesHold`). It goes by
blocks: a block of level `l` is what one entry of that level stands for, and its
number divided by `Entries` is its block one level up. `MapInv` is inductive beside `BuildInv`:

- `LaidInv`: the tables of each counted area are laid out as counted, level by level;
- `AreasInv`: the areas counted are the kernel's and the list's, with the pages they begin
  at, and the kernel's has room for its own tables and ends in whole pages; segments
  lie in them;
- `EntriesInv`: memory has the entries of the mappings done so far, each entry's
  target and protection as the layout says, and nothing else;
- `ValuesInv`: what p2m and cr3 hold.

That the kernel is in its place is inductive beside `BuildInv` (`KernelStays`).

`SegmentsFound` goes down the levels: a block of an area has exactly one entry in
the tables of that level, which may be those of the other mapping where their ranges
meet (`Uncovered`), and that entry leads to the table of the next; at the last
level it leads to the frame. `ReadOnly` needs that tables lie together at the end of the
kernel's area or behind the list, where `get_pg_prot` looks for them, and that each of them
has an entry. Then every step of the build keeps `MapInv` (`MapNextOK`); the steps that matter are
the count of an area, whose number of tables the code guesses and tries again,
and each table that is written.

Only model-checked:

- liveness (`CallsReturn`, `CallsEnd`, `AllocateReturns`, `WaitsEnd`, `EventsWake`,
  `BuildsEnd`), which the provers do not reach;
- the three violations.

## Not modelled

Opening the store's socket, the encoding of headers and payloads, permissions and
listings; the layouts of `sys.rs`; hypervisor calls that fill one structure, issue one
ioctl and keep no state, those for HVM and cpu frequency among them; `GrantAlloc` and
`notify` of grants; `list_devices`, `has_slot` and the parsing of PCI addresses;
inflating and the ELF format, done by libraries; the text of
nodes (names, sizes, modes, MAC addresses); examples, build files.
A `bind_watch` that is cancelled while its request is queued, then the drop of its handle,
may send the unwatch first: no property speaks of it. Nor of a
`destroy_device` that is repeated after success (`lib.rs:280`): callers are
assumed not to.

## Next

Every invariant of the runs is proved. `TablesAgree` could lose `AreasAreWhole` if it were
proved that a build whose area goes round the end fails before its tables are written. Two
models could be joined: `DomainTeardown` with the retry loops of `DeviceTransactions`,
which now share only what a transaction is.
