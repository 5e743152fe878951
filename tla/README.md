# A TLA+ model of container-infra

container-infra runs OCI containers in Firecracker micro virtual machines. A
node manager (gRPC server, tokio) provisions and removes virtual machines on a
host; in each machine an init program pulls the image, runs the container and
sends its output to the node manager over a vsock stream.

This directory holds TLA+ modules for the node manager and for the program inside
the machine, TLC configurations that check them on small instances, and TLAPS
proofs of their safety properties for every value of the constants. `PROJECT.json` lists components, runs, the map
from definitions to source lines, the hazards with the properties that cover
them, findings and theorems.

    tlc -workers 2 -config NodeManager_safety.cfg MC_NodeManager
    tlapm Networking_proofs.tla

## The system

| component | state | operations | hard behaviour |
|---|---|---|---|
| `nodemanager/src/networking.rs` | free slots, `next_id: u16`; per stack a tap device and a book of iptables rules; both exist on the host | `provision_stack`, `setup_public_nat`, `setup_forwarding`, `reclaim`, the `Drop`s | 16-bit overflow; commands that fail half way up, or on the way down, where failure is ignored; slots lost on error paths |
| `manager.rs` | machine map behind an `RwLock`, `NetworkManager` behind a `Mutex`, optional subscriber channel | the RPCs `provision`, `deprovision`, `drain`, `list_instances`, `get_logs`, `stream_logs`, `publish_service_port`; one cleanup task per machine; the Ctrl-C drain | locks held across awaits; handlers cancelled at any await; RPC, cleanup task and drain racing for one machine |
| `machine/machine.rs`, `machine/firecracker.rs` | the firecracker process, its jail directory, the stack it owns | `Machine::new`, `shutdown`, `JailedCracker::spawn`, configuration, `cleanup` | timeouts (1ms for the API socket, 500ms for the guest's connection, the shutdown timeout); dropping a `Machine` does not kill its process |
| `machine/vsock.rs` | last 256 log entries, last state, subscribers | `packet_handler`, `push_log`, `clone_buffer_with_state`, `subscribe_log`, `send_shutdown` | bounded channels, slow clients, `try_lock`, end of stream |
| `main.rs` | - | Ctrl-C, end of the process | tasks dropped by the runtime |
| `proto/src/auth.rs` | - | `validate_authentication`, `sign_token` | scope of a token, clocks that differ, edges of the validity window |
| `instance/src/main.rs`, `host.rs` | exit channel, container process, connection to the host | start-up, run, shutdown request, exit, panic hook | threads that share one channel and one mutex; a pull that fails while its workers go on; a shutdown request at any time; a host that leaves |
| `spawn_pipe_to_log` in `host.rs` | a byte buffer per pipe | read, send a line, cut a long line | buffer arithmetic for every way the reads cut the output |
| `instance/src/containers/` | layer queue, progress counter | image pull with worker threads and retries, overlay mount | one worker failing among several, progress numbers across threads |
| `nodecli` run, `containers/rt.rs` | - | command line to runtime specification | casts between widths, overrides of the image's configuration |
| `vmproto/`, `proto/` | - | packet and RPC formats | - |

Calls: the RPC handlers use `NetworkManager` under its mutex and `Machine`
directly; `Machine` owns a `NetworkStack` and shares a `MachineCommunicator`
with its packet handler task. The packet handler tells the cleanup task of the
machine (a oneshot channel) when the stream is over, and the cleanup task
notifies the subscriber and deprovisions.

What makes it right: a slot, address, device and rule has one owner at a time; a
live virtual machine never shares its address; the map holds every machine
that is being looked after and each of them will be noticed when it exits; locks
are always released; a log stream has no holes and slow clients hurt only
themselves. In the guest: all output is sent before the exit is, the exit is the
container's own, nothing incomplete is mounted, and the machine stops by itself
when its container or its host is gone.

## Modules

| module | models | notes |
|---|---|---|
| `Networking` | `networking.rs` | no recursion, bags for rule books and tables |
| `Machines` | - | abstract life of a machine, implemented by `NodeManager` |
| `NodeManager` | `manager.rs`, `machine.rs`, `firecracker.rs`, `main.rs` | contains `Net`, an instance of `Networking` with its proofs that shares its variables, and `Life == INSTANCE Machines` with a refinement mapping |
| `MachineLog` | `vsock.rs`, log readers of `manager.rs` | one machine |
| `Guest` | `instance/src/main.rs`, `host.rs`, `init.rs`, `mmds.rs` | the workers of the pull are one thread, lines are numbers |
| `PipeToLog` | `spawn_pipe_to_log` of `host.rs` | one logger of `Guest`, byte by byte |
| `ImagePull` | `containers/mod.rs`, `registry.rs`, `fs.rs` | the pull of `Guest`, with its threads |
| `Auth` | `proto/src/auth.rs`, `validate_auth` and the audiences of `manager.rs` | |
| `RunRequest` | `nodecli` run, `_provision`, `rt.rs` | one request from the command line to crun |
| `Networking_proofs`, `NodeManager_proofs`, `MachineLog_proofs`, `Guest_proofs`, `PipeToLog_proofs`, `ImagePull_proofs`, `Auth_proofs`, `RunRequest_proofs` | - | theorems about the module each is named after |
| `MC_*` | - | symmetry sets for TLC |

Definitions named "Faulty variant" are plausible mistakes in the code. No
specification uses them; put in the place of the definition they follow, each
one makes a property fail, which shows that the property is about that code.

### Networking

A slot is a number; `Tap`, `ip_id`, `gateway`, `ipv4_addr` are computed from it as
in `next_slot()`, in arithmetic modulo `U16` (2^16 in the code).
`overflow_checks` is the build, chosen once from `Builds`: in a debug build
`next_slot_panics` replaces the silent wrap. `recovered_slots` is the LIFO of the
code. `live`, `slot` and `book` are the `NetworkStack` values, `taps` and `iptables` what is on the host.
Rule order does not matter to what is checked, so book and tables are bags: `-D`
deletes one copy of an equal rule. `RulesOwned` counts: a rule is in the tables as
often as there are book entries for it (`Entries`). `setup_public_nat(o, n)` and
`setup_forwarding(o, hp, gp, n)` install the first n rules; a smaller n than the
code's number of rules is the failure after n commands. `reclaim` and `drop` are
the two ways a stack ends. With `DeleteMayFail`, any deletion may fail; the rules
concerned are remembered in the history variable `leaked`, and `MaxLeaks` bounds
rules and devices left behind. `drop_manager` is the end of the `NetworkManager`,
which deletes its one global rule; it comes after the last stack, since whatever
holds a stack holds the manager as well.

### NodeManager

Tasks are the RPC handlers `Rpc`, one cleanup task per machine and the Ctrl-C
task. `task[t]` has a program counter, the operation, the machine in hand, and
the rest of a drain. An action is what happens between two awaits, or less while
the write lock is held. tokio's `RwLock` is first come, first served: `waiting` is
its queue, and a guard or a place in the queue disappears when its task ends or is
cancelled (`Release`). The network mutex is only ever taken under the write lock,
so it needs no queue.

`cancel` drops a handler at any of its awaits. If it holds machines, they are
dropped one by one (`drop_held`): their stacks go, the processes (`vm`) and jails
stay. The same happens when `Machine::new` fails. `vm_exits` is the process ending
by itself, `packet_handler_stops` the end of its stream or the guest's Exited
packet. `process_exits`, `exit_drop` and `exit_drop_manager` are the end of `main`
and the drop of the runtime. `faults` counts failures, timeouts and cancellations;
`MaxFaults` bounds them, except for those that cannot be avoided (a dead process answers no
request).

`HostTidy` ties the devices on the host to the map and the tasks, and says what the
end of the process leaves.

`configured` stands for the configuration calls of `JailedCracker`: what is sent is
left out, that each may fail is kept in `start_vm`.

`Phase` maps this state to `Machines`: a machine is listed while it is in the
map, starting or stopping while a task holds it, and else abandoned or gone as its
process lives or not. `LifeSpec` says that every step is then one of `Machines`.

### MachineLog

`inbox` is the vsock stream, `handler` the packet handler, `lock` the
communicator's mutex. A reader goes through `stream_logs` (map read lock),
`lock_communicator`, `get_and_subscribe_to_logs` and then the forwarding task's
`forward_*` steps. Log lines and states are numbered in sending order. `hist`,
`snap`, `from`, `got` and `lagged` are history variables. `get_logs` copies the
buffer under the mutex and changes nothing; `SnapshotFaithful` speaks of the copy it
would get in any state. A shutdown needs the map's write lock, so it begins
only when no reader is between `stream_logs` and its release. `machine_dropped` ends
one that ran to its end and killed the VM; `shutdown_cancelled` is a deprovision or
drain whose client went away, which drops the `Machine` unkilled: the handler keeps
the communicator, and the streams go on with the VM.

### Guest

`pc` has the place of each thread: main, the reader of the host's packets, the
workers of the pull (one thread, "puller", which writes their progress), a logger for
each pipe and the waiter. `lock` is the holder of the connection's mutex, `exit_rx` the
channel from reader and waiter to main, `wire` the packets written. A pull that fails
lets main report it (`pull_failed`) while the puller goes on, so progress may follow
Exited. A packet of a logger has one or more lines, as a read may; a logger whose read
fails ends at once and leaves its pipe in `broken`.

The container (`container`, `code`, `pipes`) is made some time after `crun run` was
spawned, writes to both pipes and ends when it likes or when it was signalled. `kill`
may fail to start `crun kill`, and signals only a container that exists: `signal` says
which it was. The host may ask for a shutdown at any time after the connection is up,
and may leave at any time. A panic in any thread (a failed write, a missing
configuration, a closed connection) runs the hook; the others go on until `power_off`.

The host is `MachineLog`'s: its packet handler reads `wire` in order and up to
Exited, which is why `ExitedIsLast` and `OutputBeforeExit` speak of positions in it.

### PipeToLog

A byte is its position in the output, so every misplaced byte shows. `newlines` is any
subset of the positions and a read returns any number of bytes that fit. `buf`,
`pos`, the move to the front and the overflow mark are the code's, index by index;
`crossed` remembers that a read went on behind a line end.

### ImagePull

Main and `CONCURRENT_LAYER_DOWNLOADS` workers. `get` is one request,
`get_with_backoff` one with retries while time is left (`MaxTries`). Layers have a
media type and a digest, which may repeat and then names the same folder. `join_worker`
returns at the first failed worker it meets while the others still run. A layer
that cannot be extracted (an unknown media type; zstd, which the code gives to a
zlib decoder) fails its worker.

### Auth and RunRequest

`Auth` has one node, tokens signed by another host whose clock differs by up to
`Drift`, and all seven methods with the audience each asks for. The signature is
perfect. `RunRequest` follows one request through parsing, the protobuf fields with
their signs and widths, the casts of `_provision`, MMDS and
`create_runtime_spec`.

## Runs

| run | what it shows | bounds | states |
|---|---|---|---|
| `networking` | `SlotsExclusive`, `AddressesExclusive`, `RulesOwned`, types | both builds, 2 machines, width 8, 9 draws (past the wrap of `next_id` and past the two numbers whose subnets fit), 1 port, 2 copies of a rule, 1 leak | 1.1M |
| `nodemanager_safety` | `LiveVmExclusive`, `OneHolder`, `LockDiscipline`, `MapServed`, `SlotsConserved`, `HostTidy`, `DrainEmpties`, refinement `LifeSpec` | 2 machines, 1 handler, Ctrl-C, 2 faults | 580k |
| `nodemanager_live` | `RpcCompletes`, `ExitedRemoved`, types | 1 machine, 2 handlers with every kind of request, a subscriber with room for one message, overflow panics, failing deletions, 2 faults | 173k |
| `nodemanager_drain` | finding: `DrainShutsDownAll` fails | 2 machines, 1 handler, 1 fault | - |
| `machinelog` | `NoGap`, `CompleteUnlessLagged`, `SnapshotFaithful`, `HandlerNeverStalls`, `StreamsEnd`, types | 2 readers, 2 packets, channels and buffer of 1 | 385k |
| `guest` | `OutputBeforeExit`, `ExitFaithful`, `ExitedIsLast`, `OrphanStops`, `EndedStops`, `StopReachesContainer` | 2 lines in all, 1 layer, 1 exit code and a signal | 831k |
| `guest_shutdown` | finding: `ShutdownCompletes` fails | no lines or layers, 2 exit codes | - |
| `pipe` | `OnlyOutput`, `LossMarked`, types | 9 bytes, buffer of 4 + 2, mark of 1 | 269k |
| `pipe_faithful` | finding: `OutputFaithful` fails | 4 bytes | - |
| `pull` | `MountedComplete`, `LayerTakenOnce`, `ProgressInOrder`, `PullEnds`, `FailureReported` | 2 workers, up to 2 layers, 2 digests, 4 media types, 1 retry | 105k |
| `auth` | `AdmittedInScope`, `AdmittedFresh`, `FreshAdmitted` | 2 instances, 2 keys, 1 token, 13 instants, drift up to 2 of a lifetime of 4 | 416k |
| `request` | `SizesArrive`, `SpecAsGiven` | 2 keys, 2 variables, widths 4 and 16 | 341k |

Why the bounds are enough to be interesting: a handler, two cleanup tasks and
Ctrl-C give every pair of operations on one machine and on two, and a second handler
is in `nodemanager_live`; two faults abandon one machine and then disturb what comes
after it. Channels of one entry fill with the second packet, and a buffer of one
loses a state with the second. A width of 8 leaves two subnets, so every collision
case of the real width occurs; the proofs cover the real one. Nine bytes are more
than the buffer of `pipe` holds, so lines are cut, marked and cut again. Two lines are
one packet or two, on one pipe or on both, and their order can be wrong; one layer
lets a worker write behind a failed pull's Exited. Two layers
with two workers let one worker take both, or one each; zero layers are included.
The tokens' clock runs past every edge of the window.

Deadlock is checked in all runs except `networking`, a passive data structure whose
draws are bounded.

### Fairness

`NodeManager!Fairness` is weak fairness for every task: tokio polls a task whose
wait is over, the lock queue is explicit, and timeouts expire. The end of the
packet handler is fair once its process is dead (the stream is at its end). Three
assumptions go beyond this code: whoever receives `machine_state_subscription`
keeps receiving or leaves (`main.rs` passes no subscriber), the `ip` and `iptables`
commands end, and writing the Shutdown packet ends (it is the only thing the host ever
writes to this stream, and a few bytes long). Connecting to firecracker's API and its
requests have no timeout (`firecracker.rs:156` and `353-361`) and are not fair:
`RpcCompletes` and `ExitedRemoved` have `FirecrackerAnswers` as their hypothesis.
Nothing is assumed of guests that keep running, of clients, or of requests arriving.

`MachineLog!Fairness` is strong for the handler and the readers because tokio's
mutex is first come, first served and the model has no queue for it. Nothing is
assumed of clients; `StreamsEnd` has `ClientFairness` (clients take what they are
offered) as its hypothesis.

`Guest!Fairness`: the kernel runs every thread that can go on, and the pull ends, as
`ImagePull` shows. Nothing is assumed of its workers, of the container, nor of the host.
`StopReachesContainer` and `ShutdownCompletes` have `ContainerObeys` as their
hypothesis: crun makes the container, and one that got the signal ends. A container is
the first process of its own namespace (`rt.rs:32`), where a signal it has no handler
for does nothing, so not every container does. `ImagePull!Fairness`: threads run
and a request ends, as the client has a timeout; taking the mutex is strongly fair,
since its holders release it again and again.

## Findings

1. A drain whose client goes away has already emptied the map; the machines it had
   taken are dropped without being killed, and the next drain answers while they
   run (`nodemanager_drain`).
2. A shutdown request that arrives during the pull is carried out right after
   `crun run` was spawned. If the container does not exist yet the signal is lost,
   and main waits for a container nobody stops, even one that would have ended on the
   signal (`guest_shutdown`).
3. A read of a pipe that goes on behind a line end loses the last byte it read: one
   byte less is moved to the front than `pos` counts (`pipe_faithful`).

Observations no run is about:

- Two machines may publish the same host port; both requests succeed and the first
  rule wins, so the second machine is not reached.
- A firecracker process whose API does not answer holds the provision that waits for
  it, and with it the write lock: every other request waits too, until that client
  gives up.
- A cancelled deprovision or drain leaves a VM that nobody owns; its log streams, which
  were open before, go on as long as it runs.
- A container without a handler for the signal is not stopped by a shutdown request;
  the host's timeout kills the machine, and its last output with it.
- `GracefulShutdown` is never sent: main overwrites it with the container's exit code
  before it reports.
- nodecli takes what is between the first and the second `=` as a variable's value;
  `SpecAsGiven` says so. For an image without a configuration the request's arguments
  and variables are ignored; `SpecAsGiven` is not about those.
- Layers with a zstd media type go to a zlib decoder, which refuses them.
- In a release build the number 2^14 gets the subnet of number 0;
  `AddressesExclusive` says so.

## Proofs

Every safety property of the passing runs is a theorem: all 29 invariants, the
action property `DrainEmpties` and the refinement `LifeSpec`. The runs show them on small
instances; the proofs hold for every set of machines, handlers, readers, workers,
every width, capacity and bound. `PROJECT.json` lists the theorems.

    tlapm NodeManager_proofs.tla      # four minutes; the others are faster

Each module has one inductive invariant, stated at its beginning as named parts,
an `InitInv`, one lemma per action or group of actions, and `Invariance`; the
theorems about properties follow from it. TLC agrees with every
one of them on the instance of the module's run (but for `AllCounted` of
`Networking_proofs`, which speaks of infinitely many rules).

### Networking

`SlotsExclusive` is not inductive: once `next_id` has wrapped it hands out numbers
in use, and only the device of the existing stack stops them. `IInv` therefore
adds `LiveHasTap` (the device of an existing stack is on the host). A number in
the pool cannot be drawn again, as the counter is read only when the pool is
empty. For the addresses, `CounterCounts` (before the wrap `next_id` equals the
number of draws) and `SmallIds` (no number in circulation overflows) reduce the
claim to two distinct numbers below `U16 / 4`, whose subnets are disjoint by
arithmetic. `RuleSafety` rests on `AllCounted`: the count holds for every rule, also
for those that are nowhere, because a step may add a rule that was not there.
`Tidy` (the devices are those of the stacks, and the manager goes last) needs that
slots are exclusive: else dropping one stack would take another's device.

### NodeManager

`Inv` says for each task which places go with its operation (`Shape`), which guards
it has there (`Guards`), how far the machine it builds can be (`BuildStage`) and
that no other request builds it (`SoleBuilder`). `OneHolder` and `LockDiscipline`
need each other: two tasks cannot hold the same machine because whoever holds one
has the write lock, and the lock is exclusive because a task's place and its guard
go together at every await, a cancelled one included. `Takes` (a drain in progress
means the map is empty, and something is dropped only after a failure) is what
`DrainEmpties` and `SlotsConserved` need.

Each step is one operation of `Networking` or none (`NetStep`): `Net` is an instance of
`Networking_proofs` with the same variables, so this lemma, which holds by how the
actions are written, is all it takes for `NetworkSafety` and `NetInvariance` to bring
the theorems and the invariant of `Networking` over. `TidySafety` puts its `Tidy`
together with `OneHolder`. `SlotInv` builds on them: `Drawn` (before the wrap
every number in use is below the counter, so a fresh one is in nobody's hands) and
`NoOrphan` (without a failure every process has its stack). Every step is one of five
kinds as far as slots are concerned (`SlotStep`), and only these are treated there.

`LifeRefinement` first shows which phase a machine has by who holds it (`Phases`),
then, action by action, that the step of the phases is one of `Machines`. The end of
the process maps to `Close`, which may leave every machine alone at once; the
later drops then are stutters or a `Dies`.

### MachineLog

`NoGap` alone is not inductive: a prefix of what a reader is owed may be cut anywhere
unless the whole rest is still in its channels. `Stream` says so as long as the reader is
subscribed, and that a reader that did not lag leaves the list of subscribers only
when the handler is done; `Completeness` is then its last case. `CopySafety`
needs that the buffer is the end of the history (`Recent`), that entries are
numbered so that none occurs twice (`Numbered`) and that the current state was
logged (`StateLogged`).

### Guest

`Codes` has the heart of it: the exit channel holds the shutdown request at most
once and the container's code only from a waiter that is done, so the second receive
of main gets the code. `Reported` (after a container's exit nobody is left who
writes, after a failed pull only the puller) and `Lines` (what the loggers took is on
the wire, in order) give the three theorems; `Started` ties the loggers' ends, but for
broken pipes, to the container's, and lets a container begin only after the puller.

### PipeToLog

`Full` (the filled part of the buffer was read, or is the mark) makes `OnlyOutput`
inductive, for every cut of the reads. `Ordered` says what is in the buffer when no
read went on behind a line end: the current line whole (`Whole`), or its first bytes
and the mark (`Cut`), and that as many lines were sent as ended. `EndOfLine` and
`FirstNewline` relate positions, line numbers and the code's search for a line end.

### ImagePull

`Taken` (the queue is the end of the manifest, and what workers have in hand left it)
gives `LayerTakenOnce`. `Accounted` says where a layer that left the queue is:
extracted, in hand, or the reason of a failure; with `Joined` (main goes on only
behind workers that all ended well) nothing is missing when it mounts.
`Numbered` says that the counter is one ahead of the messages while a worker has the
mutex, and equal to them otherwise.

### Auth and RunRequest

`Auth`: tokens have the times `sign_token` gave them (`Signed`) and the last answer is
the one of its own time (`Answered`); the rest is arithmetic on clocks.
`RunRequest`: each stage hands on what the one before it had (`Handed`). `SizeSafety` is
about remainders. `SpecSafety` shows that the keys in their order are each of them
once (`InOrder`: ranks of different keys differ, and there are as many ranks as
keys), and that the last entry of a list hides the earlier ones (`LookupFirst`,
`LookupSecond`).

### Assumptions

All are about constants and are evaluated by TLC on the runs: widths are
even or a multiple of 4 and large enough for one another (`U16Assumption`,
`NetAssumption`, `WidthAssumption`), capacities are positive (`CapacityAssumption`,
`SizeAssumption`, `PullAssumption`), bounds are numbers (`BoundsAssumption`,
`LimitsAssumption`, `LinesAssumption`), flags are Booleans (`FlagsAssumption`),
times are ordered (`TimeAssumption`), a clock starts later than skew and drift.
`TasksAssumption`, `ResAssumption` and each `NoneAssumption` keep "no task", "no result"
and "nothing" apart from tasks, results and values, as Rust's `Option` does.

### Only model-checked

- Liveness: `RpcCompletes`, `ExitedRemoved`, `HandlerNeverStalls`, `StreamsEnd`, `OrphanStops`,
  `EndedStops`, `StopReachesContainer`, `PullEnds`, `FailureReported`. The prover
  has no rules for fairness and `ENABLED`.
- The three violations, which are counterexamples.

## Not modelled

- Generated gRPC code and the bitcode encoding of packets (a library); the scripts.
- nodecli's other commands, each of which sends one request with its arguments as
  they are, and its printing of logs, which reads fields that the messages of
  `proto` do not have.
- Of the node manager: reading `config.json`, the configuration values sent to
  firecracker (boot arguments, drives, the MMDS document but for what `RunRequest`
  follows), `request_stop`, which nothing calls, message texts and timestamps.
- Of the guest: the commands of `init` one by one (each goes on or panics), the fixed
  capabilities, namespaces and mounts of the runtime specification, the files in
  `/etc`.

## Plan

The models are complete for what is listed above, and so are the proofs of their
safety properties. Left for later:

1. Facts about `Machines` itself (a machine that left the list never comes back, at
   most one request is at work), carried over to `NodeManager` by `LifeRefinement`.
2. The safety part of the liveness arguments, such as what a waiting task waits for:
   whoever is at the front of the lock queue waits for a task that can go on.
3. Shorter proofs: the sequence lemmas of `MachineLog_proofs` and the largest and
   smallest elements in `PipeToLog_proofs` and `RunRequest_proofs` are worth a module of
   their own.
