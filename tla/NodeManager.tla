----------------------------- MODULE NodeManager -----------------------------
(***************************************************************************)
(* nodemanager/src/manager.rs with the machine lifecycle of                *)
(* machine/machine.rs and machine/firecracker.rs, on top of Networking.    *)
(*                                                                         *)
(* The tasks of the runtime are the gRPC handlers (Rpc), one cleanup task  *)
(* per machine (named like the machine) and the task behind the Ctrl-C     *)
(* handler.  They share the machine map behind an RwLock and the           *)
(* NetworkManager behind a Mutex.  A step of a task is what it does        *)
(* between two points where it can be suspended, or a smaller part of      *)
(* that while it holds the write lock.                                     *)
(*                                                                         *)
(* A handler is cancelled when its client goes away: tonic drops the       *)
(* future at the await it is suspended in, and with it the machines it     *)
(* holds.  Dropping a Machine drops its NetworkStack but neither kills the *)
(* firecracker process nor removes its jail.  The Ctrl-C task drains, then *)
(* the process ends and the runtime drops everything that is left.         *)
(***************************************************************************)
EXTENDS Integers, Sequences, FiniteSets

CONSTANTS Machine,     \* machines, in the role of their uuids
          Rpc,         \* gRPC handler tasks
          NoTask, NoMachine,
          Ops,         \* bound: the kinds of requests that arrive
          SubCap,      \* capacity of machine_state_subscription; 0: none is given
          MaxFaults,   \* bound: failures, timeouts and cancellations
          Port, U16, Builds, DeleteMayFail, MaxDraws, MaxCopies, MaxLeaks

Ctrl == "ctrl_c"
Task == Rpc \cup Machine \cup {Ctrl}

ASSUME TasksAssumption ==
    /\ Rpc \cap Machine = {} /\ Ctrl \notin Rpc \cup Machine
    /\ NoTask \notin Task /\ NoMachine \notin Machine
ASSUME NetAssumption ==
    /\ U16 \in Nat /\ U16 > 0 /\ U16 % 4 = 0
    /\ Builds \subseteq BOOLEAN /\ DeleteMayFail \in BOOLEAN
    /\ MaxDraws \in Nat /\ MaxCopies \in Nat /\ MaxLeaks \in Nat
ASSUME LimitsAssumption == SubCap \in Nat /\ MaxFaults \in Nat
ASSUME OpsAssumption ==
    /\ Ops \subseteq {"provision", "deprovision", "drain", "publish", "read", Ctrl}
    /\ "publish" \in Ops => Port # {}

VARIABLES recovered_slots, next_id, global_rules, overflow_checks, live, slot, book, taps,
          iptables, drawn, leaked,   \* of Networking
          machines,   \* keys of InnerNodeManager.machines
          mwriter,    \* task holding its RwLock for writing, or NoTask
          mreaders,   \* tasks holding it for reading
          waiting,    \* tasks queued for it (tokio's RwLock is first come, first served)
          netlock,    \* task holding InnerNodeManager.network, or NoTask
          vm,         \* firecracker process: "none", "spawned", "running" or "dead"
          jail,       \* machines whose jailer directory exists
          comm,       \* packet_handler of a machine: "none", "open" or "stopped"
          listening,  \* someone receives machine_state_subscription
          events,     \* messages in that channel
          task,       \* what each task is doing
          up,         \* the node manager process runs
          faults      \* failures, timeouts and cancellations so far

net  == <<recovered_slots, next_id, global_rules, overflow_checks, live, slot, book, taps,
          iptables, drawn, leaked>>
locks == <<mwriter, mreaders, waiting, netlock>>
host == <<vm, jail, comm>>
subs == <<listening, events>>
vars == <<net, machines, locks, host, subs, task, up, faults>>

\* The NetworkManager, its stacks and the host, with what is proved of them.
Net == INSTANCE Networking_proofs WITH Owner <- Machine

-----------------------------------------------------------------------------
(* Tasks and locks *)

Idle == [pc |-> "idle", op |-> "none", m |-> NoMachine, rest |-> {}, graceful |-> FALSE]

\* What the Ctrl-C task does once is over for good; the others start afresh.
Ended(t) == IF t = Ctrl THEN [Idle EXCEPT !.pc = "finished"] ELSE Idle

Goto(t, pc) == task' = [task EXCEPT ![t].pc = pc]
At(t, op, pc) == up /\ task[t].pc = pc /\ task[t].op = op
Finish(t) == task' = [task EXCEPT ![t] = Ended(t)]

\* The future of the lock is polled for the first time.
Enqueue(t) ==
    /\ waiting' = Append(waiting, t)
    /\ UNCHANGED <<mwriter, mreaders, netlock>>

IsNext(t) == waiting # <<>> /\ Head(waiting) = t

AcquireWrite(t) ==
    /\ IsNext(t) /\ mwriter = NoTask /\ mreaders = {}
    /\ mwriter' = t
    /\ waiting' = Tail(waiting)
    /\ UNCHANGED <<mreaders, netlock>>

AcquireRead(t) ==
    /\ IsNext(t) /\ mwriter = NoTask
    /\ mreaders' = mreaders \cup {t}
    /\ waiting' = Tail(waiting)
    /\ UNCHANGED <<mwriter, netlock>>

\* The queue without t, which is in it once or not at all.
Without(t) ==
    IF \E i \in DOMAIN waiting : waiting[i] = t
    THEN LET i == CHOOSE j \in DOMAIN waiting : waiting[j] = t
         IN  SubSeq(waiting, 1, i - 1) \o SubSeq(waiting, i + 1, Len(waiting))
    ELSE waiting

\* The guards of t go out of scope, and its place in the queue.
Release(t) ==
    /\ mwriter' = IF mwriter = t THEN NoTask ELSE mwriter
    /\ netlock' = IF netlock = t THEN NoTask ELSE netlock
    /\ mreaders' = mreaders \ {t}
    /\ waiting' = Without(t)

\* Something goes wrong: within the bound, or because it cannot go well.
Fault(forced) == (forced \/ faults < MaxFaults) /\ faults' = faults + 1

\* Machines a task builds, has taken out of the map, or is dropping.
Held(t) ==
    IF task[t].pc \in {"nat", "spawn", "socket", "config", "accept",
                      "net", "comm", "join", "kill", "drop"}
    THEN ({task[t].m} \ {NoMachine}) \cup task[t].rest ELSE {}

Alive(m) == vm[m] \in {"spawned", "running"}

\* Clients know the ids that provision has returned.
Known(m) == comm[m] # "none"

\* A uuid nobody has used.
Fresh(m) ==
    /\ vm[m] = "none" /\ m \notin jail \cup live
    /\ \A t \in Task : task[t].m # m

-----------------------------------------------------------------------------
(* Requests *)

Request(t, op, m, graceful) ==
    /\ up /\ task[t] = Idle /\ op \in Ops
    /\ task' = [task EXCEPT ![t] =
                  [pc |-> "lock", op |-> op, m |-> m, rest |-> {}, graceful |-> graceful]]
    /\ Enqueue(t)
    /\ UNCHANGED <<net, machines, host, subs, up, faults>>

\* Bound: as many provisions are asked for as there are numbers to draw.
request_provision(t, m) ==
    /\ Fresh(m)
    /\ drawn + Cardinality({u \in Rpc : /\ task[u].op = "provision"
                                       /\ task[u].pc \in {"lock", "stack"}}) < MaxDraws
    /\ Request(t, "provision", m, FALSE)
\* graceful: the request carries timeout_millis > 0.
request_deprovision(t, m, graceful) == Known(m) /\ Request(t, "deprovision", m, graceful)
request_drain(t)      == Request(t, "drain", NoMachine, TRUE)
request_publish(t, m) == Known(m) /\ Request(t, "publish", m, FALSE)
\* list_instances, get_logs and the first part of stream_logs.
request_read(t)       == Request(t, "read", NoMachine, FALSE)

\* main(): the signal makes the task spawned by NodeManager::new drain.
ctrl_c == Ctrl \in Ops /\ request_drain(Ctrl)

-----------------------------------------------------------------------------
(* _provision and Machine::new *)

provision_lock(t) ==
    /\ At(t, "provision", "lock")
    /\ AcquireWrite(t)
    /\ Goto(t, "stack")
    /\ UNCHANGED <<net, machines, host, subs, up, faults>>

\* The guard on the NetworkManager lives for this statement only.
provision_stack(t) ==
    /\ At(t, "provision", "stack")
    /\ netlock = NoTask
    /\ Net!provision_stack(task[t].m)
    /\ Goto(t, "nat")
    /\ UNCHANGED <<machines, locks, host, subs, up, faults>>

\* `?` on provision_stack(), or a panic in it.
provision_stack_fails(t) ==
    /\ At(t, "provision", "stack")
    /\ netlock = NoTask
    /\ \/ Net!provision_stack_fails /\ Fault(Net!Tap(Net!next_slot) \in taps)
       \/ Net!next_slot_panics /\ Fault(TRUE)
    /\ Release(t)
    /\ Finish(t)
    /\ UNCHANGED <<machines, host, subs, up>>

setup_public_nat(t) ==
    /\ At(t, "provision", "nat")
    /\ \/ Net!setup_public_nat(task[t].m, 2) /\ Goto(t, "spawn") /\ UNCHANGED faults
       \/ \E n \in 0 .. 1 : Net!setup_public_nat(task[t].m, n) /\ Goto(t, "drop") /\ Fault(FALSE)
    /\ UNCHANGED <<machines, locks, host, subs, up>>

\* JailedCracker::spawn up to its first sleep.  It may fail before the jail
\* exists, or after.
spawn(t) ==
    LET m == task[t].m IN
    /\ At(t, "provision", "spawn")
    /\ \/ /\ jail' = jail \cup {m}
          /\ vm' = [vm EXCEPT ![m] = "spawned"]
          /\ Goto(t, "socket")
          /\ UNCHANGED faults
       \/ /\ jail' \in {jail, jail \cup {m}}
          /\ UNCHANGED vm
          /\ Goto(t, "drop")
          /\ Fault(FALSE)
    /\ UNCHANGED <<net, machines, locks, comm, subs, up>>

\* The API socket is there within 20 * 50us, or the client fails to connect.
connect_api(t) ==
    /\ At(t, "provision", "socket")
    /\ \/ Goto(t, "config") /\ UNCHANGED faults
       \/ Goto(t, "drop") /\ Fault(FALSE)
    /\ UNCHANGED <<net, machines, locks, host, subs, up>>

\* A request to firecracker's API can succeed while the process lives.
request_with_json(m) == vm[m] # "dead"

\* Machine size, kernel, drives, network interface and vsock are set.
configured(m) == request_with_json(m) /\ vm[m] = "spawned"

\* The configuration, the vsock listener and InstanceStart.  Any of them may
\* fail; InstanceStart may fail after it took effect.
start_vm(t) ==
    LET m == task[t].m IN
    /\ At(t, "provision", "config")
    /\ \/ /\ configured(m)
          /\ vm' = [vm EXCEPT ![m] = "running"]
          /\ Goto(t, "accept")
          /\ UNCHANGED faults
       \/ /\ \/ UNCHANGED vm
             \/ configured(m) /\ vm' = [vm EXCEPT ![m] = "running"]
          /\ Goto(t, "drop")
          /\ Fault(~request_with_json(m))
    /\ UNCHANGED <<net, machines, locks, jail, comm, subs, up>>

\* Faulty variant: nobody waits for the machine to stop.
AcceptWithoutCleanup(t) ==
    LET m == task[t].m IN
    /\ At(t, "provision", "accept")
    /\ comm' = [comm EXCEPT ![m] = "open"]
    /\ machines' = machines \cup {m}
    /\ Release(t)
    /\ Finish(t)
    /\ UNCHANGED <<net, vm, jail, subs, up, faults>>

\* The guest connected in time (its process may have died since): the packet
\* handler starts, the machine enters the map, its cleanup task is spawned and
\* the write lock is released.
accept(t) ==
    LET m == task[t].m IN
    /\ At(t, "provision", "accept")
    /\ comm' = [comm EXCEPT ![m] = "open"]
    /\ machines' = machines \cup {m}
    /\ task' = [task EXCEPT ![t] = Idle,
                            ![m] = [Idle EXCEPT !.pc = "wait", !.op = "cleanup", !.m = m]]
    /\ Release(t)
    /\ UNCHANGED <<net, vm, jail, subs, up, faults>>

\* 500ms pass, or accept fails: Machine::new returns without killing the VM.
accept_timeout(t) ==
    /\ At(t, "provision", "accept")
    /\ Fault(vm[task[t].m] = "dead")
    /\ Goto(t, "drop")
    /\ UNCHANGED <<net, machines, locks, host, subs, up>>

\* Faulty variant: an abandoned stack's slot goes back to the pool.
DropReclaims(t) ==
    LET m == task[t].m IN
    /\ up /\ task[t].pc = "drop"
    /\ Net!reclaim(m)
    /\ Release(t) /\ Finish(t)
    /\ UNCHANGED <<machines, host, subs, up, faults>>

\* Faulty variant: a stack is forgotten with its device and rules in place.
DropWithoutUndo(t) ==
    LET m == task[t].m IN
    /\ up /\ task[t].pc = "drop"
    /\ live' = live \ {m}
    /\ Release(t) /\ Finish(t)
    /\ UNCHANGED <<recovered_slots, next_id, global_rules, slot, book, taps, iptables>>
    /\ UNCHANGED <<overflow_checks, drawn, leaked>>
    /\ UNCHANGED <<machines, host, subs, up, faults>>

\* The machines a failed or cancelled handler holds are dropped one by one,
\* then its guards.
drop_held(t) ==
    LET m == task[t].m IN
    /\ up /\ task[t].pc = "drop"
    /\ Net!drop(m)
    /\ \/ /\ task[t].rest = {}
          /\ Release(t) /\ Finish(t)
       \/ \E n \in task[t].rest :
             /\ task' = [task EXCEPT ![t].m = n, ![t].rest = @ \ {n}]
             /\ UNCHANGED locks
    /\ UNCHANGED <<machines, host, subs, up, faults>>

-----------------------------------------------------------------------------
(* _deprovision, _drain and Machine::shutdown *)

IsDeprovision(t) == task[t].op \in {"deprovision", "cleanup"}

\* Faulty variant: the machine stays in the map while it is shut down.
DeprovisionKeepsEntry(t) ==
    /\ up /\ IsDeprovision(t) /\ task[t].pc = "lock"
    /\ task[t].m \in machines
    /\ AcquireWrite(t)
    /\ Goto(t, "net")
    /\ UNCHANGED <<net, machines, host, subs, up, faults>>

\* The machine leaves the map as soon as the lock is held; a missing machine
\* is no error.
deprovision_lock(t) ==
    LET m == task[t].m IN
    /\ up /\ IsDeprovision(t) /\ task[t].pc = "lock"
    /\ \/ /\ m \in machines
          /\ AcquireWrite(t)
          /\ machines' = machines \ {m}
          /\ Goto(t, "net")
       \/ /\ m \notin machines
          /\ IsNext(t) /\ mwriter = NoTask /\ mreaders = {}
          /\ Release(t)
          /\ Finish(t)
          /\ UNCHANGED machines
    /\ UNCHANGED <<net, host, subs, up, faults>>

deprovision_network(t) ==
    /\ up /\ IsDeprovision(t) /\ task[t].pc = "net"
    /\ netlock = NoTask
    /\ netlock' = t
    /\ Goto(t, IF task[t].graceful THEN "comm" ELSE "kill")
    /\ UNCHANGED <<net, machines, mwriter, mreaders, waiting, host, subs, up, faults>>

\* Faulty variant: the drain goes on without the write lock.
DrainWithoutLock(t) ==
    /\ At(t, "drain", "lock")
    /\ Release(t)
    /\ Goto(t, "net")
    /\ UNCHANGED <<net, machines, host, subs, up, faults>>

drain_lock(t) ==
    /\ At(t, "drain", "lock")
    /\ AcquireWrite(t)
    /\ Goto(t, "net")
    /\ UNCHANGED <<net, machines, host, subs, up, faults>>

\* Faulty variant: the map is emptied and one machine shut down.
DrainTakesOne(t) ==
    /\ At(t, "drain", "net")
    /\ netlock = NoTask
    /\ \/ \E m \in machines :
             /\ netlock' = t
             /\ machines' = {}
             /\ task' = [task EXCEPT ![t].pc = "comm", ![t].m = m]
             /\ UNCHANGED <<mwriter, mreaders, waiting>>
       \/ /\ machines = {}
          /\ Release(t)
          /\ Finish(t)
          /\ UNCHANGED machines
    /\ UNCHANGED <<net, host, subs, up, faults>>

\* drain() on the map empties it whatever happens to the iterator later.
drain_network(t) ==
    /\ At(t, "drain", "net")
    /\ netlock = NoTask
    /\ \/ \E m \in machines :
             /\ netlock' = t
             /\ machines' = {}
             /\ task' = [task EXCEPT ![t].pc = "comm", ![t].m = m, ![t].rest = machines \ {m}]
             /\ UNCHANGED <<mwriter, mreaders, waiting>>
       \/ /\ machines = {}
          /\ Release(t)
          /\ Finish(t)
          /\ UNCHANGED machines
    /\ UNCHANGED <<net, host, subs, up, faults>>

\* _shutdown_gracefully: the Shutdown packet is written, or the communicator's
\* lock is not free in time or the write fails.
send_shutdown(t) ==
    /\ up /\ task[t].pc = "comm"
    /\ Goto(t, "join") \/ Goto(t, "kill")
    /\ UNCHANGED <<net, machines, locks, host, subs, up, faults>>

\* The packet handler ends, or the timeout passes first.
join_handler(t) ==
    /\ up /\ task[t].pc = "join"
    /\ Goto(t, "kill")
    /\ UNCHANGED <<net, machines, locks, host, subs, up, faults>>

\* SIGKILL is final; kill() fails only on a process that has ended.
kill(m) == vm' = [vm EXCEPT ![m] = "dead"]

\* Faulty variant: the slot is not returned.
KillWithoutReclaim(t) ==
    LET m == task[t].m IN
    /\ up /\ task[t].pc = "kill"
    /\ kill(m)
    /\ Net!drop(m)
    /\ \/ task[t].rest = {} /\ Release(t) /\ Finish(t)
       \/ \E n \in task[t].rest :
             /\ task' = [task EXCEPT ![t].pc = "comm", ![t].m = n, ![t].rest = @ \ {n}]
             /\ UNCHANGED locks
    /\ UNCHANGED <<machines, jail, comm, subs, up, faults>>

\* JailedCracker::cleanup (removing the jail may fail), then
\* NetworkManager::reclaim, then the next machine of a drain or the end.
cleanup(t) ==
    LET m == task[t].m IN
    /\ up /\ task[t].pc = "kill"
    /\ kill(m)
    /\ \/ jail' = jail \ {m} /\ UNCHANGED faults
       \/ UNCHANGED jail /\ Fault(FALSE)
    /\ Net!reclaim(m)
    /\ \/ task[t].rest = {} /\ Release(t) /\ Finish(t)
       \/ \E n \in task[t].rest :
             /\ task' = [task EXCEPT ![t].pc = "comm", ![t].m = n, ![t].rest = @ \ {n}]
             /\ UNCHANGED locks
    /\ UNCHANGED <<machines, comm, subs, up>>

-----------------------------------------------------------------------------
(* Handlers that read the map *)

read_lock(t) ==
    LET m == task[t].m IN
    /\ up /\ task[t].op \in {"publish", "read"} /\ task[t].pc = "lock"
    /\ \/ /\ task[t].op = "read" \/ m \in machines
          /\ AcquireRead(t)
          /\ Goto(t, "reading")
       \/ /\ task[t].op = "publish" /\ m \notin machines
          /\ IsNext(t) /\ mwriter = NoTask
          /\ Release(t)
          /\ Finish(t)
    /\ UNCHANGED <<net, machines, host, subs, up, faults>>

\* publish_service_port: setup_forwarding() under the machine's own Mutex, which
\* is held across no await.  It fails after n < 3 rules; UNCHANGED net is n = 0,
\* and all that is left when the book is full.
publish_service_port(t, hp, gp) ==
    /\ At(t, "publish", "reading")
    /\ \/ \E n \in 0 .. 3 : Net!setup_forwarding(task[t].m, hp, gp, n)
       \/ UNCHANGED net
    /\ Release(t)
    /\ Finish(t)
    /\ UNCHANGED <<machines, host, subs, up, faults>>

\* Faulty variant: the answer keeps the read guard.
ReadKeepsGuard(t) ==
    /\ At(t, "read", "reading")
    /\ Finish(t)
    /\ UNCHANGED <<net, machines, locks, host, subs, up, faults>>

read_done(t) ==
    /\ At(t, "read", "reading")
    /\ Release(t)
    /\ Finish(t)
    /\ UNCHANGED <<net, machines, host, subs, up, faults>>

-----------------------------------------------------------------------------
(* Cleanup tasks *)

\* Faulty variant: the cleanup task ends with the machine still in the map.
StopIgnored(m) ==
    /\ At(m, "cleanup", "wait")
    /\ comm[m] = "stopped"
    /\ Finish(m)
    /\ UNCHANGED <<net, machines, locks, host, subs, up, faults>>

\* machine_stop_rx resolves.
machine_stopped(m) ==
    /\ At(m, "cleanup", "wait")
    /\ comm[m] = "stopped"
    /\ Goto(m, "notify")
    /\ UNCHANGED <<net, machines, locks, host, subs, up, faults>>

\* Faulty variant: the exit is announced twice, once without waiting.
NotifyTwice(m) ==
    /\ At(m, "cleanup", "notify")
    /\ \/ listening /\ Len(events) < SubCap /\ events' = events \o <<m, m>>
       \/ ~listening /\ UNCHANGED events
    /\ Goto(m, "lock")
    /\ Enqueue(m)
    /\ UNCHANGED <<net, machines, host, listening, up, faults>>

\* handle_machine_exit waits for room in the subscriber's channel, then
\* deprovisions without a timeout.
handle_machine_exit(m) ==
    /\ At(m, "cleanup", "notify")
    /\ \/ listening /\ Len(events) < SubCap /\ events' = Append(events, m)
       \/ ~listening /\ UNCHANGED events
    /\ Goto(m, "lock")
    /\ Enqueue(m)
    /\ UNCHANGED <<net, machines, host, listening, up, faults>>

\* The receiving end, outside this program.
subscriber_receives ==
    /\ up /\ events # <<>>
    /\ events' = Tail(events)
    /\ UNCHANGED <<net, machines, locks, host, listening, task, up, faults>>

subscriber_leaves ==
    /\ up /\ listening
    /\ listening' = FALSE
    /\ events' = <<>>
    /\ UNCHANGED <<net, machines, locks, host, task, up, faults>>

-----------------------------------------------------------------------------
(* The virtual machine *)

\* The firecracker process ends: the guest rebooted, or it crashed.
vm_exits(m) ==
    /\ Alive(m)
    /\ vm' = [vm EXCEPT ![m] = "dead"]
    /\ UNCHANGED <<net, machines, locks, jail, comm, subs, task, up, faults>>

\* packet_handler leaves its loop: an Exited packet or a malformed one while
\* the process still runs, the end of the stream once it is dead.
packet_handler_stops(m) ==
    /\ up /\ comm[m] = "open"
    /\ comm' = [comm EXCEPT ![m] = "stopped"]
    /\ UNCHANGED <<net, machines, locks, vm, jail, subs, task, up, faults>>

-----------------------------------------------------------------------------
(* Cancellation and the end of the process *)

\* The client goes away while its handler is suspended.
cancel(t) ==
    /\ up
    /\ task[t].pc \in {"lock", "stack", "socket", "config", "accept", "net", "comm", "join",
                       "reading"}
    /\ Fault(FALSE)
    /\ \/ /\ Held(t) # {}
          /\ Goto(t, "drop")
          /\ UNCHANGED locks
       \/ /\ Held(t) = {}
          /\ Release(t)
          /\ Finish(t)
    /\ UNCHANGED <<net, machines, host, subs, up>>

\* The drain of the Ctrl-C task is over: main() returns and the runtime drops
\* every task at the await it has reached, and the map.
process_exits ==
    /\ up /\ task[Ctrl].pc = "finished"
    /\ \A t \in Task : task[t].pc \notin {"nat", "spawn", "drop", "kill"}
    /\ up' = FALSE
    /\ machines' = {}
    /\ task' = [t \in Task |-> Idle]
    /\ mwriter' = NoTask /\ mreaders' = {} /\ waiting' = <<>> /\ netlock' = NoTask
    /\ events' = <<>>
    /\ UNCHANGED <<net, host, listening, faults>>

\* The stacks that existed then are dropped as well.
exit_drop(m) ==
    /\ ~up
    /\ Net!drop(m)
    /\ UNCHANGED <<machines, locks, host, subs, task, up, faults>>

\* And the NetworkManager, with the last reference to the InnerNodeManager.
exit_drop_manager ==
    /\ ~up
    /\ Net!drop_manager
    /\ UNCHANGED <<machines, locks, host, subs, task, up, faults>>

-----------------------------------------------------------------------------
Init ==
    /\ Net!Init
    /\ machines = {}
    /\ mwriter = NoTask /\ mreaders = {} /\ waiting = <<>> /\ netlock = NoTask
    /\ vm = [m \in Machine |-> "none"]
    /\ jail = {}
    /\ comm = [m \in Machine |-> "none"]
    /\ listening = (SubCap > 0)
    /\ events = <<>>
    /\ task = [t \in Task |-> Idle]
    /\ up = TRUE
    /\ faults = 0

\* The steps a task takes by itself once it has started.
Provision(t) ==
    \/ provision_lock(t) \/ provision_stack(t) \/ provision_stack_fails(t)
    \/ setup_public_nat(t) \/ spawn(t) \/ connect_api(t) \/ start_vm(t)
    \/ accept(t) \/ accept_timeout(t)
Shutdown(t) ==
    \/ deprovision_lock(t) \/ deprovision_network(t)
    \/ drain_lock(t) \/ drain_network(t)
    \/ send_shutdown(t) \/ join_handler(t) \/ cleanup(t)
Reader(t) ==
    \/ read_lock(t) \/ read_done(t)
    \/ \E hp, gp \in Port : publish_service_port(t, hp, gp)
TaskStep(t) == Provision(t) \/ Shutdown(t) \/ Reader(t) \/ drop_held(t)
CleanupStep(m) == machine_stopped(m) \/ handle_machine_exit(m)
ExitStep == process_exits \/ exit_drop_manager \/ \E m \in Machine : exit_drop(m)

\* The process has ended and left nothing to undo.
Terminated == ~up /\ ~Net!Exists /\ UNCHANGED vars

Next ==
    \/ \E t \in Rpc, m \in Machine : request_provision(t, m)
    \/ \E t \in Rpc, m \in Machine, g \in BOOLEAN : request_deprovision(t, m, g)
    \/ \E t \in Rpc : request_drain(t)
    \/ \E t \in Rpc, m \in Machine : request_publish(t, m)
    \/ \E t \in Rpc : request_read(t)
    \/ ctrl_c
    \/ \E t \in Task : TaskStep(t)
    \/ \E m \in Machine : CleanupStep(m)
    \/ \E t \in Rpc : cancel(t)
    \/ subscriber_receives
    \/ subscriber_leaves
    \/ \E m \in Machine : vm_exits(m)
    \/ \E m \in Machine : packet_handler_stops(m)
    \/ ExitStep
    \/ Terminated

\* The runtime polls every task that can go on, timeouts expire, commands end, a
\* closed stream ends the packet handler, and whoever subscribed keeps receiving.
\* Firecracker's API is not among this: nothing limits the wait for it.
Fairness ==
    /\ \A t \in Task : WF_vars(task[t].pc \notin {"socket", "config"} /\ TaskStep(t))
    /\ \A m \in Machine : WF_vars(CleanupStep(m))
    /\ \A m \in Machine : WF_vars(vm[m] = "dead" /\ packet_handler_stops(m))
    /\ WF_vars(subscriber_receives)
    /\ WF_vars(ExitStep)

Spec == Init /\ [][Next]_vars
FairSpec == Spec /\ Fairness

\* A firecracker process that lets itself be connected to, and answers.
FirecrackerAnswers == \A t \in Rpc : WF_vars(connect_api(t) \/ start_vm(t))

-----------------------------------------------------------------------------
(* Properties *)

\* Type invariant: the map, the locks and the tasks keep to the values the code
\* gives them, and a lock is held by a task that exists.
TypeOK ==
    /\ Net!TypeOK
    /\ machines \subseteq Machine
    /\ mwriter \in Task \cup {NoTask} /\ netlock \in Task \cup {NoTask}
    /\ mreaders \subseteq Rpc /\ waiting \in Seq(Task)
    /\ vm \in [Machine -> {"none", "spawned", "running", "dead"}]
    /\ jail \subseteq Machine
    /\ comm \in [Machine -> {"none", "open", "stopped"}]
    /\ listening \in BOOLEAN /\ events \in Seq(Machine) /\ Len(events) <= SubCap
    /\ task \in [Task ->
          [pc : {"idle", "finished", "lock", "stack", "nat", "spawn", "socket", "config", "accept",
                 "drop", "net", "comm", "join", "kill", "reading", "wait", "notify"},
           op : {"none", "provision", "deprovision", "drain", "publish", "read", "cleanup"},
           m : Machine \cup {NoMachine}, rest : SUBSET Machine, graceful : BOOLEAN]]
    /\ up \in BOOLEAN /\ faults \in Nat

\* The network slot a firecracker process was configured with is neither free
\* nor in another machine's hands while the process lives: shutdown() kills
\* before reclaim(), and every path that abandons a process (a failed or
\* cancelled provision, a cancelled deprovision or drain, the end of the
\* process) gives its slot up.  Until next_id has wrapped.
LiveVmExclusive ==
    drawn <= U16 =>
        \A m \in Machine : Alive(m) =>
            /\ \A i \in DOMAIN recovered_slots : recovered_slots[i] # slot[m]
            /\ \A n \in live \cup {k \in Machine : Alive(k)} : slot[n] = slot[m] => n = m

\* Every network stack has exactly one owner: the machine map, or one task that
\* builds, shuts down or drops the machine.  remove() and drain() hand machines
\* over to one task even when the RPC, the cleanup task and a drain race.
OneHolder ==
    up => /\ \A m \in machines : \A t \in Task : m \notin Held(t)
          /\ \A t, u \in Task : t # u => Held(t) \cap Held(u) = {}
          /\ live = machines \cup UNION {Held(t) : t \in Task}

\* The guards nest: whoever holds machines or the network mutex holds the
\* write lock, and writers exclude readers.
LockDiscipline ==
    /\ mwriter # NoTask => mreaders = {}
    /\ netlock # NoTask => mwriter = netlock
    /\ \A t \in Task : Held(t) # {} => mwriter = t

\* A machine in the map has its jail, its packet handler and a cleanup task that
\* has yet to deprovision it, so its exit cannot go unnoticed.
MapServed ==
    \A m \in machines :
        /\ m \in jail /\ vm[m] \in {"running", "dead"} /\ comm[m] # "none"
        /\ task[m].op = "cleanup" /\ task[m].pc \in {"wait", "notify", "lock"}
        /\ task[m].pc = "wait" \/ comm[m] = "stopped"

\* As long as nothing fails, no slot is lost: each number drawn is in the pool
\* or in an existing stack.
SlotsConserved ==
    (up /\ faults = 0) => Len(recovered_slots) + Cardinality(live) = drawn

\* Unless something failed before, no firecracker process outlives a drain.
DrainEmpties ==
    [][\A t \in Task :
          (task[t].op = "drain" /\ task'[t].op # "drain" /\ up' /\ faults' = 0)
              => \A m \in Machine : ~(vm'[m] \in {"spawned", "running"})]_vars

\* The tap devices on the host are those of the machines in the map or in a
\* task's hands, and a deletion that failed is all that can add to them; when the
\* process has ended, under whatever was going on, neither devices nor rules of
\* it are left.
HostTidy ==
    LET held == machines \cup UNION {Held(t) : t \in Task} IN
    /\ up => {Net!Tap(slot[m]) : m \in held} \subseteq taps
    /\ (up /\ ~DeleteMayFail) => taps = {Net!Tap(slot[m]) : m \in held}
    /\ ~Net!Exists => DOMAIN iptables \subseteq leaked
    /\ (~Net!Exists /\ ~DeleteMayFail) => taps = {}

\* The phase of a machine's life: who holds it, and else its process, decide.
PhaseOf(m) ==
    CASE m \in machines -> "listed"
      [] \E t \in Task : m \in Held(t) /\ task[t].op = "provision" -> "starting"
      [] \E t \in Task : m \in Held(t) /\ task[t].op # "provision" -> "stopping"
      [] OTHER -> CASE vm[m] = "none" -> "absent" [] Alive(m) -> "abandoned" [] OTHER -> "gone"

Phase == [m \in Machine |-> PhaseOf(m)]

Life == INSTANCE Machines WITH phase <- Phase, open <- up

\* The locks, the map and the tasks implement the plain life of Machines: a
\* machine leaves the list in one request's hands and never comes back, a drain
\* takes all or none, nothing starts while something is stopped, and only the
\* failures named there leave a process running.
LifeSpec == Life!Spec

\* As long as firecracker answers, every request is answered or cancelled: nobody
\* waits for a lock for ever.
RpcCompletes ==
    FirecrackerAnswers => \A t \in Rpc : (task[t].pc # "idle") ~> (task[t].pc = "idle")

\* Likewise, a machine whose process has ended is removed from the map, whichever
\* of its cleanup task, a deprovision or a drain gets to it first.
ExitedRemoved ==
    FirecrackerAnswers =>
        \A m \in Machine : (m \in machines /\ vm[m] = "dead") ~> (m \notin machines)

\* What the documentation says of drain: when it answers (and is not
\* cancelled), no VM that had been provisioned runs any more.
DrainShutsDownAll ==
    [][\A t \in Rpc :
          (/\ task[t].op = "drain" /\ task'[t].op # "drain"
           /\ task[t].pc = "kill" \/ (task[t].pc = "net" /\ UNCHANGED faults))
              => \A m \in Machine : Known(m) => vm'[m] # "running"]_vars
=============================================================================
