-------------------------------- MODULE Guest --------------------------------
(***************************************************************************)
(* The init program of a virtual machine: instance/src/main.rs, the        *)
(* connection of instance/src/host.rs and the packets of vmproto, with the *)
(* host's end of the connection as the node manager uses it.               *)
(*                                                                         *)
(* Threads share the connection under one mutex: main, the reader of the   *)
(* host's packets, the workers of the pull, one logger for each pipe of    *)
(* the container and the thread that waits for it.  Reader and waiter      *)
(* report to main through one channel.  A panic in any thread runs the     *)
(* hook, which reboots the machine: firecracker ends with it.  Until the   *)
(* reboot the other threads go on.                                         *)
(*                                                                         *)
(* packet_handler reads the packets in the order they were written, up to  *)
(* Exited (MachineLog); what is unread when the machine stops may be lost. *)
(* So the host has, at any time, some prefix of wire.                      *)
(*                                                                         *)
(* The lines of a pipe are numbered, and a packet has one or more of them: *)
(* what becomes of their bytes is in PipeToLog.  The workers of the pull   *)
(* are one thread here, which writes their progress: what each of them     *)
(* does is in ImagePull.                                                   *)
(***************************************************************************)
EXTENDS Integers, Sequences

CONSTANTS MaxLines,   \* bound: lines the container writes
          Layers,     \* number of layers of the image
          ExitCode,   \* codes the container ends with
          None

ASSUME LinesAssumption == MaxLines \in Nat /\ Layers \in Nat
ASSUME CodeAssumption == ExitCode # {} /\ ExitCode \subseteq 0 .. 255
ASSUME NoneAssumption == None \notin ExitCode

Stream == {"stdout", "stderr"}
Thread == {"main", "reader", "puller", "waiter"} \cup Stream

VARIABLES
    pc,         \* where each thread is
    lock,       \* a thread that panicked with the connection's mutex, or None
    res,        \* main's exit code
    exit_rx,    \* channel of exit codes to main
    container,  \* "none", "starting" (crun has not made it yet), "running" or "ended"
    signal,     \* crun kill: "no", "failed" to start, "missed" the container or "sent"
    code,       \* how crun ended: a code, or None after a signal
    pulled,     \* layers the pull reported
    printed,    \* lines written to each pipe
    logged,     \* lines each logger has written to the host
    broken,     \* pipes whose logger met an error
    link,       \* "none", "up" or "closed" by the host
    wire,       \* packets sent to the host
    shutdown,   \* the host's Shutdown packet: "no", "sent" or "read"
    vm          \* "on" or "off"

crun == <<container, signal, code>>
pipes == <<printed, logged, broken>>
vars == <<pc, lock, res, exit_rx, pulled, crun, pipes, link, wire, shutdown, vm>>

-----------------------------------------------------------------------------
(* Packets and exit codes *)

Exit(kind, c) == [kind |-> kind, code |-> c]
GracefulShutdown == Exit("graceful", None)
FailedToPull == Exit("pull", None)
ContainerExited(c) == Exit("container", IF c = None THEN 9999 ELSE c)
GuestExitCode ==
    {GracefulShutdown, FailedToPull} \cup {ContainerExited(c) : c \in ExitCode \cup {None}}

\* None, main's exit code before it received one, is none of them.
ASSUME ResAssumption == None \notin GuestExitCode

VmState(s) == [type |-> "state", is |-> s]
System(m)  == [type |-> "system", is |-> m]
Log(s, ns) == [type |-> s, is |-> ns]
Exited(e)  == [type |-> "exited", is |-> e]

\* The host reads nothing after an Exited packet.
ExitAt(i) == i \in 1 .. Len(wire) /\ wire[i].type = "exited"

-----------------------------------------------------------------------------
(* Steps of the threads *)

At(t, place) == vm = "on" /\ pc[t] = place
Go(t, place) == pc' = [pc EXCEPT ![t] = place]

\* The panic hook and shutdown: the thread waits for the reboot.
panic(t) == Go(t, "halt")

\* Packets written under the mutex.  They are lost once the host has closed.
write(ps) ==
    /\ lock = None
    /\ wire' = IF link = "up" THEN wire \o ps ELSE wire
    /\ UNCHANGED lock

\* Or the closed connection is noticed: the thread panics with the mutex.
write_fails(t) ==
    /\ lock = None /\ link = "closed"
    /\ lock' = t
    /\ panic(t)
    /\ UNCHANGED wire

\* A thread at one place writes and goes on to the next.
Writes(t, here, ps, there) ==
    /\ At(t, here)
    /\ \/ write(ps) /\ Go(t, there)
       \/ write_fails(t)

\* init: mounts, file system, session, sysctl; each command must succeed.
init ==
    /\ At("main", "init")
    /\ Go("main", "mmds") \/ panic("main")
    /\ UNCHANGED <<lock, res, exit_rx, pulled, crun, pipes, link, wire, shutdown, vm>>

\* connect and get of MMDSClient.  The first token is good for hours, so get
\* does not ask for another.
mmds_connect ==
    /\ At("main", "mmds")
    /\ Go("main", "config") \/ panic("main")
    /\ UNCHANGED <<lock, res, exit_rx, pulled, crun, pipes, link, wire, shutdown, vm>>

mmds_get ==
    /\ At("main", "config")
    /\ Go("main", "connect") \/ panic("main")
    /\ UNCHANGED <<lock, res, exit_rx, pulled, crun, pipes, link, wire, shutdown, vm>>

\* The connection to the port that the configuration names.
connect ==
    /\ At("main", "connect")
    /\ \/ Go("main", "online") /\ link' = "up"
       \/ panic("main") /\ UNCHANGED link
    /\ UNCHANGED <<lock, res, exit_rx, pulled, crun, pipes, wire, shutdown, vm>>

online ==
    /\ Writes("main", "online", <<VmState("online"), System("version")>>, "spawn")
    /\ UNCHANGED <<res, exit_rx, pulled, crun, pipes, link, shutdown, vm>>

\* The thread that reads the host's packets.
spawn_reader ==
    /\ At("main", "spawn")
    /\ \/ pc' = [pc EXCEPT !["main"] = "parse", !["reader"] = "run"]
       \/ panic("main")
    /\ UNCHANGED <<lock, res, exit_rx, pulled, crun, pipes, link, wire, shutdown, vm>>

\* The image's name, which may be a bad one.
parse_reference ==
    /\ At("main", "parse")
    /\ Go("main", "pull") \/ Go("main", "failed")
    /\ UNCHANGED <<lock, res, exit_rx, pulled, crun, pipes, link, wire, shutdown, vm>>

pull_starts ==
    /\ Writes("main", "pull", <<VmState("pulling"), System("pull")>>, "pulling")
    /\ UNCHANGED <<res, exit_rx, pulled, crun, pipes, link, shutdown, vm>>

\* Main's part of the pull: the manifest, the message about it and the
\* workers.  Each request and each folder may fail, before the message or after.
pull_layers ==
    /\ At("main", "pulling")
    /\ \/ /\ write(<<System("layers")>>)
          /\ \/ pc' = [pc EXCEPT !["main"] = "joining", !["puller"] = "run"]
             \/ Go("main", "failed")
       \/ write_fails("main")
       \/ Go("main", "failed") /\ UNCHANGED <<lock, wire>>
    /\ UNCHANGED <<res, exit_rx, pulled, crun, pipes, link, shutdown, vm>>

\* Another layer is there, or no worker is left: the queue is empty, or those
\* that are not at its end failed.
report_layer ==
    /\ \/ /\ pulled < Layers
          /\ Writes("puller", "run", <<System("layer")>>, "run")
          /\ pulled' = pulled + 1
       \/ At("puller", "run") /\ Go("puller", "done") /\ UNCHANGED <<lock, wire, pulled>>
    /\ UNCHANGED <<res, exit_rx, crun, pipes, link, shutdown, vm>>

\* pull_and_prepare_image returns once every worker did and all layers are there,
\* and may still panic then; it fails with a worker, while others go on.
pull_ends ==
    /\ At("main", "joining")
    /\ \/ pc["puller"] = "done" /\ pulled = Layers /\ (Go("main", "exec") \/ panic("main"))
       \/ Go("main", "failed")
    /\ UNCHANGED <<lock, res, exit_rx, pulled, crun, pipes, link, wire, shutdown, vm>>

\* exit reports a bad name or a pull that failed, with a message after Exited.
pull_failed ==
    /\ Writes("main", "failed", <<Exited(FailedToPull), System("reason")>>, "halt")
    /\ UNCHANGED <<res, exit_rx, pulled, crun, pipes, link, shutdown, vm>>

executing ==
    /\ Writes("main", "exec", <<VmState("executing")>>, "run")
    /\ UNCHANGED <<res, exit_rx, pulled, crun, pipes, link, shutdown, vm>>

\* crun run, its loggers and its waiter.
run_container ==
    /\ At("main", "run")
    /\ \/ /\ pc' = [pc EXCEPT !["main"] = "recv", !["stdout"] = "run",
                              !["stderr"] = "run", !["waiter"] = "run"]
          /\ container' = "starting"
       \/ panic("main") /\ UNCHANGED container
    /\ UNCHANGED <<lock, res, exit_rx, pulled, signal, code, pipes, link, wire, shutdown, vm>>

\* The first exit code: the container's, or the host's request.
recv ==
    /\ At("main", "recv") /\ exit_rx # <<>>
    /\ res' = Head(exit_rx) /\ exit_rx' = Tail(exit_rx)
    /\ Go("main", IF res' = GracefulShutdown THEN "stopping" ELSE "join")
    /\ UNCHANGED <<lock, pulled, crun, pipes, link, wire, shutdown, vm>>

log_stopping ==
    /\ Writes("main", "stopping", <<System("stopping")>>, "kill")
    /\ UNCHANGED <<res, exit_rx, pulled, crun, pipes, link, shutdown, vm>>

\* Faulty variant: the container is not told.
KillSkipped ==
    /\ At("main", "kill")
    /\ Go("main", "recv_again")
    /\ UNCHANGED <<lock, res, exit_rx, pulled, crun, pipes, link, wire, shutdown, vm>>

\* crun kill, if it can be started: without effect unless crun knows the
\* container by now, and nobody looks at how it ended.
kill ==
    /\ At("main", "kill")
    /\ \/ signal' = IF container = "running" THEN "sent" ELSE "missed"
       \/ signal' = "failed"
    /\ Go("main", "recv_again")
    /\ UNCHANGED <<lock, res, exit_rx, pulled, container, code, pipes, link, wire, shutdown, vm>>

\* The second exit code takes the place of the first.
recv_again ==
    /\ At("main", "recv_again") /\ exit_rx # <<>>
    /\ res' = Head(exit_rx) /\ exit_rx' = Tail(exit_rx)
    /\ Go("main", "join")
    /\ UNCHANGED <<lock, pulled, crun, pipes, link, wire, shutdown, vm>>

\* Faulty variant: only the first logger is waited for.
JoinStdoutOnly ==
    /\ At("main", "join") /\ pc["stdout"] = "done"
    /\ Go("main", "exit")
    /\ UNCHANGED <<lock, res, exit_rx, pulled, crun, pipes, link, wire, shutdown, vm>>

join_loggers ==
    /\ At("main", "join")
    /\ \A s \in Stream : pc[s] = "done"
    /\ Go("main", "exit")
    /\ UNCHANGED <<lock, res, exit_rx, pulled, crun, pipes, link, wire, shutdown, vm>>

exit ==
    /\ Writes("main", "exit", <<Exited(res)>>, "halt")
    /\ UNCHANGED <<res, exit_rx, pulled, crun, pipes, link, shutdown, vm>>

-----------------------------------------------------------------------------
(* The other threads *)

\* Faulty variant: the end of the connection ends the thread only.
ReadPacketReturns ==
    /\ At("reader", "run")
    /\ \/ /\ shutdown = "sent" /\ shutdown' = "read"
          /\ exit_rx' = Append(exit_rx, GracefulShutdown)
          /\ UNCHANGED pc
       \/ /\ shutdown # "sent" /\ link = "closed"
          /\ Go("reader", "done")
          /\ UNCHANGED <<shutdown, exit_rx>>
    /\ UNCHANGED <<lock, res, pulled, crun, pipes, link, wire, vm>>

\* A Shutdown packet becomes an exit code; the end of the connection a panic.
read_packet ==
    /\ At("reader", "run")
    /\ \/ /\ shutdown = "sent" /\ shutdown' = "read"
          /\ exit_rx' = Append(exit_rx, GracefulShutdown)
          /\ UNCHANGED pc
       \/ /\ shutdown # "sent" /\ link = "closed"
          /\ panic("reader")
          /\ UNCHANGED <<shutdown, exit_rx>>
    /\ UNCHANGED <<lock, res, pulled, crun, pipes, link, wire, vm>>

\* One or more lines go to the host; the rest when the pipe is closed, and the
\* thread ends.  A read that fails ends it at once.
pipe_to_log(s) ==
    /\ \/ \E n \in logged[s] + 1 .. printed[s] :
             /\ \/ Writes(s, "run", <<Log(s, logged[s] + 1 .. n)>>, "run")
                \/ /\ n = printed[s] /\ container = "ended"
                   /\ Writes(s, "run", <<Log(s, logged[s] + 1 .. n)>>, "done")
             /\ logged' = [logged EXCEPT ![s] = n]
             /\ UNCHANGED broken
       \/ /\ At(s, "run") /\ logged[s] = printed[s] /\ container = "ended"
          /\ Go(s, "done")
          /\ UNCHANGED <<lock, wire, logged, broken>>
       \/ /\ At(s, "run") /\ Go(s, "done")
          /\ broken' = broken \cup {s}
          /\ UNCHANGED <<lock, wire, logged>>
    /\ UNCHANGED <<res, exit_rx, pulled, crun, printed, link, shutdown, vm>>

\* Faulty variant: the code is sent before the message is written.
WaitSendsFirst ==
    \/ /\ At("waiter", "run") /\ container = "ended"
       /\ exit_rx' = Append(exit_rx, ContainerExited(code))
       /\ Go("waiter", "send")
       /\ UNCHANGED <<lock, res, pulled, crun, pipes, link, wire, shutdown, vm>>
    \/ /\ Writes("waiter", "send", <<System("exited")>>, "done")
       /\ UNCHANGED <<res, exit_rx, pulled, crun, pipes, link, shutdown, vm>>

\* Faulty variant: a container ended by a signal counts as a success.
WaitSignalIsZero ==
    \/ /\ container = "ended"
       /\ Writes("waiter", "run", <<System("exited")>>, "send")
       /\ UNCHANGED <<res, exit_rx, pulled, crun, pipes, link, shutdown, vm>>
    \/ /\ At("waiter", "send")
       /\ exit_rx' = Append(exit_rx, ContainerExited(IF code = None THEN 0 ELSE code))
       /\ Go("waiter", "done")
       /\ UNCHANGED <<lock, res, pulled, crun, pipes, link, wire, shutdown, vm>>

\* Faulty variant: only a container with a code is reported to main.
WaitNeedsCode ==
    \/ /\ container = "ended"
       /\ Writes("waiter", "run", <<System("exited")>>, "send")
       /\ UNCHANGED <<res, exit_rx, pulled, crun, pipes, link, shutdown, vm>>
    \/ /\ At("waiter", "send")
       /\ exit_rx' = IF code = None THEN exit_rx ELSE Append(exit_rx, ContainerExited(code))
       /\ Go("waiter", "done")
       /\ UNCHANGED <<lock, res, pulled, crun, pipes, link, wire, shutdown, vm>>

\* The waiter writes that the container ended, then tells main; or wait fails.
wait_container ==
    \/ /\ container = "ended"
       /\ \/ Writes("waiter", "run", <<System("exited")>>, "send")
          \/ At("waiter", "run") /\ panic("waiter") /\ UNCHANGED <<lock, wire>>
       /\ UNCHANGED <<res, exit_rx, pulled, crun, pipes, link, shutdown, vm>>
    \/ /\ At("waiter", "send")
       /\ exit_rx' = Append(exit_rx, ContainerExited(code))
       /\ Go("waiter", "done")
       /\ UNCHANGED <<lock, res, pulled, crun, pipes, link, wire, shutdown, vm>>

\* The reboot at the end of shutdown.
power_off ==
    /\ vm = "on" /\ \E t \in Thread : pc[t] = "halt"
    /\ vm' = "off"
    /\ UNCHANGED <<pc, lock, res, exit_rx, pulled, crun, pipes, link, wire, shutdown>>

-----------------------------------------------------------------------------
(* The container, and crun around it *)

container_created ==
    /\ vm = "on" /\ container = "starting"
    /\ container' = "running"
    /\ UNCHANGED <<pc, lock, res, exit_rx, pulled, signal, code, pipes, link, wire, shutdown, vm>>

\* The pipe of a logger that ended is closed.
container_prints(s) ==
    /\ vm = "on" /\ container \in {"starting", "running"} /\ s \notin broken
    /\ printed["stdout"] + printed["stderr"] < MaxLines
    /\ printed' = [printed EXCEPT ![s] = @ + 1]
    /\ UNCHANGED <<pc, lock, res, exit_rx, pulled, crun, logged, broken, link, wire, shutdown, vm>>

container_ends ==
    /\ vm = "on" /\ container \in {"starting", "running"}
    /\ container' = "ended"
    /\ code' \in ExitCode \cup {None}
    /\ UNCHANGED <<pc, lock, res, exit_rx, pulled, signal, pipes, link, wire, shutdown, vm>>

-----------------------------------------------------------------------------
(* The host *)

\* A machine is shut down once, so there is one Shutdown packet.
host_sends_shutdown ==
    /\ vm = "on" /\ link = "up" /\ shutdown = "no"
    /\ shutdown' = "sent"
    /\ UNCHANGED <<pc, lock, res, exit_rx, pulled, crun, pipes, link, wire, vm>>

\* The host drops its end: the node manager stops, or gave the machine up.
host_closes ==
    /\ vm = "on" /\ link = "up"
    /\ link' = "closed"
    /\ UNCHANGED <<pc, lock, res, exit_rx, pulled, crun, pipes, wire, shutdown, vm>>

\* cleanup kills firecracker.
host_kills ==
    /\ vm = "on"
    /\ vm' = "off"
    /\ UNCHANGED <<pc, lock, res, exit_rx, pulled, crun, pipes, link, wire, shutdown>>

Terminated == vm = "off" /\ UNCHANGED vars

-----------------------------------------------------------------------------
Init ==
    /\ pc = [t \in Thread |-> IF t = "main" THEN "init" ELSE "none"]
    /\ lock = None /\ res = None /\ exit_rx = <<>>
    /\ container = "none" /\ signal = "no" /\ code = None
    /\ pulled = 0
    /\ printed = [s \in Stream |-> 0] /\ logged = [s \in Stream |-> 0] /\ broken = {}
    /\ link = "none" /\ wire = <<>>
    /\ shutdown = "no" /\ vm = "on"

Main ==
    \/ init \/ mmds_connect \/ mmds_get \/ connect \/ online \/ spawn_reader \/ parse_reference
    \/ pull_starts \/ pull_layers \/ pull_ends \/ pull_failed \/ executing \/ run_container
    \/ recv \/ log_stopping \/ kill \/ recv_again \/ join_loggers \/ exit

Next ==
    \/ Main
    \/ read_packet \/ report_layer
    \/ \E s \in Stream : pipe_to_log(s) \/ container_prints(s)
    \/ wait_container
    \/ power_off
    \/ container_created \/ container_ends
    \/ host_sends_shutdown \/ host_closes \/ host_kills
    \/ Terminated

Spec == Init /\ [][Next]_vars

\* The kernel runs every thread that can go on, and the pull ends (ImagePull).
\* Nothing is assumed of its workers, of crun and the container, nor of the host.
Fairness ==
    /\ WF_vars(Main) /\ WF_vars(read_packet) /\ WF_vars(wait_container) /\ WF_vars(power_off)
    /\ \A s \in Stream : WF_vars(pipe_to_log(s))

FairSpec == Spec /\ Fairness

-----------------------------------------------------------------------------
(* Properties *)

\* The first i packets have lines of a pipe in order, each at most once and
\* none that was not written.
InOrder(s, i) ==
    /\ \A j \in 1 .. i : wire[j].type = s => wire[j].is \subseteq 1 .. printed[s]
    /\ \A j, k \in 1 .. i : wire[j].type = s /\ wire[k].type = s /\ j < k =>
          \A m \in wire[j].is, n \in wire[k].is : m < n

\* When the host learns that the container exited it has the lines of each pipe
\* in order, and every line the container wrote unless a read of this pipe
\* failed: main joins both loggers before exit.
OutputBeforeExit ==
    \A i \in 1 .. Len(wire) :
        ExitAt(i) /\ wire[i].is.kind = "container" =>
            \A s \in Stream :
                /\ InOrder(s, i)
                /\ s \notin broken => \A n \in 1 .. printed[s] :
                      \E j \in 1 .. i : wire[j].type = s /\ n \in wire[j].is

\* What the host learns is how the machine really ended: the code crun left,
\* or a failed pull without a container.
ExitFaithful ==
    \A i \in 1 .. Len(wire) : ExitAt(i) =>
        \/ /\ container = "ended"
           /\ wire[i].is = [kind |-> "container", code |-> IF code = None THEN 9999 ELSE code]
        \/ wire[i].is = FailedToPull /\ container = "none"

IsSystem(i, m) == wire[i].type = "system" /\ wire[i].is = m

\* The exit of a container is the last packet: no thread still has something to
\* write that the host would not read.  A failed pull is followed by its reason
\* and then only by the progress of workers that it left behind.
ExitedIsLast ==
    \A i \in 1 .. Len(wire) : ExitAt(i) =>
        \/ wire[i].is # FailedToPull /\ i = Len(wire)
        \/ /\ wire[i].is = FailedToPull
           /\ i < Len(wire) /\ IsSystem(i + 1, "reason")
           /\ \A j \in i + 2 .. Len(wire) : IsSystem(j, "layer")

\* A machine whose connection the host closed stops by itself: the reader's
\* panic reaches main in every place main can wait.
OrphanStops == link = "closed" ~> vm = "off"

\* A machine whose container ended stops by itself.
EndedStops == container = "ended" ~> vm = "off"

\* crun makes the container, which ends when it is told to.  It is the first
\* process of its namespace, where a signal without a handler does nothing: this
\* is a hypothesis about the container.
ContainerObeys == WF_vars(container_created) /\ WF_vars(signal = "sent" /\ container_ends)

\* A request to shut down that meets a running container, which obeys, stops the
\* machine unless crun kill cannot even be started.
StopReachesContainer ==
    ContainerObeys =>
        ((shutdown = "read" /\ signal = "no" /\ container = "running")
            ~> (vm = "off" \/ signal = "failed"))

\* A request to shut down is carried out whenever it arrives ("wait for the
\* graceful shutdown to complete", main.rs:182).
ShutdownCompletes ==
    ContainerObeys => (shutdown = "read" ~> (vm = "off" \/ signal = "failed"))
=============================================================================
