----------------------------- MODULE Guest_proofs -----------------------------
(***************************************************************************)
(* Proofs about Guest, for every number of lines and every set of codes.   *)
(***************************************************************************)
EXTENDS Guest, SequenceTheorems, TLAPS

-----------------------------------------------------------------------------
(* The inductive invariant *)

\* Where main is before it has a container, and before it has a connection.
Offline == {"init", "mmds", "config", "connect"}
Early == Offline \cup {"online", "spawn", "parse", "pull", "pulling", "joining",
                    "failed", "exec", "run"}
Place(t) ==
    IF t = "main"
    THEN Early \cup {"recv", "stopping", "kill", "recv_again", "join", "exit", "halt"}
    ELSE {"none", "run", "send", "done", "halt"}

Word == {"online", "version", "reason", "pulling", "pull", "layers", "layer", "executing",
         "stopping", "exited"}
Packet ==
    [type : {"state", "system"}, is : Word] \cup [type : Stream, is : SUBSET Nat]
        \cup [type : {"exited"}, is : GuestExitCode]

Typed ==
    /\ pc = [t \in Thread |-> pc[t]] /\ \A t \in Thread : pc[t] \in Place(t)
    /\ exit_rx \in Seq(GuestExitCode) /\ res \in GuestExitCode \cup {None}
    /\ container \in {"none", "starting", "running", "ended"} /\ code \in ExitCode \cup {None}
    /\ printed \in [Stream -> Nat] /\ logged \in [Stream -> Nat]
    /\ link \in {"none", "up", "closed"} /\ wire \in Seq(Packet)
    /\ shutdown \in {"no", "sent", "read"}

\* Loggers and waiter come with the container, after the last worker of the pull
\* is gone.  A logger that met no error is done when it has sent all that was
\* printed.
Started ==
    /\ pc["main"] \in Offline => link = "none"
    /\ pc["main"] \in Early => container = "none"
    /\ pc["main"] \in {"exec", "run"} => pc["puller"] = "done"
    /\ container = "none" =>
          /\ pc["waiter"] = "none" /\ pc["main"] \in Early \cup {"halt"}
          /\ \A s \in Stream : pc[s] = "none" /\ printed[s] = 0 /\ logged[s] = 0
    /\ container # "none" => pc["puller"] = "done"
    /\ pc["waiter"] \in {"send", "done"} => container = "ended"
    /\ \A s \in Stream : pc[s] = "done" /\ s \notin broken =>
          container = "ended" /\ logged[s] = printed[s]
    /\ \A s \in Stream : logged[s] <= printed[s]

\* The channel has the request of the host once, and the container's code once
\* the waiter is done.  What main took from it is not in it any more.
Codes ==
    /\ \A i \in 1 .. Len(exit_rx) :
          \/ exit_rx[i] = GracefulShutdown /\ shutdown = "read" /\ res # GracefulShutdown
          \/ exit_rx[i] = ContainerExited(code) /\ pc["waiter"] = "done"
    /\ \A i, j \in 1 .. Len(exit_rx) :
          exit_rx[i] = GracefulShutdown /\ exit_rx[j] = GracefulShutdown => i = j
    /\ res = GracefulShutdown => shutdown = "read"
    /\ pc["main"] \in {"stopping", "kill", "recv_again"} => res = GracefulShutdown
    /\ pc["main"] \in {"join", "exit"} => res = ContainerExited(code) /\ pc["waiter"] = "done"
    /\ pc["main"] = "exit" => \A s \in Stream : pc[s] = "done"

\* After the exit of a container nobody is left who writes; after a failed pull
\* its workers are.
Reported ==
    \A i \in 1 .. Len(wire) : ExitAt(i) =>
        /\ pc["main"] = "halt"
        /\ \/ /\ wire[i].is = ContainerExited(code) /\ container = "ended" /\ i = Len(wire)
              /\ pc["waiter"] = "done" /\ \A s \in Stream : pc[s] = "done"
           \/ /\ wire[i].is = FailedToPull /\ container = "none"
              /\ i < Len(wire) /\ IsSystem(i + 1, "reason")
              /\ \A j \in i + 2 .. Len(wire) : IsSystem(j, "layer")

\* The lines that a logger sent are on the wire, all of them while the host
\* listens and once it knows of the exit.
Lines ==
    \A s \in Stream :
        /\ \A j \in 1 .. Len(wire) : wire[j].type = s => wire[j].is \subseteq 1 .. logged[s]
        /\ (link = "up" \/ \E i \in 1 .. Len(wire) : ExitAt(i)) =>
              \A n \in 1 .. logged[s] :
                 \E j \in 1 .. Len(wire) : wire[j].type = s /\ n \in wire[j].is
        /\ \A j, k \in 1 .. Len(wire) : wire[j].type = s /\ wire[k].type = s /\ j < k =>
              \A m \in wire[j].is, n \in wire[k].is : m < n

Inv == Typed /\ Started /\ Codes /\ Reported /\ Lines


-----------------------------------------------------------------------------
(* Threads *)

\* The threads, one by one.
LEMMA Threads ==
    /\ "main" \in Thread /\ "reader" \in Thread /\ "puller" \in Thread /\ "waiter" \in Thread
    /\ \A s \in Stream : s \in Thread \ {"main", "reader", "puller", "waiter"}
BY DEF Thread, Stream

\* What a thread does that writes: the packets are on the wire if the host
\* listens, and otherwise the thread goes on or panics.
LEMMA WritesFacts ==
    ASSUME Typed, NEW t \in Thread, NEW here, NEW ps, NEW there,
           Writes(t, here, ps, there)
    PROVE  /\ vm = "on" /\ pc[t] = here /\ pc' = [u \in Thread |-> pc'[u]]
           /\ \A u \in Thread \ {t} : pc'[u] = pc[u]
           /\ pc'[t] \in {there, "halt"}
           /\ \/ link = "up" /\ wire' = wire \o ps /\ pc'[t] = there
              \/ link # "up" /\ wire' = wire
<1>1. pc = [u \in Thread |-> pc[u]] /\ vm = "on" /\ pc[t] = here
  BY DEF Typed, Writes, At
<1>2. CASE write(ps) /\ Go(t, there)
  <2>1. wire' = (IF link = "up" THEN wire \o ps ELSE wire) /\ pc' = [pc EXCEPT ![t] = there]
    BY <1>2 DEF write, Go
  <2>2. \/ link = "up" /\ wire' = wire \o ps
        \/ link # "up" /\ wire' = wire
    BY <2>1
  <2>3. /\ pc' = [u \in Thread |-> pc'[u]] /\ pc'[t] = there
        /\ \A u \in Thread \ {t} : pc'[u] = pc[u]
    BY <1>1, <2>1
  <2> QED
    BY <1>1, <2>2, <2>3
<1>3. CASE write_fails(t)
  <2>1. link = "closed" /\ wire' = wire /\ pc' = [pc EXCEPT ![t] = "halt"]
    BY <1>3 DEF write_fails, panic, Go
  <2>2. /\ pc' = [u \in Thread |-> pc'[u]] /\ pc'[t] = "halt"
        /\ \A u \in Thread \ {t} : pc'[u] = pc[u]
    BY <1>1, <2>1
  <2> QED
    BY <1>1, <2>1, <2>2
<1> QED
  BY <1>2, <1>3 DEF Writes

\* A thread that goes on without writing.
LEMMA GoFacts ==
    ASSUME Typed, NEW t \in Thread, NEW place, Go(t, place)
    PROVE  /\ pc' = [u \in Thread |-> pc'[u]] /\ pc'[t] = place
           /\ \A u \in Thread \ {t} : pc'[u] = pc[u]
BY DEF Typed, Go

\* Main on its way to the container: neither container nor channel is touched.
LEMMA EarlyMain ==
    ASSUME Started, Codes, pc["main"] \in Early, pc'["main"] \in Early \cup {"halt"},
           \A t \in Stream \cup {"waiter"} : pc'[t] = pc[t],
           pc'["main"] \in Offline => link' = "none",
           pc'["main"] \in {"exec", "run"} => pc'["puller"] = "done",
           UNCHANGED <<res, exit_rx, crun, pipes, shutdown>>
    PROVE  Started' /\ Codes'
<1>1. UNCHANGED <<container, code, printed, logged, broken>> /\ container = "none"
  BY DEF crun, pipes, Started
<1>2. pc'["waiter"] = pc["waiter"] /\ \A s \in Stream : pc'[s] = pc[s]
  OBVIOUS
<1>3. Started'
  BY <1>1, <1>2 DEF Started
<1>4. pc'["main"] \notin {"stopping", "kill", "recv_again", "join", "exit"}
  BY DEF Early, Offline
<1>5. Codes'
  BY <1>1, <1>2, <1>4 DEF Codes
<1> QED
  BY <1>3, <1>5

\* Main with a container: it holds what it received.
LEMMA LateMain ==
    ASSUME Typed, Started, Codes,
           \/ log_stopping \/ kill \/ join_loggers \/ exit
    PROVE  Started' /\ Codes'
<1>1. /\ UNCHANGED <<res, exit_rx, container, code, printed, logged, broken, shutdown, link>>
      /\ pc["main"] \in {"stopping", "kill", "join", "exit"}
      /\ \A t \in Thread \ {"main"} : pc'[t] = pc[t]
      /\ \/ pc["main"] = "stopping" /\ pc'["main"] \in {"kill", "halt"}
         \/ pc["main"] = "kill" /\ pc'["main"] = "recv_again"
         \/ pc["main"] = "join" /\ pc'["main"] = "exit" /\ \A s \in Stream : pc[s] = "done"
         \/ pc["main"] = "exit" /\ pc'["main"] = "halt"
  <2>1. CASE log_stopping
    <3>1. Writes("main", "stopping", <<System("stopping")>>, "kill")
      BY <2>1 DEF log_stopping
    <3>2. /\ pc["main"] = "stopping" /\ pc'["main"] \in {"kill", "halt"}
          /\ \A u \in Thread \ {"main"} : pc'[u] = pc[u]
      BY <3>1, Threads, WritesFacts
    <3> QED
      BY <2>1, <3>2 DEF log_stopping, crun, pipes
  <2>2. CASE kill
    <3>1. pc["main"] = "kill" /\ Go("main", "recv_again")
      BY <2>2 DEF kill, At
    <3>2. pc'["main"] = "recv_again" /\ \A u \in Thread \ {"main"} : pc'[u] = pc[u]
      BY <3>1, Threads, GoFacts
    <3> QED
      BY <2>2, <3>1, <3>2 DEF kill, pipes
  <2>3. CASE join_loggers
    <3>1. pc["main"] = "join" /\ Go("main", "exit") /\ \A s \in Stream : pc[s] = "done"
      BY <2>3 DEF join_loggers, At
    <3>2. pc'["main"] = "exit" /\ \A u \in Thread \ {"main"} : pc'[u] = pc[u]
      BY <3>1, Threads, GoFacts
    <3> QED
      BY <2>3, <3>1, <3>2 DEF join_loggers, crun, pipes
  <2>4. CASE exit
    <3>1. Writes("main", "exit", <<Exited(res)>>, "halt")
      BY <2>4 DEF exit
    <3>2. /\ pc["main"] = "exit" /\ pc'["main"] = "halt"
          /\ \A u \in Thread \ {"main"} : pc'[u] = pc[u]
      BY <3>1, Threads, WritesFacts
    <3> QED
      BY <2>4, <3>2 DEF exit, crun, pipes
  <2> QED
    BY <2>1, <2>2, <2>3, <2>4
<1>2. /\ pc'["puller"] = pc["puller"] /\ pc'["waiter"] = pc["waiter"]
      /\ \A s \in Stream : pc'[s] = pc[s]
      /\ pc["main"] \notin Early \cup {"halt"}
  BY <1>1, Threads DEF Early, Offline
<1>3. container # "none"
  BY <1>2 DEF Started
<1>4. Started'
  BY <1>1, <1>2, <1>3 DEF Started, Early, Offline
<1>5. Codes'
  BY <1>1, <1>2 DEF Codes
<1> QED
  BY <1>4, <1>5

\* Main takes an exit code: the request of the host, or the container's.
LEMMA Receives ==
    ASSUME Typed, Started, Codes, recv \/ recv_again
    PROVE  Started' /\ Codes'
<1>1. /\ exit_rx # <<>> /\ res' = Head(exit_rx) /\ exit_rx' = Tail(exit_rx)
      /\ UNCHANGED <<container, code, printed, logged, broken, shutdown, link>>
      /\ pc["main"] \in {"recv", "recv_again"}
      /\ \A t \in Thread \ {"main"} : pc'[t] = pc[t]
      /\ pc'["main"] = IF pc["main"] = "recv" /\ res' = GracefulShutdown THEN "stopping" ELSE "join"
  <2>1. CASE recv
    <3>1. pc["main"] = "recv" /\ Go("main", IF res' = GracefulShutdown THEN "stopping" ELSE "join")
      BY <2>1 DEF recv, At
    <3>2. /\ pc'["main"] = IF res' = GracefulShutdown THEN "stopping" ELSE "join"
          /\ \A u \in Thread \ {"main"} : pc'[u] = pc[u]
      BY <3>1, Threads DEF Go, Typed
    <3> QED
      BY <2>1, <3>1, <3>2 DEF recv, crun, pipes
  <2>2. CASE recv_again
    <3>1. pc["main"] = "recv_again" /\ Go("main", "join")
      BY <2>2 DEF recv_again, At
    <3>2. pc'["main"] = "join" /\ \A u \in Thread \ {"main"} : pc'[u] = pc[u]
      BY <3>1, Threads DEF Go, Typed
    <3> QED
      BY <2>2, <3>1, <3>2 DEF recv_again, crun, pipes
  <2> QED
    BY <2>1, <2>2
<1>2. /\ exit_rx \in Seq(GuestExitCode) /\ Len(exit_rx) \in Nat \ {0} /\ res' = exit_rx[1]
      /\ Len(exit_rx') = Len(exit_rx) - 1
      /\ \A i \in 1 .. Len(exit_rx') : exit_rx'[i] = exit_rx[i + 1] /\ i + 1 \in 2 .. Len(exit_rx)
  BY <1>1, HeadTailProperties, LenProperties, EmptySeq DEF Typed
<1>3. /\ pc'["puller"] = pc["puller"] /\ pc'["waiter"] = pc["waiter"]
      /\ \A s \in Stream : pc'[s] = pc[s]
      /\ pc["main"] \notin Early \cup {"halt"}
  BY <1>1, Threads DEF Early, Offline
<1>4. container # "none"
  BY <1>3 DEF Started
<1>5. Started'
  BY <1>1, <1>3, <1>4 DEF Started, Early, Offline
<1>6. \/ res' = GracefulShutdown /\ shutdown = "read" /\ res # GracefulShutdown
      \/ res' = ContainerExited(code) /\ pc["waiter"] = "done"
  <2>1. 1 \in 1 .. Len(exit_rx)
    BY <1>2
  <2> QED
    BY <1>2, <2>1 DEF Codes
<1>7. ContainerExited(code) # GracefulShutdown
  BY DEF ContainerExited, GracefulShutdown, Exit
<1>8. pc["main"] = "recv_again" => res' # GracefulShutdown
  BY <1>6, <1>7 DEF Codes
<1>9. ASSUME NEW i \in 1 .. Len(exit_rx')
      PROVE  \/ exit_rx'[i] = GracefulShutdown /\ shutdown = "read" /\ res' # GracefulShutdown
             \/ exit_rx'[i] = ContainerExited(code) /\ pc["waiter"] = "done"
  <2>1. /\ 1 \in 1 .. Len(exit_rx) /\ i + 1 \in 1 .. Len(exit_rx) /\ 1 # i + 1
        /\ exit_rx'[i] = exit_rx[i + 1]
    BY <1>2
  <2>2. CASE exit_rx[i + 1] = GracefulShutdown
    BY <1>2, <2>1, <2>2, <1>7 DEF Codes
  <2>3. CASE exit_rx[i + 1] # GracefulShutdown
    BY <2>1, <2>3 DEF Codes
  <2> QED
    BY <2>2, <2>3
<1>10. \A i, j \in 1 .. Len(exit_rx') :
          exit_rx'[i] = GracefulShutdown /\ exit_rx'[j] = GracefulShutdown => i = j
  <2> SUFFICES ASSUME NEW i \in 1 .. Len(exit_rx'), NEW j \in 1 .. Len(exit_rx'),
                      exit_rx'[i] = GracefulShutdown, exit_rx'[j] = GracefulShutdown
               PROVE  i = j
    OBVIOUS
  <2>1. /\ i + 1 \in 1 .. Len(exit_rx) /\ j + 1 \in 1 .. Len(exit_rx)
        /\ exit_rx[i + 1] = GracefulShutdown /\ exit_rx[j + 1] = GracefulShutdown
    BY <1>2
  <2>2. i + 1 = j + 1
    BY <2>1 DEF Codes
  <2> QED
    BY <1>2, <2>2
<1>11. Codes'
  <2>1. res' = GracefulShutdown => shutdown' = "read"
    BY <1>1, <1>6, <1>7
  <2>2. pc'["main"] \in {"stopping", "kill", "recv_again"} => res' = GracefulShutdown
    BY <1>1
  <2>3. pc'["main"] \in {"join", "exit"} => res' = ContainerExited(code) /\ pc["waiter"] = "done"
    BY <1>1, <1>6, <1>8
  <2>4. pc'["main"] # "exit"
    BY <1>1
  <2>5. ContainerExited(code)' = ContainerExited(code)
    BY <1>1 DEF ContainerExited
  <2> QED
    BY <1>1, <1>3, <1>9, <1>10, <2>1, <2>2, <2>3, <2>4, <2>5 DEF Codes, GracefulShutdown, Exit
<1> QED
  BY <1>5, <1>11

\* The container starts, with its loggers and its waiter.
LEMMA Runs ==
    ASSUME Typed, Started, Codes, pc["main"] = "run",
           pc' = [pc EXCEPT !["main"] = "recv", !["stdout"] = "run",
                            !["stderr"] = "run", !["waiter"] = "run"],
           container' = "starting", UNCHANGED <<res, exit_rx, code, pipes, shutdown>>
    PROVE  Started' /\ Codes'
<1>1. /\ pc'["main"] = "recv" /\ pc'["waiter"] = "run" /\ \A s \in Stream : pc'[s] = "run"
      /\ pc'["puller"] = pc["puller"]
  BY DEF Typed, Thread, Stream
<1>2. pc["waiter"] = "none" /\ pc["puller"] = "done"
  BY DEF Started, Early
<1>3. Started'
  BY <1>1, <1>2 DEF Started, Early, Offline, pipes
<1>4. Codes'
  BY <1>1, <1>2 DEF Codes
<1> QED
  BY <1>3, <1>4

\* Steps of the host, the reboot and the container's own steps leave the
\* threads where they are.
LEMMA NoThread ==
    ASSUME Typed, Started, Codes, UNCHANGED <<pc, res, exit_rx, logged, broken, code>>,
           shutdown' = shutdown \/ (shutdown = "no" /\ shutdown' = "sent"),
           link' = link \/ (link = "up" /\ link' = "closed"),
           container' = container \/ (container = "starting" /\ container' = "running"),
           \/ printed' = printed
           \/ /\ container \in {"starting", "running"} /\ printed \in [Stream -> Nat]
              /\ \A s \in Stream : printed'[s] = printed[s] \/ printed'[s] = printed[s] + 1
    PROVE  Started' /\ Codes'
<1>1. ASSUME NEW s \in Stream PROVE logged'[s] <= printed'[s]
  <2>1. logged[s] \in Nat /\ printed[s] \in Nat /\ logged[s] <= printed[s] /\ logged'[s] = logged[s]
    BY DEF Started, Typed
  <2>2. printed'[s] = printed[s] \/ printed'[s] = printed[s] + 1
    OBVIOUS
  <2> QED
    BY <2>1, <2>2
<1>2. Started'
  BY <1>1 DEF Started
<1>3. Codes'
  BY DEF Codes
<1> QED
  BY <1>2, <1>3

\* When the container ends no code is on its way yet.
LEMMA Ends ==
    ASSUME Typed, Started, Codes, container_ends
    PROVE  Started' /\ Codes'
<1>1. /\ container \in {"starting", "running"} /\ container' = "ended"
      /\ UNCHANGED <<pc, res, exit_rx, printed, logged, broken, link, shutdown>>
  BY DEF container_ends, pipes
<1>2. pc["waiter"] # "done"
  BY <1>1 DEF Started
<1>3. Started'
  BY <1>1 DEF Started
<1>4. Codes'
  BY <1>1, <1>2 DEF Codes
<1> QED
  BY <1>3, <1>4

\* The container's exit code is one, and not the request of the host.
LEMMA CodeFacts ==
    ASSUME Typed
    PROVE  ContainerExited(code) # GracefulShutdown /\ ContainerExited(code) \in GuestExitCode
<1>1. code \in ExitCode \cup {None}
  BY DEF Typed
<1>2. ContainerExited(code) \in GuestExitCode
  BY <1>1 DEF GuestExitCode
<1>3. ContainerExited(code) # GracefulShutdown
  BY DEF ContainerExited, GracefulShutdown, Exit
<1> QED
  BY <1>2, <1>3

\* The reader turns the host's request into an exit code, once.
LEMMA Reads ==
    ASSUME Typed, Started, Codes, read_packet
    PROVE  Started' /\ Codes'
<1>1. UNCHANGED <<res, container, code, printed, logged, broken, link>>
  BY DEF read_packet, crun, pipes
<1>2. \A t \in Thread \ {"reader"} : pc'[t] = pc[t]
  <2>1. CASE UNCHANGED pc
    BY <2>1
  <2>2. CASE panic("reader")
    BY <2>2, Threads, GoFacts DEF panic
  <2> QED
    BY <2>1, <2>2 DEF read_packet
<1>3. /\ pc'["main"] = pc["main"] /\ pc'["puller"] = pc["puller"] /\ pc'["waiter"] = pc["waiter"]
      /\ \A s \in Stream : pc'[s] = pc[s]
  BY <1>2, Threads
<1>4. Started'
  BY <1>1, <1>3 DEF Started
<1>5. CASE UNCHANGED <<shutdown, exit_rx>>
  BY <1>1, <1>3, <1>4, <1>5 DEF Codes
<1>6. CASE shutdown = "sent" /\ shutdown' = "read" /\ exit_rx' = Append(exit_rx, GracefulShutdown)
  <2>1. /\ exit_rx \in Seq(GuestExitCode) /\ Len(exit_rx) \in Nat
        /\ Len(exit_rx') = Len(exit_rx) + 1 /\ exit_rx'[Len(exit_rx) + 1] = GracefulShutdown
        /\ \A i \in 1 .. Len(exit_rx) : exit_rx'[i] = exit_rx[i]
    BY <1>6, LenProperties, AppendProperties DEF Typed, GuestExitCode
  <2>2. /\ res # GracefulShutdown
        /\ \A i \in 1 .. Len(exit_rx) :
              exit_rx[i] = ContainerExited(code) /\ pc["waiter"] = "done"
    BY <1>6 DEF Codes
  <2>3. ContainerExited(code) # GracefulShutdown
    BY DEF ContainerExited, GracefulShutdown, Exit
  <2>4. \A i \in 1 .. Len(exit_rx') : i \in 1 .. Len(exit_rx) \/ i = Len(exit_rx) + 1
    BY <2>1
  <2>5. \A i \in 1 .. Len(exit_rx') :
           \/ exit_rx'[i] = GracefulShutdown /\ i = Len(exit_rx) + 1
           \/ exit_rx'[i] = ContainerExited(code) /\ pc["waiter"] = "done"
    BY <2>1, <2>2, <2>4
  <2>6. \A i, j \in 1 .. Len(exit_rx') :
           exit_rx'[i] = GracefulShutdown /\ exit_rx'[j] = GracefulShutdown => i = j
    BY <2>3, <2>5
  <2>7. ContainerExited(code)' = ContainerExited(code)
    BY <1>1 DEF ContainerExited
  <2>8. Codes'
    BY <1>1, <1>3, <1>6, <2>2, <2>5, <2>6, <2>7 DEF Codes
  <2> QED
    BY <1>4, <2>8
<1> QED
  BY <1>5, <1>6 DEF read_packet

\* What a logger does: it sends lines, or it ends.
LEMMA PipeFacts ==
    ASSUME Typed, NEW s \in Stream, pipe_to_log(s)
    PROVE  /\ pc' = [u \in Thread |-> pc'[u]] /\ \A t \in Thread \ {s} : pc'[t] = pc[t]
           /\ pc[s] = "run" /\ pc'[s] \in {"run", "done", "halt"}
           /\ \/ \E n \in logged[s] + 1 .. printed[s] :
                    /\ logged' = [logged EXCEPT ![s] = n] /\ broken' = broken
                    /\ pc'[s] = "done" => n = printed[s] /\ container = "ended"
                    /\ \/ link = "up" /\ wire' = wire \o <<Log(s, logged[s] + 1 .. n)>>
                       \/ link # "up" /\ wire' = wire
              \/ /\ UNCHANGED <<logged, wire>> /\ broken' \in {broken, broken \cup {s}}
                 /\ s \notin broken' => logged[s] = printed[s] /\ container = "ended"
<1>1. s \in Thread
  BY Threads
<1>2. ASSUME NEW n \in logged[s] + 1 .. printed[s], logged' = [logged EXCEPT ![s] = n],
             broken' = broken,
             \/ Writes(s, "run", <<Log(s, logged[s] + 1 .. n)>>, "run")
             \/ /\ n = printed[s] /\ container = "ended"
                /\ Writes(s, "run", <<Log(s, logged[s] + 1 .. n)>>, "done")
      PROVE  /\ pc' = [u \in Thread |-> pc'[u]] /\ \A t \in Thread \ {s} : pc'[t] = pc[t]
             /\ pc[s] = "run" /\ pc'[s] \in {"run", "done", "halt"}
             /\ pc'[s] = "done" => n = printed[s] /\ container = "ended"
             /\ \/ link = "up" /\ wire' = wire \o <<Log(s, logged[s] + 1 .. n)>>
                \/ link # "up" /\ wire' = wire
  <2>1. PICK there \in {"run", "done"} :
           /\ Writes(s, "run", <<Log(s, logged[s] + 1 .. n)>>, there)
           /\ there = "done" => n = printed[s] /\ container = "ended"
    BY <1>2
  <2>2. /\ pc' = [u \in Thread |-> pc'[u]] /\ \A t \in Thread \ {s} : pc'[t] = pc[t]
        /\ pc[s] = "run" /\ pc'[s] \in {there, "halt"}
        /\ \/ link = "up" /\ wire' = wire \o <<Log(s, logged[s] + 1 .. n)>>
           \/ link # "up" /\ wire' = wire
    BY <1>1, <2>1, WritesFacts
  <2> QED
    BY <2>1, <2>2
<1>3. ASSUME At(s, "run"), Go(s, "done"), UNCHANGED <<logged, wire>>,
             \/ broken' = broken /\ logged[s] = printed[s] /\ container = "ended"
             \/ broken' = broken \cup {s}
      PROVE  /\ pc' = [u \in Thread |-> pc'[u]] /\ \A t \in Thread \ {s} : pc'[t] = pc[t]
             /\ pc[s] = "run" /\ pc'[s] = "done" /\ broken' \in {broken, broken \cup {s}}
             /\ s \notin broken' => logged[s] = printed[s] /\ container = "ended"
  BY <1>1, <1>3, GoFacts DEF At
<1>4. \/ \E n \in logged[s] + 1 .. printed[s] :
            /\ logged' = [logged EXCEPT ![s] = n] /\ broken' = broken
            /\ \/ Writes(s, "run", <<Log(s, logged[s] + 1 .. n)>>, "run")
               \/ /\ n = printed[s] /\ container = "ended"
                  /\ Writes(s, "run", <<Log(s, logged[s] + 1 .. n)>>, "done")
      \/ /\ At(s, "run") /\ Go(s, "done") /\ UNCHANGED <<logged, wire>>
         /\ \/ broken' = broken /\ logged[s] = printed[s] /\ container = "ended"
            \/ broken' = broken \cup {s}
  BY DEF pipe_to_log
<1> QED
  BY <1>2, <1>3, <1>4

\* A logger without an error is done when the container has ended and the pipe
\* is empty.
LEMMA Pipes ==
    ASSUME Typed, Started, Codes, NEW s \in Stream, pipe_to_log(s)
    PROVE  Started' /\ Codes'
<1>1. UNCHANGED <<res, exit_rx, container, code, printed, link, shutdown>>
  BY DEF pipe_to_log, crun
<1> DEFINE Sent ==
        /\ \A u \in Stream \ {s} : logged'[u] = logged[u] /\ (u \in broken' <=> u \in broken)
        /\ logged'[s] <= printed[s]
        /\ pc'[s] = "done" /\ s \notin broken' => logged'[s] = printed[s] /\ container = "ended"
<1>2. /\ \A t \in Thread \ {s} : pc'[t] = pc[t]
      /\ pc[s] = "run" /\ pc'[s] \in {"run", "done", "halt"}
      /\ Sent
  <2>1. /\ \A t \in Thread \ {s} : pc'[t] = pc[t]
        /\ pc[s] = "run" /\ pc'[s] \in {"run", "done", "halt"}
    BY PipeFacts
  <2>2. logged \in [Stream -> Nat] /\ printed \in [Stream -> Nat] /\ logged[s] <= printed[s]
    BY DEF Typed, Started
  <2>3. ASSUME NEW n \in logged[s] + 1 .. printed[s], logged' = [logged EXCEPT ![s] = n],
               broken' = broken, pc'[s] = "done" => n = printed[s] /\ container = "ended"
        PROVE  Sent
    BY <2>2, <2>3
  <2>4. ASSUME UNCHANGED logged, broken' \in {broken, broken \cup {s}},
               s \notin broken' => logged[s] = printed[s] /\ container = "ended"
        PROVE  Sent
    BY <2>2, <2>4
  <2>5. Sent
    BY <2>3, <2>4, PipeFacts
  <2> QED
    BY <2>1, <2>5
<1>3. /\ pc'["main"] = pc["main"] /\ pc'["puller"] = pc["puller"] /\ pc'["waiter"] = pc["waiter"]
      /\ \A u \in Stream \ {s} : pc'[u] = pc[u]
  BY <1>2, Threads
<1>4. container # "none"
  BY <1>2 DEF Started
<1>5. Started'
  BY <1>1, <1>2, <1>3, <1>4 DEF Started
<1>6. Codes'
  BY <1>1, <1>2, <1>3 DEF Codes
<1> QED
  BY <1>5, <1>6

\* The workers of the pull are gone before there is a container.
LEMMA Pulls ==
    ASSUME Typed, Started, Codes, report_layer
    PROVE  /\ Started' /\ Codes' /\ container = "none"
           /\ pc' = [u \in Thread |-> pc'[u]] /\ \A t \in Thread \ {"puller"} : pc'[t] = pc[t]
           /\ pc'["puller"] \in {"run", "done", "halt"}
           /\ UNCHANGED <<res, exit_rx, crun, pipes, shutdown, link>>
           /\ \/ link = "up" /\ wire' = wire \o <<System("layer")>>
              \/ wire' = wire
<1>1. UNCHANGED <<res, exit_rx, container, code, printed, logged, broken, shutdown, link, crun, pipes>>
  BY DEF report_layer, crun, pipes
<1>2. /\ pc["puller"] = "run" /\ pc'["puller"] \in {"run", "done", "halt"}
      /\ pc' = [u \in Thread |-> pc'[u]] /\ \A t \in Thread \ {"puller"} : pc'[t] = pc[t]
      /\ \/ link = "up" /\ wire' = wire \o <<System("layer")>>
         \/ wire' = wire
  <2>1. CASE Writes("puller", "run", <<System("layer")>>, "run")
    BY <2>1, Threads, WritesFacts
  <2>2. CASE At("puller", "run") /\ Go("puller", "done") /\ UNCHANGED wire
    BY <2>2, Threads, GoFacts DEF At
  <2> QED
    BY <2>1, <2>2 DEF report_layer
<1>3. /\ pc'["main"] = pc["main"] /\ pc'["waiter"] = pc["waiter"]
      /\ \A s \in Stream : pc'[s] = pc[s]
  BY <1>2, Threads
<1>4. container = "none" /\ pc["main"] \notin {"exec", "run"}
  BY <1>2 DEF Started
<1>5. Started'
  BY <1>1, <1>3, <1>4 DEF Started
<1>6. Codes'
  BY <1>1, <1>3 DEF Codes
<1> QED
  BY <1>1, <1>2, <1>4, <1>5, <1>6

\* The waiter reports the code after the container has ended.
LEMMA Waits ==
    ASSUME Typed, Started, Codes, wait_container
    PROVE  Started' /\ Codes'
<1>1. UNCHANGED <<res, container, code, printed, logged, broken, link, shutdown>>
  BY DEF wait_container, crun, pipes
<1>2. CASE /\ container = "ended" /\ UNCHANGED exit_rx
           /\ \/ Writes("waiter", "run", <<System("exited")>>, "send")
              \/ At("waiter", "run") /\ panic("waiter")
  <2>1. /\ \A t \in Thread \ {"waiter"} : pc'[t] = pc[t]
        /\ pc["waiter"] = "run" /\ pc'["waiter"] \in {"send", "halt"}
    BY <1>2, Threads, WritesFacts, GoFacts DEF At, panic
  <2>2. /\ pc'["main"] = pc["main"] /\ pc'["puller"] = pc["puller"]
        /\ \A s \in Stream : pc'[s] = pc[s]
    BY <2>1, Threads
  <2>3. Started'
    BY <1>1, <1>2, <2>1, <2>2 DEF Started
  <2>4. Codes'
    BY <1>1, <1>2, <2>1, <2>2 DEF Codes
  <2> QED
    BY <2>3, <2>4
<1>3. CASE /\ At("waiter", "send") /\ Go("waiter", "done")
           /\ exit_rx' = Append(exit_rx, ContainerExited(code))
  <2>1. /\ \A t \in Thread \ {"waiter"} : pc'[t] = pc[t]
        /\ pc["waiter"] = "send" /\ pc'["waiter"] = "done"
    BY <1>3, Threads, GoFacts DEF At
  <2>2. /\ pc'["main"] = pc["main"] /\ pc'["puller"] = pc["puller"]
        /\ \A s \in Stream : pc'[s] = pc[s]
    BY <2>1, Threads
  <2>3. Started'
    BY <1>1, <2>1, <2>2 DEF Started
  <2>4. ContainerExited(code) # GracefulShutdown /\ ContainerExited(code) \in GuestExitCode
    BY CodeFacts
  <2>5. /\ exit_rx \in Seq(GuestExitCode) /\ Len(exit_rx) \in Nat
        /\ Len(exit_rx') = Len(exit_rx) + 1 /\ exit_rx'[Len(exit_rx) + 1] = ContainerExited(code)
        /\ \A i \in 1 .. Len(exit_rx) : exit_rx'[i] = exit_rx[i]
    BY <1>3, <2>4, LenProperties, AppendProperties DEF Typed
  <2>6. \A i \in 1 .. Len(exit_rx') :
           \/ i \in 1 .. Len(exit_rx) /\ exit_rx'[i] = exit_rx[i]
           \/ exit_rx'[i] = ContainerExited(code)
    BY <2>5
  <2>7. \A i \in 1 .. Len(exit_rx') :
           \/ exit_rx'[i] = GracefulShutdown /\ shutdown = "read" /\ res # GracefulShutdown
           \/ exit_rx'[i] = ContainerExited(code)
    BY <2>6 DEF Codes
  <2>8. \A i, j \in 1 .. Len(exit_rx') :
           exit_rx'[i] = GracefulShutdown /\ exit_rx'[j] = GracefulShutdown => i = j
    BY <2>4, <2>6 DEF Codes
  <2>9. ContainerExited(code)' = ContainerExited(code)
    BY <1>1 DEF ContainerExited
  <2>10. Codes'
    BY <1>1, <2>1, <2>2, <2>7, <2>8, <2>9 DEF Codes
  <2> QED
    BY <2>3, <2>10
<1> QED
  BY <1>2, <1>3 DEF wait_container

\* What each step of main before the container does to the threads.
LEMMA EarlyFacts ==
    ASSUME Typed,
           \/ init \/ mmds_connect \/ mmds_get \/ connect \/ online \/ spawn_reader
           \/ parse_reference \/ pull_starts \/ pull_layers \/ pull_ends \/ pull_failed \/ executing
           \/ run_container /\ panic("main")
    PROVE  /\ pc["main"] \in Early /\ pc'["main"] \in Early \cup {"halt"}
           /\ pc' = [u \in Thread |-> pc'[u]]
           /\ pc'["reader"] \in {pc["reader"], "run"} /\ pc'["puller"] \in {pc["puller"], "run"}
           /\ pc'["main"] \in {"exec", "run"} =>
                 pc'["puller"] = pc["puller"] /\ (pc["puller"] = "done" \/ pc["main"] = "exec")
           /\ \A t \in Stream \cup {"waiter"} : pc'[t] = pc[t]
           /\ pc'["main"] \in Offline => pc["main"] \in Offline /\ link' = link
           /\ UNCHANGED <<res, exit_rx, code, pipes, shutdown>>
<1> USE DEF Early, Offline
<1>1. CASE \/ init \/ mmds_connect \/ mmds_get \/ connect \/ (run_container /\ panic("main"))
  <2>1. \E here \in {"init", "mmds", "config", "connect", "run"},
           there \in {"mmds", "config", "connect", "online", "halt"} :
           /\ pc["main"] = here /\ Go("main", there)
           /\ there \in Offline => here \in Offline /\ link' = link
    BY <1>1 DEF init, mmds_connect, mmds_get, connect, run_container, panic, At
  <2>2. UNCHANGED <<res, exit_rx, code, pipes, shutdown>>
    BY <1>1 DEF init, mmds_connect, mmds_get, connect, run_container, crun
  <2> QED
    BY <2>1, <2>2, Threads, GoFacts
<1>2. CASE \/ online \/ pull_starts \/ executing
  <2>1. \E here \in {"online", "pull", "exec"}, there \in {"spawn", "pulling", "run"} :
           (there = "run" => here = "exec") /\ \E ps : Writes("main", here, ps, there)
    BY <1>2 DEF online, pull_starts, executing
  <2>2. UNCHANGED <<res, exit_rx, code, pipes, shutdown>>
    BY <1>2 DEF online, pull_starts, executing, crun
  <2> QED
    BY <2>1, <2>2, Threads, WritesFacts
<1>3. CASE spawn_reader \/ pull_layers
  <2>1. UNCHANGED <<res, exit_rx, code, pipes, shutdown>>
    BY <1>3 DEF spawn_reader, pull_layers, crun
  <2>2. \/ /\ pc["main"] = "spawn"
           /\ pc' = [pc EXCEPT !["main"] = "parse", !["reader"] = "run"]
        \/ /\ pc["main"] = "pulling"
           /\ pc' = [pc EXCEPT !["main"] = "joining", !["puller"] = "run"]
        \/ /\ pc["main"] \in {"spawn", "pulling"}
           /\ \E there \in {"failed", "halt"} : Go("main", there)
    BY <1>3 DEF spawn_reader, pull_layers, write_fails, panic, At
  <2>3. CASE /\ pc["main"] \in {"spawn", "pulling"}
             /\ \E there \in {"failed", "halt"} : Go("main", there)
    BY <2>1, <2>3, Threads, GoFacts
  <2> QED
    BY <2>1, <2>2, <2>3, Threads DEF Typed
<1>4. CASE parse_reference \/ pull_ends
  <2>1. UNCHANGED <<res, exit_rx, code, pipes, shutdown>>
    BY <1>4 DEF parse_reference, pull_ends, crun
  <2>2. \E here \in {"parse", "joining"}, there \in {"pull", "failed", "exec", "halt"} :
           /\ pc["main"] = here /\ Go("main", there)
           /\ there = "exec" => pc["puller"] = "done"
    BY <1>4 DEF parse_reference, pull_ends, panic, At
  <2> QED
    BY <2>1, <2>2, Threads, GoFacts
<1>5. CASE pull_failed
  <2>1. /\ UNCHANGED <<res, exit_rx, code, pipes, shutdown>>
        /\ Writes("main", "failed", <<Exited(FailedToPull), System("reason")>>, "halt")
    BY <1>5 DEF pull_failed, crun
  <2> QED
    BY <2>1, Threads, WritesFacts
<1> QED
  BY <1>1, <1>2, <1>3, <1>4, <1>5

\* Neither crun nor the container is concerned before run_container.
LEMMA EarlyCrun ==
    ASSUME \/ init \/ mmds_connect \/ mmds_get \/ connect \/ online \/ spawn_reader
           \/ parse_reference \/ pull_starts \/ pull_layers \/ pull_ends \/ pull_failed \/ executing
           \/ run_container /\ panic("main") /\ UNCHANGED container
    PROVE  UNCHANGED crun
BY DEF init, mmds_connect, mmds_get, connect, online, spawn_reader, parse_reference,
       pull_starts, pull_layers, pull_ends, pull_failed, executing, run_container, crun

\* Every step keeps the states of the threads and the channel.
LEMMA ThreadsNext == Typed /\ Started /\ Codes /\ [Next]_vars => Started' /\ Codes'
<1> SUFFICES ASSUME Typed, Started, Codes, [Next]_vars PROVE Started' /\ Codes'
  OBVIOUS
<1>1. CASE \/ init \/ mmds_connect \/ mmds_get \/ connect \/ online \/ spawn_reader
           \/ parse_reference \/ pull_starts \/ pull_layers \/ pull_ends \/ pull_failed \/ executing
           \/ run_container /\ panic("main") /\ UNCHANGED container
  <2>1. UNCHANGED crun
    BY <1>1, EarlyCrun
  <2>2. /\ pc["main"] \in Early /\ pc'["main"] \in Early \cup {"halt"}
        /\ \A t \in Stream \cup {"waiter"} : pc'[t] = pc[t]
        /\ pc'["main"] \in Offline => pc["main"] \in Offline /\ link' = link
        /\ pc'["main"] \in {"exec", "run"} =>
              pc'["puller"] = pc["puller"] /\ (pc["puller"] = "done" \/ pc["main"] = "exec")
        /\ UNCHANGED <<res, exit_rx, pipes, shutdown>>
    BY <1>1, EarlyFacts
  <2>3. /\ pc'["main"] \in Offline => link' = "none"
        /\ pc'["main"] \in {"exec", "run"} => pc'["puller"] = "done"
    BY <2>2 DEF Started
  <2> QED
    BY <2>1, <2>2, <2>3, EarlyMain
<1>2. CASE run_container /\ ~(panic("main") /\ UNCHANGED container)
  <2>1. /\ pc["main"] = "run" /\ container' = "starting"
        /\ pc' = [pc EXCEPT !["main"] = "recv", !["stdout"] = "run",
                            !["stderr"] = "run", !["waiter"] = "run"]
        /\ UNCHANGED <<res, exit_rx, code, pipes, shutdown>>
    BY <1>2 DEF run_container, At
  <2> QED
    BY <2>1, Runs
<1>3. CASE recv \/ recv_again
  BY <1>3, Receives
<1>4. CASE log_stopping \/ kill \/ join_loggers \/ exit
  BY <1>4, LateMain
<1>5. CASE read_packet \/ report_layer \/ wait_container \/ container_ends
  BY <1>5, Reads, Pulls, Waits, Ends
<1>6. ASSUME NEW s \in Stream, pipe_to_log(s) PROVE Started' /\ Codes'
  BY <1>6, Pipes
<1>7. CASE \/ \E s \in Stream : container_prints(s)
           \/ power_off \/ container_created \/ host_sends_shutdown \/ host_closes \/ host_kills
           \/ Terminated \/ UNCHANGED vars
  <2>1. UNCHANGED <<pc, res, exit_rx, logged, broken, code>>
    BY <1>7 DEF container_prints, power_off, container_created, host_sends_shutdown, host_closes,
                host_kills, Terminated, vars, crun, pipes
  <2>2. /\ shutdown' = shutdown \/ (shutdown = "no" /\ shutdown' = "sent")
        /\ link' = link \/ (link = "up" /\ link' = "closed")
    BY <1>7 DEF container_prints, power_off, container_created, host_sends_shutdown, host_closes,
                host_kills, Terminated, vars
  <2>3. container' = container \/ (container = "starting" /\ container' = "running")
    BY <1>7 DEF container_prints, power_off, container_created, host_sends_shutdown, host_closes,
                host_kills, Terminated, vars, crun
  <2>4. \/ printed' = printed
        \/ /\ container \in {"starting", "running"}
           /\ \A s \in Stream : printed'[s] = printed[s] \/ printed'[s] = printed[s] + 1
    BY <1>7 DEF container_prints, power_off, container_created, host_sends_shutdown, host_closes,
                host_kills, Terminated, vars, pipes, Typed
  <2> QED
    BY <2>1, <2>2, <2>3, <2>4, NoThread DEF Typed
<1> QED
  BY <1>1, <1>2, <1>3, <1>4, <1>5, <1>6, <1>7 DEF Next, Main

-----------------------------------------------------------------------------
(* The wire *)

\* What may come onto the wire in one step, and from whom.
Plain == [type : {"state", "system"}, is : Word]
Silent ==
    /\ wire' = wire
    /\ \/ logged' = logged /\ (link' = "up" => link = "up" \/ pc["main"] = "connect")
       \/ /\ link' = link /\ link # "up"
          /\ \E s \in Stream, n \in Nat : n > logged[s] /\ logged' = [logged EXCEPT ![s] = n]
Speaks(ps) == link = "up" /\ wire' = wire \o ps /\ UNCHANGED <<logged, link>>
Logs(s, n) ==
    /\ link = "up" /\ link' = link /\ n > logged[s]
    /\ wire' = wire \o <<Log(s, logged[s] + 1 .. n)>> /\ logged' = [logged EXCEPT ![s] = n]
Reports ==
    /\ Speaks(<<Exited(res)>>) /\ pc["main"] = "exit" /\ pc'["main"] = "halt"
    /\ UNCHANGED <<crun, pipes>> /\ \A t \in Thread \ {"main"} : pc'[t] = pc[t]
Fails ==
    /\ Speaks(<<Exited(FailedToPull), System("reason")>>)
    /\ pc["main"] \in Early /\ pc'["main"] = "halt"
    /\ UNCHANGED <<crun, pipes>> /\ \A t \in Thread \ {"main"} : pc'[t] = pc[t]

WireStep ==
    \/ Silent
    \/ \E p \in Plain : Speaks(<<p>>)
    \/ \E p, q \in Plain : Speaks(<<p, q>>)
    \/ \E s \in Stream, n \in Nat : Logs(s, n)
    \/ Reports \/ Fails

\* Every step is of one of these kinds.
LEMMA WireKinds == Typed /\ [Next]_vars => WireStep
<1> SUFFICES ASSUME Typed, [Next]_vars PROVE WireStep
  OBVIOUS
<1>1. CASE online \/ pull_starts
  <2>1. PICK p \in Plain, q \in Plain, here \in {"online", "pull"}, there \in {"spawn", "pulling"} :
           Writes("main", here, <<p, q>>, there)
    BY <1>1 DEF online, pull_starts, Plain, Word, VmState, System
  <2>2. UNCHANGED <<logged, link>>
    BY <1>1 DEF online, pull_starts, pipes
  <2>3. \/ link = "up" /\ wire' = wire \o <<p, q>>
        \/ link # "up" /\ wire' = wire
    BY <2>1 DEF Writes, write, write_fails
  <2> QED
    BY <2>2, <2>3 DEF WireStep, Silent, Speaks
<1>2. CASE executing \/ log_stopping \/ wait_container
  <2>1. CASE wire' = wire /\ UNCHANGED <<logged, link>>
    BY <2>1 DEF WireStep, Silent
  <2>2. CASE \E t \in Thread, p \in Plain, here \in {"exec", "stopping", "run"},
                there \in {"run", "kill", "send"} : Writes(t, here, <<p>>, there)
    <3>1. UNCHANGED <<logged, link>>
      BY <1>2 DEF executing, log_stopping, wait_container, pipes
    <3>2. \E p \in Plain : \/ link = "up" /\ wire' = wire \o <<p>>
                           \/ link # "up" /\ wire' = wire
      BY <2>2, WritesFacts
    <3> QED
      BY <3>1, <3>2 DEF WireStep, Silent, Speaks
  <2>3. /\ VmState("executing") \in Plain /\ System("stopping") \in Plain
        /\ System("exited") \in Plain
    BY DEF Plain, Word, VmState, System
  <2> QED
    BY <1>2, <2>1, <2>2, <2>3, Threads DEF executing, log_stopping, wait_container, pipes
<1>3. CASE pull_layers \/ pull_failed \/ report_layer
  <2>1. UNCHANGED <<crun, pipes, link>>
    BY <1>3 DEF pull_layers, pull_failed, report_layer
  <2>2. CASE wire' = wire
    BY <2>1, <2>2 DEF WireStep, Silent, pipes
  <2>3. CASE pull_failed
    <3>1. /\ pc["main"] \in Early /\ pc'["main"] = "halt"
          /\ \A t \in Thread \ {"main"} : pc'[t] = pc[t]
          /\ \/ link = "up" /\ wire' = wire \o <<Exited(FailedToPull), System("reason")>>
             \/ link # "up" /\ wire' = wire
      BY <2>3, Threads, WritesFacts DEF pull_failed, Early
    <3> QED
      BY <2>1, <2>2, <3>1 DEF WireStep, Fails, Speaks, pipes
  <2>4. System("layers") \in Plain /\ System("layer") \in Plain
    BY DEF Plain, Word, System
  <2>5. CASE report_layer
    <3>1. \/ link = "up" /\ wire' = wire \o <<System("layer")>>
          \/ wire' = wire
      BY <2>5, Threads, WritesFacts DEF report_layer
    <3> QED
      BY <2>1, <2>2, <2>4, <3>1 DEF WireStep, Speaks, pipes
  <2>6. CASE pull_layers
    <3>1. \/ link = "up" /\ wire' = wire \o <<System("layers")>>
          \/ wire' = wire
      BY <2>6 DEF pull_layers, write, write_fails
    <3> QED
      BY <2>1, <2>2, <2>4, <3>1 DEF WireStep, Speaks, pipes
  <2> QED
    BY <1>3, <2>3, <2>5, <2>6
<1>4. CASE exit
  <2>1. UNCHANGED <<crun, pipes, link>> /\ Writes("main", "exit", <<Exited(res)>>, "halt")
    BY <1>4 DEF exit
  <2>2. /\ pc["main"] = "exit" /\ pc'["main"] = "halt"
        /\ \A t \in Thread \ {"main"} : pc'[t] = pc[t]
        /\ \/ link = "up" /\ wire' = wire \o <<Exited(res)>>
           \/ link # "up" /\ wire' = wire
    BY <2>1, Threads, WritesFacts
  <2> QED
    BY <2>1, <2>2 DEF WireStep, Reports, Silent, Speaks, pipes
<1>5. ASSUME NEW s \in Stream, pipe_to_log(s) PROVE WireStep
  <2>1. link' = link /\ logged \in [Stream -> Nat] /\ printed \in [Stream -> Nat]
    BY <1>5 DEF pipe_to_log, Typed
  <2>2. ASSUME NEW n \in logged[s] + 1 .. printed[s], logged' = [logged EXCEPT ![s] = n],
               \/ link = "up" /\ wire' = wire \o <<Log(s, logged[s] + 1 .. n)>>
               \/ link # "up" /\ wire' = wire
        PROVE  WireStep
    <3>1. n \in Nat /\ n > logged[s]
      BY <2>1
    <3> QED
      BY <2>1, <2>2, <3>1 DEF WireStep, Logs, Silent
  <2>3. CASE wire' = wire /\ logged' = logged
    BY <2>1, <2>3 DEF WireStep, Silent
  <2> QED
    BY <1>5, <2>2, <2>3, PipeFacts
<1>6. CASE \/ init \/ mmds_connect \/ mmds_get \/ connect \/ spawn_reader \/ parse_reference
           \/ pull_ends \/ run_container \/ recv \/ kill \/ recv_again \/ join_loggers
  <2>1. /\ wire' = wire /\ logged' = logged
        /\ link' = "up" => link = "up" \/ pc["main"] = "connect"
    BY <1>6 DEF init, mmds_connect, mmds_get, connect, spawn_reader, parse_reference, pull_ends,
                run_container, recv, kill, recv_again, join_loggers, pipes, At
  <2> QED
    BY <2>1 DEF WireStep, Silent
<1>7. CASE \/ read_packet \/ \E s \in Stream : container_prints(s)
           \/ power_off \/ container_created \/ container_ends
           \/ host_sends_shutdown \/ host_closes \/ host_kills \/ Terminated \/ UNCHANGED vars
  <2>1. /\ wire' = wire /\ logged' = logged
        /\ link' = "up" => link = "up"
    BY <1>7 DEF read_packet, container_prints, power_off, container_created, container_ends,
                host_sends_shutdown, host_closes, host_kills, Terminated, vars, pipes
  <2> QED
    BY <2>1 DEF WireStep, Silent
<1> QED
  BY <1>1, <1>2, <1>3, <1>4, <1>5, <1>6, <1>7 DEF Next, Main

\* The packets of a step are behind the ones that were there.
LEMMA WireGrows ==
    ASSUME Typed, NEW ps \in Seq(Packet), wire' = wire \o ps
    PROVE  /\ wire' \in Seq(Packet) /\ Len(wire) \in Nat /\ Len(wire') = Len(wire) + Len(ps)
           /\ \A j \in 1 .. Len(wire) : wire'[j] = wire[j]
           /\ \A j \in 1 .. Len(ps) : wire'[Len(wire) + j] = ps[j]
<1>1. wire \in Seq(Packet) /\ Len(wire) \in Nat /\ Len(ps) \in Nat
  BY LenProperties DEF Typed
<1>2. PICK w \in Seq(Packet) : w = wire
  BY <1>1
<1>3. /\ w \o ps \in Seq(Packet) /\ Len(w \o ps) = Len(w) + Len(ps)
      /\ \A i \in 1 .. Len(w) + Len(ps) :
            (w \o ps)[i] = IF i <= Len(w) THEN w[i] ELSE ps[i - Len(w)]
  BY ConcatProperties
<1>4. PICK x : x = w \o ps
  OBVIOUS
<1>5. /\ x \in Seq(Packet) /\ Len(x) = Len(w) + Len(ps)
      /\ \A i \in 1 .. Len(w) + Len(ps) : x[i] = IF i <= Len(w) THEN w[i] ELSE ps[i - Len(w)]
  BY <1>3, <1>4
<1>6. \A j \in 1 .. Len(w) : x[j] = w[j]
  BY <1>1, <1>2, <1>5
<1>7. ASSUME NEW j \in 1 .. Len(ps) PROVE x[Len(w) + j] = ps[j]
  <2>1. /\ Len(w) + j \in 1 .. Len(w) + Len(ps) /\ ~(Len(w) + j <= Len(w))
        /\ (Len(w) + j) - Len(w) = j
    BY <1>1, <1>2
  <2> QED
    BY <1>5, <2>1
<1>8. x = wire'
  BY <1>2, <1>4
<1> QED
  BY <1>1, <1>2, <1>5, <1>6, <1>7, <1>8

\* One packet.
LEMMA OnePacket ==
    ASSUME Typed, NEW p \in Packet, wire' = wire \o <<p>>
    PROVE  /\ wire' \in Seq(Packet) /\ Len(wire) \in Nat /\ Len(wire') = Len(wire) + 1
           /\ \A j \in 1 .. Len(wire) : wire'[j] = wire[j]
           /\ wire'[Len(wire) + 1] = p
           /\ \A j \in 1 .. Len(wire') : j \in 1 .. Len(wire) \/ j = Len(wire) + 1
<1>1. <<p>> \in Seq(Packet) /\ Len(<<p>>) = 1 /\ <<p>>[1] = p
  OBVIOUS
<1>2. PICK ps \in Seq(Packet) : ps = <<p>>
  BY <1>1
<1>3. /\ wire' \in Seq(Packet) /\ Len(wire) \in Nat /\ Len(wire') = Len(wire) + Len(ps)
      /\ \A j \in 1 .. Len(wire) : wire'[j] = wire[j]
      /\ \A j \in 1 .. Len(ps) : wire'[Len(wire) + j] = ps[j]
  BY <1>2, WireGrows
<1> QED
  BY <1>1, <1>2, <1>3

\* Two packets.
LEMMA TwoPackets ==
    ASSUME Typed, NEW p \in Packet, NEW q \in Packet, wire' = wire \o <<p, q>>
    PROVE  /\ wire' \in Seq(Packet) /\ Len(wire) \in Nat /\ Len(wire') = Len(wire) + 2
           /\ \A j \in 1 .. Len(wire) : wire'[j] = wire[j]
           /\ wire'[Len(wire) + 1] = p /\ wire'[Len(wire) + 2] = q
           /\ \A j \in 1 .. Len(wire') :
                 j \in 1 .. Len(wire) \/ j = Len(wire) + 1 \/ j = Len(wire) + 2
<1>1. <<p, q>> \in Seq(Packet) /\ Len(<<p, q>>) = 2 /\ <<p, q>>[1] = p /\ <<p, q>>[2] = q
  OBVIOUS
<1>2. PICK ps \in Seq(Packet) : ps = <<p, q>>
  BY <1>1
<1>3. /\ wire' \in Seq(Packet) /\ Len(wire) \in Nat /\ Len(wire') = Len(wire) + Len(ps)
      /\ \A j \in 1 .. Len(wire) : wire'[j] = wire[j]
      /\ \A j \in 1 .. Len(ps) : wire'[Len(wire) + j] = ps[j]
  BY <1>2, WireGrows
<1>4. 1 \in 1 .. Len(ps) /\ 2 \in 1 .. Len(ps) /\ Len(ps) = 2
  BY <1>1, <1>2
<1> QED
  BY <1>1, <1>2, <1>3, <1>4

\* Lines make a packet.
LEMMA LinesPacket ==
    ASSUME Typed, NEW s \in Stream, NEW n \in Nat
    PROVE  /\ Log(s, logged[s] + 1 .. n) \in Packet
           /\ Log(s, logged[s] + 1 .. n).type = s
           /\ Log(s, logged[s] + 1 .. n).is = logged[s] + 1 .. n
<1>1. logged[s] \in Nat
  BY DEF Typed
<1>2. logged[s] + 1 .. n \in SUBSET Nat
  BY <1>1
<1> QED
  BY <1>2 DEF Log, Packet

\* The wire stays a sequence of packets.
LEMMA WireTyped ==
    ASSUME Typed, Codes, WireStep
    PROVE  wire' \in Seq(Packet)
<1>1. CASE Silent
  BY <1>1 DEF Silent, Typed
<1>2. ASSUME NEW p \in Plain, Speaks(<<p>>) PROVE wire' \in Seq(Packet)
  BY <1>2, OnePacket DEF Speaks, Plain, Packet
<1>3. ASSUME NEW p \in Plain, NEW q \in Plain, Speaks(<<p, q>>) PROVE wire' \in Seq(Packet)
  BY <1>3, TwoPackets DEF Speaks, Plain, Packet
<1>4. ASSUME NEW s \in Stream, NEW n \in Nat, Logs(s, n) PROVE wire' \in Seq(Packet)
  <2>1. Log(s, logged[s] + 1 .. n) \in Packet
    BY LinesPacket
  <2> QED
    BY <1>4, <2>1, OnePacket DEF Logs
<1>5. CASE Reports
  <2>1. res \in GuestExitCode
    BY <1>5, CodeFacts DEF Reports, Codes
  <2>2. Exited(res) \in Packet
    BY <2>1 DEF Exited, Packet
  <2> QED
    BY <1>5, <2>2, OnePacket DEF Reports, Speaks
<1>6. CASE Fails
  <2>1. Exited(FailedToPull) \in Packet /\ System("reason") \in Packet
    BY DEF Exited, System, Packet, Word, GuestExitCode
  <2> QED
    BY <1>6, <2>1, TwoPackets DEF Fails, Speaks
<1> QED
  BY <1>1, <1>2, <1>3, <1>4, <1>5, <1>6 DEF WireStep

-----------------------------------------------------------------------------
(* Types *)

\* One thread goes from place to place.
LEMMA PlaceMoves ==
    ASSUME Typed, NEW t \in Thread, pc' = [u \in Thread |-> pc'[u]], pc'[t] \in Place(t),
           \A u \in Thread \ {t} : pc'[u] = pc[u]
    PROVE  \A u \in Thread : pc'[u] \in Place(u)
BY DEF Typed

\* Whether it writes or not.
LEMMA GoesTyped ==
    ASSUME Typed, NEW t \in Thread, NEW place \in Place(t),
           Go(t, place) \/ \E here, ps : Writes(t, here, ps, place)
    PROVE  pc' = [u \in Thread |-> pc'[u]] /\ \A u \in Thread : pc'[u] \in Place(u)
<1>1. "halt" \in Place(t)
  BY DEF Place
<1>2. /\ pc' = [u \in Thread |-> pc'[u]] /\ pc'[t] \in {place, "halt"}
      /\ \A u \in Thread \ {t} : pc'[u] = pc[u]
  <2>1. CASE Go(t, place)
    BY <2>1, GoFacts
  <2>2. ASSUME NEW here, NEW ps, Writes(t, here, ps, place)
        PROVE  /\ pc' = [u \in Thread |-> pc'[u]] /\ pc'[t] \in {place, "halt"}
               /\ \A u \in Thread \ {t} : pc'[u] = pc[u]
    BY <2>2, WritesFacts
  <2> QED
    BY <2>1, <2>2
<1> QED
  BY <1>1, <1>2, PlaceMoves

\* Places of the threads.
LEMMA Places ==
    /\ \A place \in {"stopping", "join", "kill", "recv_again", "exit", "halt"} : place \in Place("main")
    /\ \A t \in Thread \ {"main"} : \A place \in {"run", "send", "done", "halt"} : place \in Place(t)
BY DEF Place

\* Every step keeps the types.
LEMMA TypedNext == Typed /\ Started /\ Codes /\ [Next]_vars => Typed'
<1> SUFFICES ASSUME Typed, Started, Codes, [Next]_vars PROVE Typed'
  OBVIOUS
<1>1. wire' \in Seq(Packet)
  BY WireKinds, WireTyped
<1> DEFINE Rest ==
             /\ exit_rx' \in Seq(GuestExitCode) /\ res' \in GuestExitCode \cup {None}
             /\ container' \in {"none", "starting", "running", "ended"}
             /\ code' \in ExitCode \cup {None}
             /\ printed' \in [Stream -> Nat] /\ logged' \in [Stream -> Nat]
             /\ link' \in {"none", "up", "closed"} /\ shutdown' \in {"no", "sent", "read"}
           Pcs == pc' = [t \in Thread |-> pc'[t]] /\ \A t \in Thread : pc'[t] \in Place(t)
<1> SUFFICES Pcs /\ Rest
  BY <1>1 DEF Typed
<1>2. CASE \/ init \/ mmds_connect \/ mmds_get \/ connect \/ online \/ spawn_reader
           \/ parse_reference \/ pull_starts \/ pull_layers \/ pull_ends \/ pull_failed \/ executing
           \/ (run_container /\ panic("main") /\ UNCHANGED container)
  <2>1. /\ pc'["main"] \in Early \cup {"halt"} /\ pc' = [u \in Thread |-> pc'[u]]
        /\ pc'["reader"] \in {pc["reader"], "run"} /\ pc'["puller"] \in {pc["puller"], "run"}
        /\ \A t \in Stream \cup {"waiter"} : pc'[t] = pc[t]
        /\ UNCHANGED <<res, exit_rx, code, pipes, shutdown>>
    BY <1>2, EarlyFacts
  <2>2. UNCHANGED crun
    BY <1>2, EarlyCrun
  <2>3. link' \in {link, "up"}
    BY <1>2 DEF init, mmds_connect, mmds_get, connect, online, spawn_reader, parse_reference,
                pull_starts, pull_layers, pull_ends, pull_failed, executing, run_container
  <2>4. Pcs
    BY <2>1 DEF Typed, Thread, Stream, Place
  <2> QED
    BY <2>1, <2>2, <2>3, <2>4 DEF Typed, crun, pipes
<1>3. CASE run_container /\ ~(panic("main") /\ UNCHANGED container)
  <2>1. /\ container' = "starting"
        /\ pc' = [pc EXCEPT !["main"] = "recv", !["stdout"] = "run",
                            !["stderr"] = "run", !["waiter"] = "run"]
        /\ UNCHANGED <<res, exit_rx, code, pipes, shutdown, link>>
    BY <1>3 DEF run_container
  <2>2. Pcs
    BY <2>1 DEF Typed, Thread, Stream, Place
  <2> QED
    BY <2>1, <2>2 DEF Typed, pipes
<1>4. CASE recv \/ recv_again
  <2>1. /\ exit_rx # <<>> /\ res' = Head(exit_rx) /\ exit_rx' = Tail(exit_rx)
        /\ UNCHANGED <<crun, pipes, shutdown, link>>
        /\ \E there \in {"stopping", "join"} : Go("main", there)
    BY <1>4 DEF recv, recv_again
  <2>2. Pcs
    BY <2>1, Threads, Places, GoesTyped
  <2>3. res' \in GuestExitCode /\ exit_rx' \in Seq(GuestExitCode)
    BY <2>1, HeadTailProperties DEF Typed
  <2> QED
    BY <2>1, <2>2, <2>3 DEF Typed, crun, pipes
<1>5. CASE log_stopping \/ kill \/ join_loggers \/ exit
  <2>1. /\ UNCHANGED <<res, exit_rx, container, code, pipes, shutdown, link>>
        /\ \/ \E there \in {"recv_again", "exit"} : Go("main", there)
           \/ \E there \in {"kill", "halt"} : \E here, ps : Writes("main", here, ps, there)
    BY <1>5 DEF log_stopping, kill, join_loggers, exit, crun
  <2>2. Pcs
    BY <2>1, Threads, Places, GoesTyped
  <2> QED
    BY <2>1, <2>2 DEF Typed, pipes
<1>6. CASE read_packet
  <2>1. UNCHANGED <<res, crun, pipes, link>>
    BY <1>6 DEF read_packet
  <2>2. Pcs
    <3>1. UNCHANGED pc \/ Go("reader", "halt")
      BY <1>6 DEF read_packet, panic
    <3>2. Go("reader", "halt") => Pcs
      BY Threads, Places, GoesTyped
    <3>3. UNCHANGED pc => Pcs
      BY DEF Typed
    <3> QED
      BY <3>1, <3>2, <3>3
  <2>3. exit_rx' \in Seq(GuestExitCode) /\ shutdown' \in {shutdown, "read"}
    <3>1. exit_rx \in Seq(GuestExitCode)
      BY DEF Typed
    <3>2. GracefulShutdown \in GuestExitCode
      BY DEF GuestExitCode
    <3>3. Append(exit_rx, GracefulShutdown) \in Seq(GuestExitCode)
      BY <3>1, <3>2, AppendProperties
    <3>4. /\ exit_rx' = exit_rx \/ exit_rx' = Append(exit_rx, GracefulShutdown)
          /\ shutdown' = shutdown \/ shutdown' = "read"
      BY <1>6 DEF read_packet
    <3> QED
      BY <3>1, <3>3, <3>4
  <2> QED
    BY <2>1, <2>2, <2>3 DEF Typed, crun, pipes
<1>7. ASSUME NEW s \in Stream, pipe_to_log(s) PROVE Pcs /\ Rest
  <2>1. UNCHANGED <<res, exit_rx, crun, printed, link, shutdown>>
    BY <1>7 DEF pipe_to_log
  <2>2. /\ pc' = [u \in Thread |-> pc'[u]] /\ pc'[s] \in {"run", "done", "halt"}
        /\ \A t \in Thread \ {s} : pc'[t] = pc[t]
        /\ \/ logged' = logged
           \/ \E n \in logged[s] + 1 .. printed[s] : logged' = [logged EXCEPT ![s] = n]
    BY <1>7, PipeFacts
  <2>3. Pcs
    BY <2>2, Threads, Places, PlaceMoves
  <2>4. logged' \in [Stream -> Nat]
    <3>1. logged \in [Stream -> Nat] /\ printed \in [Stream -> Nat]
      BY DEF Typed
    <3>2. logged[s] + 1 .. printed[s] \subseteq Nat
      BY <3>1
    <3> QED
      BY <2>2, <3>1, <3>2
  <2> QED
    BY <2>1, <2>3, <2>4 DEF Typed, crun
<1>8. CASE wait_container
  <2>1. UNCHANGED <<res, crun, pipes, link, shutdown>>
    BY <1>8 DEF wait_container
  <2>2. /\ \/ Go("waiter", "done") \/ Go("waiter", "halt")
           \/ \E here, ps : Writes("waiter", here, ps, "send")
        /\ exit_rx' = exit_rx \/ exit_rx' = Append(exit_rx, ContainerExited(code))
    BY <1>8 DEF wait_container, panic
  <2>3. Pcs
    BY <2>2, Threads, Places, GoesTyped
  <2>4. exit_rx' \in Seq(GuestExitCode)
    <3>1. exit_rx \in Seq(GuestExitCode) /\ ContainerExited(code) \in GuestExitCode
      BY CodeFacts DEF Typed
    <3>2. Append(exit_rx, ContainerExited(code)) \in Seq(GuestExitCode)
      BY <3>1, AppendProperties
    <3> QED
      BY <2>2, <3>1, <3>2
  <2> QED
    BY <2>1, <2>3, <2>4 DEF Typed, crun, pipes
<1>9. CASE \/ \E s \in Stream : container_prints(s)
           \/ power_off \/ container_created \/ container_ends
           \/ host_sends_shutdown \/ host_closes \/ host_kills \/ Terminated \/ UNCHANGED vars
  <2>1. UNCHANGED <<pc, res, exit_rx, logged>>
    BY <1>9 DEF container_prints, power_off, container_created, container_ends,
                host_sends_shutdown, host_closes, host_kills, Terminated, vars, pipes
  <2>2. /\ shutdown' \in {shutdown, "sent"} /\ link' \in {link, "closed"}
        /\ container' \in {container, "running", "ended"} /\ code' \in ExitCode \cup {None, code}
    BY <1>9 DEF container_prints, power_off, container_created, container_ends,
                host_sends_shutdown, host_closes, host_kills, Terminated, vars, crun
  <2>3. printed' = printed \/ \E s \in Stream : printed' = [printed EXCEPT ![s] = @ + 1]
    BY <1>9 DEF container_prints, power_off, container_created, container_ends,
                host_sends_shutdown, host_closes, host_kills, Terminated, vars, pipes
  <2>4. printed' \in [Stream -> Nat]
    <3>1. printed \in [Stream -> Nat]
      BY DEF Typed
    <3> QED
      BY <2>3, <3>1
  <2> QED
    BY <2>1, <2>2, <2>4 DEF Typed
<1>10. CASE report_layer
  <2>1. /\ pc' = [u \in Thread |-> pc'[u]] /\ pc'["puller"] \in {"run", "done", "halt"}
        /\ \A t \in Thread \ {"puller"} : pc'[t] = pc[t]
        /\ UNCHANGED <<res, exit_rx, crun, pipes, shutdown, link>>
    BY <1>10, Pulls
  <2>2. Pcs
    BY <2>1, Threads, Places, PlaceMoves
  <2> QED
    BY <2>1, <2>2 DEF Typed, crun, pipes
<1> QED
  BY <1>2, <1>3, <1>4, <1>5, <1>6, <1>7, <1>8, <1>9, <1>10 DEF Next, Main

-----------------------------------------------------------------------------
(* The wire *)

\* Once an Exited packet is on the wire only the workers of a failed pull, the
\* reader, the host and the reboot still have steps.
LEMMA Frozen ==
    ASSUME Typed, Started, Reported, [Next]_vars, NEW i \in 1 .. Len(wire), ExitAt(i),
           ~report_layer
    PROVE  /\ UNCHANGED <<wire, container, code, printed, logged>>
           /\ \A t \in Thread \ {"reader"} : pc'[t] = pc[t]
<1>1. /\ pc["main"] = "halt" /\ pc["waiter"] \notin {"run", "send"} /\ container \in {"none", "ended"}
      /\ \A s \in Stream : pc[s] # "run"
  BY DEF Reported, Started
<1>2. ~Main
  BY <1>1 DEF Main, At, Writes, init, mmds_connect, mmds_get, connect, online, spawn_reader,
       parse_reference, pull_starts, pull_layers, pull_ends, pull_failed, executing, run_container,
       recv, log_stopping, kill, recv_again, join_loggers, exit
<1>3. ~wait_container /\ \A s \in Stream : ~pipe_to_log(s) /\ ~container_prints(s)
  BY <1>1 DEF wait_container, At, Writes, pipe_to_log, container_prints
<1>4. ~container_created /\ ~container_ends
  BY <1>1 DEF container_created, container_ends
<1>5. CASE read_packet
  <2>1. UNCHANGED <<wire, container, code, printed, logged>>
    BY <1>5 DEF read_packet, crun, pipes
  <2>2. CASE UNCHANGED pc
    BY <2>1, <2>2
  <2>3. CASE panic("reader")
    BY <2>1, <2>3, GoFacts, Threads DEF panic
  <2> QED BY <1>5, <2>2, <2>3 DEF read_packet
<1>6. CASE power_off \/ host_sends_shutdown \/ host_closes \/ host_kills \/ UNCHANGED vars
  BY <1>6 DEF power_off, host_sends_shutdown, host_closes, host_kills, vars, crun, pipes
<1> QED BY <1>2, <1>3, <1>4, <1>5, <1>6 DEF Next, Terminated

\* Packets that are not lines leave the lines as they are.
LEMMA OtherPackets ==
    ASSUME Lines, link = "up", logged' = logged, Len(wire) \in Nat, Len(wire') \in Nat,
           Len(wire) <= Len(wire'), \A j \in 1 .. Len(wire) : wire'[j] = wire[j],
           \A j \in 1 .. Len(wire') : j \in 1 .. Len(wire) \/ wire'[j].type \notin Stream
    PROVE  Lines'
<1> SUFFICES ASSUME NEW s \in Stream
             PROVE  /\ \A j \in 1 .. Len(wire') :
                          wire'[j].type = s => wire'[j].is \subseteq 1 .. logged[s]
                    /\ \A n \in 1 .. logged[s] :
                          \E j \in 1 .. Len(wire') : wire'[j].type = s /\ n \in wire'[j].is
                    /\ \A j, k \in 1 .. Len(wire') :
                          wire'[j].type = s /\ wire'[k].type = s /\ j < k =>
                              \A m \in wire'[j].is, n \in wire'[k].is : m < n
  BY DEF Lines
<1>1. ASSUME NEW j \in 1 .. Len(wire'), wire'[j].type = s
      PROVE  j \in 1 .. Len(wire) /\ wire'[j] = wire[j]
  BY <1>1
<1>2. \A j \in 1 .. Len(wire') : wire'[j].type = s => wire'[j].is \subseteq 1 .. logged[s]
  BY <1>1 DEF Lines
<1>3. ASSUME NEW n \in 1 .. logged[s]
      PROVE  \E j \in 1 .. Len(wire') : wire'[j].type = s /\ n \in wire'[j].is
  <2>1. PICK j \in 1 .. Len(wire) : wire[j].type = s /\ n \in wire[j].is
    BY DEF Lines
  <2>2. j \in 1 .. Len(wire') /\ wire'[j] = wire[j]
    OBVIOUS
  <2> QED BY <2>1, <2>2
<1>4. ASSUME NEW j \in 1 .. Len(wire'), NEW k \in 1 .. Len(wire'),
             wire'[j].type = s, wire'[k].type = s, j < k
      PROVE  \A m \in wire'[j].is, n \in wire'[k].is : m < n
  <2>1. /\ j \in 1 .. Len(wire) /\ wire'[j] = wire[j]
        /\ k \in 1 .. Len(wire) /\ wire'[k] = wire[k]
    BY <1>1, <1>4
  <2> QED BY <1>4, <2>1 DEF Lines
<1> QED BY <1>2, <1>3, <1>4

\* So an exit stays reported as it was.
LEMMA StaysReported ==
    ASSUME Typed, Started, Codes, Reported, Lines, [Next]_vars,
           NEW i \in 1 .. Len(wire), ExitAt(i)
    PROVE  Reported' /\ Lines'
<1>1. CASE ~report_layer
  <2>1. /\ UNCHANGED <<wire, container, code, printed, logged>>
        /\ pc'["main"] = pc["main"] /\ pc'["waiter"] = pc["waiter"]
        /\ \A s \in Stream : pc'[s] = pc[s]
    BY <1>1, Frozen, Threads
  <2>2. \A j : ExitAt(j)' <=> ExitAt(j)
    BY <2>1 DEF ExitAt
  <2>3. Reported'
    BY <2>1, <2>2 DEF Reported, ContainerExited, IsSystem
  <2>4. Lines'
    BY <2>1, <2>2 DEF Lines
  <2> QED BY <2>3, <2>4
<1>2. CASE report_layer
  <2>1. /\ container = "none" /\ \A t \in Thread \ {"puller"} : pc'[t] = pc[t]
        /\ UNCHANGED <<container, code, logged, link>>
        /\ \/ link = "up" /\ wire' = wire \o <<System("layer")>>
           \/ wire' = wire
    BY <1>2, Pulls DEF crun, pipes
  <2>2. pc'["main"] = pc["main"]
    BY <2>1, Threads
  <2>3. CASE wire' = wire
    <3>1. \A j : ExitAt(j)' <=> ExitAt(j)
      BY <2>3 DEF ExitAt
    <3>2. Reported'
      BY <2>1, <2>2, <2>3, <3>1 DEF Reported, IsSystem
    <3>3. Lines'
      BY <2>1, <2>3, <3>1 DEF Lines
    <3> QED BY <3>2, <3>3
  <2>4. CASE link = "up" /\ wire' = wire \o <<System("layer")>>
    <3>1. System("layer") \in Packet /\ System("layer").type = "system" /\ System("layer").is = "layer"
      BY DEF System, Packet, Word
    <3>2. /\ Len(wire) \in Nat /\ Len(wire') = Len(wire) + 1
          /\ \A j \in 1 .. Len(wire) : wire'[j] = wire[j]
          /\ wire'[Len(wire) + 1] = System("layer")
          /\ \A j \in 1 .. Len(wire') : j \in 1 .. Len(wire) \/ j = Len(wire) + 1
      BY <2>4, <3>1, OnePacket
    <3>3. ASSUME NEW j \in 1 .. Len(wire'), wire'[j].type = "exited"
          PROVE  /\ pc'["main"] = "halt" /\ wire'[j].is = FailedToPull /\ container' = "none"
                 /\ j < Len(wire') /\ wire'[j + 1].type = "system" /\ wire'[j + 1].is = "reason"
                 /\ \A k \in j + 2 .. Len(wire') :
                       wire'[k].type = "system" /\ wire'[k].is = "layer"
      <4>1. j \in 1 .. Len(wire) /\ wire'[j] = wire[j] /\ ExitAt(j)
        BY <3>1, <3>2, <3>3 DEF ExitAt
      <4>2. /\ pc["main"] = "halt" /\ wire[j].is = FailedToPull /\ j < Len(wire)
            /\ wire[j + 1].type = "system" /\ wire[j + 1].is = "reason"
            /\ \A k \in j + 2 .. Len(wire) : wire[k].type = "system" /\ wire[k].is = "layer"
        BY <2>1, <4>1 DEF Reported, IsSystem
      <4>3. j + 1 \in 1 .. Len(wire) /\ wire'[j + 1] = wire[j + 1]
        BY <3>2, <4>1, <4>2
      <4>4. ASSUME NEW k \in j + 2 .. Len(wire')
            PROVE  wire'[k].type = "system" /\ wire'[k].is = "layer"
        <5>1. k \in 1 .. Len(wire')
          BY <3>2, <4>1
        <5>2. CASE k = Len(wire) + 1
          BY <3>1, <3>2, <5>2
        <5>3. CASE k \in 1 .. Len(wire)
          BY <3>2, <4>1, <4>2, <5>3
        <5> QED BY <3>2, <5>1, <5>2, <5>3
      <4> QED BY <2>1, <2>2, <3>2, <4>1, <4>2, <4>3, <4>4
    <3>4. Reported'
      BY <3>3 DEF Reported, ExitAt, IsSystem, FailedToPull, Exit
    <3>5. System("layer").type \notin Stream
      BY <3>1 DEF Stream
    <3>6. Lines'
      BY <2>1, <2>4, <3>2, <3>5, OtherPackets
    <3> QED BY <3>4, <3>6
  <2> QED BY <2>1, <2>3, <2>4
<1> QED BY <1>1, <1>2

\* No Exited packet is on the wire.
Quiet == \A j \in 1 .. Len(wire) : wire[j].type # "exited"

\* Steps that put no Exited packet there.
LEMMA StaysQuiet ==
    ASSUME Typed, Quiet,
           \/ Silent \/ (\E p \in Plain : Speaks(<<p>>)) \/ (\E p, q \in Plain : Speaks(<<p, q>>))
           \/ \E s \in Stream, n \in Nat : Logs(s, n)
    PROVE  Quiet'
<1>1. CASE Silent
  BY <1>1 DEF Silent, Quiet
<1>2. ASSUME NEW p \in Packet, p.type # "exited", wire' = wire \o <<p>> PROVE Quiet'
  <2>1. ASSUME NEW j \in 1 .. Len(wire') PROVE wire'[j].type # "exited"
    BY <1>2, OnePacket DEF Quiet
  <2> QED BY <2>1 DEF Quiet
<1>3. ASSUME NEW p \in Packet, NEW q \in Packet, p.type # "exited", q.type # "exited",
             wire' = wire \o <<p, q>>
      PROVE  Quiet'
  <2>1. ASSUME NEW j \in 1 .. Len(wire') PROVE wire'[j].type # "exited"
    BY <1>3, TwoPackets DEF Quiet
  <2> QED BY <2>1 DEF Quiet
<1>4. \A p \in Plain : p \in Packet /\ p.type # "exited"
  BY DEF Plain, Packet
<1>5. ASSUME NEW s \in Stream, NEW n \in Nat, Logs(s, n) PROVE Quiet'
  <2>1. Log(s, logged[s] + 1 .. n) \in Packet /\ Log(s, logged[s] + 1 .. n).type # "exited"
    BY LinesPacket DEF Stream
  <2> QED BY <1>2, <1>5, <2>1 DEF Logs
<1> QED BY <1>1, <1>2, <1>3, <1>4, <1>5 DEF Speaks

\* The exit that main reports is the container's, and nobody is left to write.
LEMMA ReportsExit ==
    ASSUME Typed, Started, Codes, Quiet, Reports
    PROVE  Reported'
<1>1. /\ wire' = wire \o <<Exited(res)>> /\ pc'["main"] = "halt" /\ pc["main"] = "exit"
      /\ UNCHANGED <<container, code>> /\ pc'["waiter"] = pc["waiter"]
      /\ \A s \in Stream : pc'[s] = pc[s]
  BY Threads DEF Reports, Speaks, crun
<1>2. /\ res = ContainerExited(code) /\ pc["waiter"] = "done" /\ \A s \in Stream : pc[s] = "done"
      /\ container = "ended"
  BY <1>1 DEF Codes, Started
<1>3. res \in GuestExitCode /\ Exited(res) \in Packet /\ Exited(res).is = res
  BY <1>2, CodeFacts DEF Exited, Packet
<1>4. ContainerExited(code)' = ContainerExited(code)
  BY <1>1 DEF ContainerExited
<1>5. ASSUME NEW j \in 1 .. Len(wire'), wire'[j].type = "exited"
      PROVE  j = Len(wire') /\ wire'[j].is = ContainerExited(code)'
  BY <1>1, <1>2, <1>3, <1>4, <1>5, OnePacket DEF Quiet
<1> QED BY <1>1, <1>2, <1>5 DEF Reported, ExitAt

\* A pull that failed is reported before there is a container.
LEMMA FailsExit ==
    ASSUME Typed, Started, Quiet, Fails
    PROVE  Reported'
<1>1. /\ wire' = wire \o <<Exited(FailedToPull), System("reason")>> /\ pc'["main"] = "halt"
      /\ container' = container /\ container = "none"
  BY DEF Fails, Speaks, crun, Started
<1>2. /\ Exited(FailedToPull) \in Packet /\ System("reason") \in Packet
      /\ Exited(FailedToPull).is = FailedToPull
      /\ System("reason").type = "system" /\ System("reason").is = "reason"
  BY DEF Exited, System, Packet, Word, GuestExitCode
<1>3. /\ Len(wire) \in Nat /\ Len(wire') = Len(wire) + 2
      /\ \A j \in 1 .. Len(wire) : wire'[j] = wire[j]
      /\ wire'[Len(wire) + 1] = Exited(FailedToPull) /\ wire'[Len(wire) + 2] = System("reason")
      /\ \A j \in 1 .. Len(wire') :
            j \in 1 .. Len(wire) \/ j = Len(wire) + 1 \/ j = Len(wire) + 2
  BY <1>1, <1>2, TwoPackets
<1>4. ASSUME NEW j \in 1 .. Len(wire'), wire'[j].type = "exited"
      PROVE  /\ wire'[j].is = FailedToPull /\ j < Len(wire')
             /\ wire'[j + 1].type = "system" /\ wire'[j + 1].is = "reason"
             /\ \A k \in j + 2 .. Len(wire') : FALSE
  <2>1. j = Len(wire) + 1
    BY <1>2, <1>3, <1>4 DEF Quiet
  <2>2. j + 1 = Len(wire) + 2 /\ j < Len(wire') /\ \A k \in j + 2 .. Len(wire') : FALSE
    BY <1>3, <2>1
  <2> QED BY <1>2, <1>3, <2>1, <2>2
<1> QED BY <1>1, <1>4 DEF Reported, ExitAt, IsSystem, FailedToPull, Exit

\* Every step keeps the reports.
LEMMA ReportedNext ==
    Typed /\ Started /\ Codes /\ Reported /\ Lines /\ [Next]_vars => Reported'
<1> SUFFICES ASSUME Typed, Started, Codes, Reported, Lines, [Next]_vars PROVE Reported'
  OBVIOUS
<1>1. CASE ~Quiet
  BY <1>1, StaysReported DEF Quiet, ExitAt
<1>2. CASE Quiet
  <2>1. WireStep
    BY WireKinds
  <2>2. Quiet' => Reported'
    BY DEF Quiet, Reported, ExitAt
  <2> QED BY <1>2, <2>1, <2>2, StaysQuiet, ReportsExit, FailsExit DEF WireStep
<1> QED BY <1>1, <1>2

\* The lines that a logger wrote are the next ones.
LEMMA NextLines ==
    ASSUME Typed, Lines, NEW s \in Stream, NEW n \in Nat, Logs(s, n)
    PROVE  Lines'
<1>1. /\ link = "up" /\ logged' = [logged EXCEPT ![s] = n] /\ logged \in [Stream -> Nat]
      /\ wire' = wire \o <<Log(s, logged[s] + 1 .. n)>> /\ n > logged[s]
  BY DEF Logs, Typed
<1>2. PICK p : p = Log(s, logged[s] + 1 .. n)
  OBVIOUS
<1>3. p \in Packet /\ p.type = s /\ p.is = logged[s] + 1 .. n
  BY <1>2, LinesPacket
<1>4. /\ Len(wire) \in Nat /\ Len(wire') = Len(wire) + 1
      /\ \A j \in 1 .. Len(wire) : wire'[j] = wire[j]
      /\ wire'[Len(wire) + 1] = p
      /\ \A j \in 1 .. Len(wire') : j \in 1 .. Len(wire) \/ j = Len(wire) + 1
  BY <1>1, <1>2, <1>3, OnePacket
<1>5. \A j \in 1 .. Len(wire) + 1 : j \in 1 .. Len(wire')
  BY <1>4
<1>6. logged'[s] = n /\ logged[s] \in Nat /\ \A u \in Stream \ {s} : logged'[u] = logged[u]
  BY <1>1
<1>7. ASSUME NEW u \in Stream
      PROVE  /\ \A j \in 1 .. Len(wire') :
                   wire'[j].type = u => wire'[j].is \subseteq 1 .. logged'[u]
             /\ \A k \in 1 .. logged'[u] :
                   \E j \in 1 .. Len(wire') : wire'[j].type = u /\ k \in wire'[j].is
             /\ \A j, k \in 1 .. Len(wire') : wire'[j].type = u /\ wire'[k].type = u /\ j < k =>
                   \A a \in wire'[j].is, b \in wire'[k].is : a < b
  <2>1. /\ \A j \in 1 .. Len(wire) : wire[j].type = u => wire[j].is \subseteq 1 .. logged[u]
        /\ \A k \in 1 .. logged[u] :
              \E j \in 1 .. Len(wire) : wire[j].type = u /\ k \in wire[j].is
        /\ \A j, k \in 1 .. Len(wire) : wire[j].type = u /\ wire[k].type = u /\ j < k =>
              \A a \in wire[j].is, b \in wire[k].is : a < b
    BY <1>1 DEF Lines
  <2>2. 1 .. logged[u] \subseteq 1 .. logged'[u] /\ logged[s] + 1 .. n \subseteq 1 .. n
    BY <1>1, <1>6
  <2>3. ASSUME NEW j \in 1 .. Len(wire'), wire'[j].type = u
        PROVE  wire'[j].is \subseteq 1 .. logged'[u]
    <3>1. CASE j \in 1 .. Len(wire)
      BY <1>4, <2>1, <2>2, <2>3, <3>1
    <3>2. CASE j = Len(wire) + 1
      BY <1>3, <1>4, <1>6, <2>2, <2>3, <3>2
    <3> QED BY <1>4, <3>1, <3>2
  <2>4. ASSUME NEW k \in 1 .. logged'[u]
        PROVE  \E j \in 1 .. Len(wire') : wire'[j].type = u /\ k \in wire'[j].is
    <3>1. CASE k \in 1 .. logged[u]
      <4>1. PICK j \in 1 .. Len(wire) : wire[j].type = u /\ k \in wire[j].is
        BY <2>1, <3>1
      <4>2. j \in 1 .. Len(wire') /\ wire'[j] = wire[j]
        BY <1>4, <4>1
      <4> QED BY <4>1, <4>2
    <3>2. CASE k \notin 1 .. logged[u]
      <4>1. u = s
        BY <1>6, <3>2
      <4>2. k \in logged[s] + 1 .. n
        BY <1>6, <3>2, <4>1
      <4>3. wire'[Len(wire) + 1] = p /\ Len(wire) + 1 \in 1 .. Len(wire')
        BY <1>4, <1>5
      <4> QED BY <1>3, <4>1, <4>2, <4>3
    <3> QED BY <3>1, <3>2
  <2>5. ASSUME NEW j \in 1 .. Len(wire'), NEW k \in 1 .. Len(wire'),
               wire'[j].type = u, wire'[k].type = u, j < k
        PROVE  \A a \in wire'[j].is, b \in wire'[k].is : a < b
    <3>1. j \in 1 .. Len(wire) /\ wire'[j] = wire[j]
      BY <1>4, <2>5
    <3>2. CASE k \in 1 .. Len(wire)
      <4>1. wire'[k] = wire[k]
        BY <1>4, <3>2
      <4> QED BY <2>1, <2>5, <3>1, <3>2, <4>1
    <3>3. CASE k = Len(wire) + 1
      <4>1. wire'[k] = p /\ u = s
        BY <1>3, <1>4, <2>5, <3>3
      <4>2. wire'[j].is \subseteq 1 .. logged[s] /\ wire'[k].is = logged[s] + 1 .. n
        BY <1>3, <2>1, <2>5, <3>1, <4>1
      <4> QED BY <1>6, <4>2
    <3> QED BY <1>4, <3>2, <3>3
  <2> QED BY <2>3, <2>4, <2>5
<1> QED BY <1>7 DEF Lines

\* A silent step leaves the lines: what a logger takes without a listener is
\* lost, and the host starts to listen before there is a line.
LEMMA SilentLines ==
    ASSUME Typed, Started, Lines, Quiet, Silent
    PROVE  Lines'
<1>1. wire' = wire /\ logged \in [Stream -> Nat]
  BY DEF Silent, Typed
<1>2. ASSUME NEW i \in 1 .. Len(wire) PROVE ~ExitAt(i)'
  BY <1>1 DEF Quiet, ExitAt
<1>3. CASE logged' = logged /\ (link' = "up" => link = "up" \/ pc["main"] = "connect")
  <2>1. CASE link' = "up" => link = "up"
    BY <1>1, <1>2, <1>3, <2>1 DEF Lines
  <2>2. CASE pc["main"] = "connect"
    <3>1. \A s \in Stream : logged'[s] = 0
      BY <1>3, <2>2 DEF Started, Early, Offline
    <3>2. \A s \in Stream : \A n \in 1 .. logged'[s] : FALSE
      BY <3>1
    <3> QED BY <1>1, <1>3, <3>2 DEF Lines
  <2> QED BY <1>3, <2>1, <2>2
<1>4. CASE /\ link' = link /\ link # "up"
           /\ \E s \in Stream, n \in Nat : n > logged[s] /\ logged' = [logged EXCEPT ![s] = n]
  <2>1. \A s \in Stream : 1 .. logged[s] \subseteq 1 .. logged'[s]
    BY <1>1, <1>4
  <2> QED BY <1>1, <1>2, <1>4, <2>1 DEF Lines
<1> QED BY <1>3, <1>4 DEF Silent

\* Every step keeps the lines.
LEMMA LinesNext ==
    Typed /\ Started /\ Codes /\ Reported /\ Lines /\ [Next]_vars => Lines'
<1> SUFFICES ASSUME Typed, Started, Codes, Reported, Lines, [Next]_vars PROVE Lines'
  OBVIOUS
<1>1. CASE ~Quiet
  BY <1>1, StaysReported DEF Quiet, ExitAt
<1>2. CASE Quiet
  <2>1. WireStep
    BY WireKinds
  <2>2. ASSUME NEW p \in Packet, p.type \notin Stream, Speaks(<<p>>) PROVE Lines'
    <3>1. /\ Len(wire) \in Nat /\ Len(wire') = Len(wire) + 1
          /\ \A j \in 1 .. Len(wire) : wire'[j] = wire[j]
          /\ \A j \in 1 .. Len(wire') : j \in 1 .. Len(wire) \/ wire'[j] = p
      BY <2>2, OnePacket DEF Speaks
    <3> QED BY <2>2, <3>1, OtherPackets DEF Speaks
  <2>3. ASSUME NEW p \in Packet, NEW q \in Packet, p.type \notin Stream, q.type \notin Stream,
               Speaks(<<p, q>>)
        PROVE  Lines'
    <3>1. /\ Len(wire) \in Nat /\ Len(wire') = Len(wire) + 2
          /\ \A j \in 1 .. Len(wire) : wire'[j] = wire[j]
          /\ \A j \in 1 .. Len(wire') : j \in 1 .. Len(wire) \/ wire'[j] = p \/ wire'[j] = q
      BY <2>3, TwoPackets DEF Speaks
    <3> QED BY <2>3, <3>1, OtherPackets DEF Speaks
  <2>4. \A p \in Plain : p \in Packet /\ p.type \notin Stream
    BY DEF Plain, Packet, Stream
  <2>5. CASE Reports
    <3>1. res \in GuestExitCode
      BY <2>5, CodeFacts DEF Reports, Codes
    <3>2. Exited(res) \in Packet /\ Exited(res).type \notin Stream
      BY <3>1 DEF Exited, Packet, Stream
    <3> QED BY <2>2, <2>5, <3>2 DEF Reports
  <2>6. CASE Fails
    <3>1. /\ Exited(FailedToPull) \in Packet /\ Exited(FailedToPull).type \notin Stream
          /\ System("reason") \in Packet /\ System("reason").type \notin Stream
      BY DEF Exited, System, Packet, Word, GuestExitCode, Stream
    <3> QED BY <2>3, <2>6, <3>1 DEF Fails
  <2> QED BY <1>2, <2>1, <2>2, <2>3, <2>4, <2>5, <2>6, SilentLines, NextLines DEF WireStep
<1> QED BY <1>1, <1>2

-----------------------------------------------------------------------------
(* Theorems *)

\* The invariant holds at the start.
LEMMA InitInv == Init => Inv
<1> SUFFICES ASSUME Init PROVE Inv
  OBVIOUS
<1>1. wire = <<>> /\ Len(wire) = 0 /\ exit_rx = <<>> /\ Len(exit_rx) = 0
  BY DEF Init
<1>2. pc["main"] = "init" /\ \A t \in Thread \ {"main"} : pc[t] = "none"
  BY Threads DEF Init
<1>3. Typed
  BY <1>1, <1>2 DEF Init, Typed, Place, Early, Offline
<1>4. Started
  BY <1>2, Threads DEF Init, Started, Early, Offline
<1>5. res # GracefulShutdown
  BY ResAssumption DEF Init, GuestExitCode
<1>6. Codes
  BY <1>1, <1>2, <1>5 DEF Codes
<1>7. Reported /\ Lines
  BY <1>1 DEF Reported, Lines, ExitAt, Init
<1> QED BY <1>3, <1>4, <1>6, <1>7 DEF Inv

\* And every step keeps it.
LEMMA NextInv == Inv /\ [Next]_vars => Inv'
BY TypedNext, ThreadsNext, ReportedNext, LinesNext DEF Inv

\* The invariant of the threads, their channel and the wire.
THEOREM Invariance == Spec => []Inv
BY InitInv, NextInv, PTL DEF Spec

\* main joins both loggers before exit: when the host learns of the container's
\* exit it has the lines of each pipe in order, and all of them unless a read of
\* this pipe failed.
THEOREM OutputSafety == Spec => []OutputBeforeExit
<1>1. Inv => OutputBeforeExit
  <2> SUFFICES ASSUME Inv, NEW i \in 1 .. Len(wire), ExitAt(i), wire[i].is.kind = "container",
                      NEW s \in Stream
               PROVE  /\ InOrder(s, i)
                      /\ s \notin broken => \A n \in 1 .. printed[s] :
                            \E j \in 1 .. i : wire[j].type = s /\ n \in wire[j].is
    BY DEF OutputBeforeExit
  <2>1. wire[i].is # FailedToPull
    BY DEF FailedToPull, Exit
  <2>2. i = Len(wire) /\ container = "ended" /\ pc[s] = "done"
    BY <2>1 DEF Inv, Reported
  <2>3. s \notin broken => logged[s] = printed[s]
    BY <2>2 DEF Inv, Started
  <2>4. 1 .. logged[s] \subseteq 1 .. printed[s]
    BY DEF Inv, Typed, Started
  <2>5. Lines
    BY DEF Inv
  <2>6. InOrder(s, i)
    BY <2>2, <2>4, <2>5 DEF Lines, InOrder
  <2> QED BY <2>2, <2>3, <2>5, <2>6 DEF Lines
<1> QED BY <1>1, Invariance, PTL

\* What exit reports is how the container ended, or a failed pull without one.
THEOREM ExitSafety == Spec => []ExitFaithful
<1>1. Inv => ExitFaithful
  BY DEF Inv, Reported, ExitFaithful, ContainerExited, Exit
<1> QED BY <1>1, Invariance, PTL

\* Nothing follows the exit of a container; a failed pull is followed by its
\* reason and by the progress of workers that go on.
THEOREM LastSafety == Spec => []ExitedIsLast
<1>1. Inv => ExitedIsLast
  <2> SUFFICES ASSUME Inv, NEW i \in 1 .. Len(wire), ExitAt(i)
               PROVE  \/ wire[i].is # FailedToPull /\ i = Len(wire)
                      \/ /\ wire[i].is = FailedToPull
                         /\ i < Len(wire) /\ IsSystem(i + 1, "reason")
                         /\ \A j \in i + 2 .. Len(wire) : IsSystem(j, "layer")
    BY DEF ExitedIsLast
  <2>1. ContainerExited(code) # FailedToPull
    BY DEF ContainerExited, FailedToPull, Exit
  <2> QED BY <2>1 DEF Inv, Reported
<1> QED BY <1>1, Invariance, PTL
=============================================================================
