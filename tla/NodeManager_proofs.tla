------------------------- MODULE NodeManager_proofs --------------------------
(***************************************************************************)
(* Proofs about NodeManager, for every set of machines and handlers, every *)
(* bound and everything Networking may do.                                 *)
(***************************************************************************)
EXTENDS NodeManager, FiniteSetTheorems, TLAPS

-----------------------------------------------------------------------------
(* The inductive invariant: tasks, locks and the map *)

\* Where a task has the write lock.
Writing == {"stack", "nat", "spawn", "socket", "config", "accept",
            "drop", "net", "comm", "join", "kill"}
HoldsMachines == {"nat", "spawn", "socket", "config", "accept",
                  "net", "comm", "join", "kill", "drop"}

Places == {"idle", "finished", "lock", "stack", "nat", "spawn", "socket", "config", "accept",
           "drop", "net", "comm", "join", "kill", "reading", "wait", "notify"}
Operations == {"none", "provision", "deprovision", "drain", "publish", "read", "cleanup"}
TaskRecord == [pc : Places, op : Operations, m : Machine \cup {NoMachine},
               rest : SUBSET Machine, graceful : BOOLEAN]

\* TypeOK without the part of Networking.
LocalType ==
    /\ machines \subseteq Machine
    /\ mwriter \in Task \cup {NoTask} /\ netlock \in Task \cup {NoTask}
    /\ mreaders \subseteq Rpc /\ waiting \in Seq(Task)
    /\ vm \in [Machine -> {"none", "spawned", "running", "dead"}]
    /\ jail \subseteq Machine
    /\ comm \in [Machine -> {"none", "open", "stopped"}]
    /\ listening \in BOOLEAN /\ events \in Seq(Machine) /\ Len(events) <= SubCap
    /\ task \in [Task -> TaskRecord]
    /\ up \in BOOLEAN /\ faults \in Nat

\* Which task does what, where it can be, and the machines it names.
Shape(t) ==
    LET k == task[t] IN
    \/ /\ k.op = "none" /\ k.pc \in {"idle", "finished"}
       /\ k.m = NoMachine /\ k.rest = {}
       /\ k.pc = "finished" => t = Ctrl
    \/ /\ k.op = "provision" /\ t \in Rpc /\ k.m \in Machine /\ k.rest = {}
       /\ k.pc \in {"lock", "stack", "nat", "spawn", "socket", "config", "accept", "drop"}
    \/ /\ k.op = "deprovision" /\ t \in Rpc /\ k.m \in Machine /\ k.rest = {}
       /\ k.pc \in {"lock", "net", "comm", "join", "kill", "drop"}
    \/ /\ k.op = "cleanup" /\ t \in Machine /\ k.m = t /\ k.rest = {}
       /\ k.pc \in {"wait", "notify", "lock", "net", "comm", "join", "kill"}
    \/ /\ k.op = "drain" /\ t \in Rpc \cup {Ctrl}
       /\ \/ k.pc \in {"lock", "net"} /\ k.m = NoMachine /\ k.rest = {}
          \/ /\ k.pc \in {"comm", "join", "kill", "drop"}
             /\ k.m \in Machine /\ k.m \notin k.rest
    \/ /\ k.op = "publish" /\ t \in Rpc /\ k.m \in Machine /\ k.rest = {}
       /\ k.pc \in {"lock", "reading"}
    \/ /\ k.op = "read" /\ t \in Rpc /\ k.m = NoMachine /\ k.rest = {}
       /\ k.pc \in {"lock", "reading"}

\* The guards a task has are the ones its place says.
Guards(t) ==
    /\ mwriter = t <=> task[t].pc \in Writing
    /\ t \in mreaders <=> task[t].pc = "reading"

\* A machine that is being built has no packet handler yet; any other machine a
\* task names has, or had, one.
Knows(t) ==
    /\ task[t].op = "provision" => comm[task[t].m] = "none"
    /\ task[t].op # "provision" =>
          /\ task[t].m # NoMachine => comm[task[t].m] # "none"
          /\ \A n \in task[t].rest : comm[n] # "none"

\* How far the process of a machine that is being built can be.
BuildStage(t) ==
    task[t].op = "provision" =>
        /\ task[t].pc \in {"lock", "stack", "nat", "spawn"} => vm[task[t].m] = "none"
        /\ task[t].pc \in {"socket", "config"} =>
              task[t].m \in jail /\ vm[task[t].m] \in {"spawned", "dead"}
        /\ task[t].pc = "accept" => task[t].m \in jail /\ vm[task[t].m] \in {"running", "dead"}

\* A drain takes all there is, and what is dropped had a failure before.
Takes(t) ==
    /\ task[t].op = "drain" /\ task[t].pc \in {"comm", "join", "kill", "drop"} => machines = {}
    /\ task[t].pc = "drop" => faults > 0

TaskInv(t) == Shape(t) /\ Guards(t) /\ Knows(t) /\ BuildStage(t) /\ Takes(t)

Locks ==
    /\ mwriter # NoTask => mreaders = {}
    /\ netlock # NoTask => mwriter = netlock

\* No two requests build the same machine.
SoleBuilder ==
    \A t, u \in Task :
        task[t].op = "provision" /\ task[u].op = "provision" /\ t # u => task[t].m # task[u].m

\* OneHolder, machine by machine.
Ownership ==
    up => /\ \A m \in machines, t \in Task : m \notin Held(t)
          /\ \A m \in Machine : m \in live <=> (m \in machines \/ \E t \in Task : m \in Held(t))

\* A packet handler has a process, or had one.
Started == \A m \in Machine : comm[m] # "none" => vm[m] # "none"

\* Nothing is left of the tasks when the process has ended.
Down == ~up => machines = {} /\ \A t \in Task : task[t] = Idle

Inv ==
    /\ LocalType /\ (\A t \in Task : TaskInv(t))
    /\ Locks /\ SoleBuilder /\ MapServed /\ Ownership /\ Started /\ Down

-----------------------------------------------------------------------------
(* Lemmas about tasks and locks *)

\* The queue stays a queue of tasks when one leaves it.
LEMMA WithoutType ==
    ASSUME waiting \in Seq(Task), NEW t
    PROVE  Without(t) \in Seq(Task)
<1>1. CASE \E i \in DOMAIN waiting : waiting[i] = t
  <2> DEFINE i == CHOOSE j \in DOMAIN waiting : waiting[j] = t
  <2>1. i \in 1 .. Len(waiting)
    BY <1>1
  <2>2. Without(t) = SubSeq(waiting, 1, i - 1) \o SubSeq(waiting, i + 1, Len(waiting))
    BY <1>1 DEF Without
  <2> HIDE DEF i
  <2>3. SubSeq(waiting, 1, i - 1) \in Seq(Task) /\ SubSeq(waiting, i + 1, Len(waiting)) \in Seq(Task)
    BY <2>1
  <2> QED
    BY <2>2, <2>3
<1>2. CASE ~\E i \in DOMAIN waiting : waiting[i] = t
  BY <1>2 DEF Without
<1> QED
  BY <1>1, <1>2

\* Going to another place changes the place of one task only.
LEMMA GotoFacts ==
    ASSUME LocalType, NEW t \in Task, NEW pc \in Places, Goto(t, pc)
    PROVE  /\ task' \in [Task -> TaskRecord]
           /\ task'[t].pc = pc /\ task'[t].op = task[t].op /\ task'[t].m = task[t].m
           /\ task'[t].rest = task[t].rest
           /\ \A u \in Task \ {t} : task'[u] = task[u]
BY DEF LocalType, Goto, TaskRecord

\* A task that has finished names no machine.
LEMMA FinishFacts ==
    ASSUME LocalType, NEW t \in Task, Finish(t)
    PROVE  /\ task' \in [Task -> TaskRecord]
           /\ task'[t].op = "none" /\ task'[t].m = NoMachine /\ task'[t].rest = {}
           /\ task'[t].pc \in {"idle", "finished"}
           /\ task'[t].pc = "finished" => t = Ctrl
           /\ \A u \in Task \ {t} : task'[u] = task[u]
<1>1. Ended(t) \in TaskRecord
  BY DEF Ended, Idle, TaskRecord, Places, Operations
<1>2. task' = [task EXCEPT ![t] = Ended(t)]
  BY DEF Finish
<1>3. task' \in [Task -> TaskRecord] /\ task'[t] = Ended(t)
      /\ \A u \in Task \ {t} : task'[u] = task[u]
  BY <1>1, <1>2 DEF LocalType
<1> QED
  BY <1>3 DEF Ended, Idle

\* Release takes the locks from one task only.
LEMMA ReleaseFacts ==
    ASSUME LocalType, NEW t \in Task, Release(t)
    PROVE  /\ mwriter' \in Task \cup {NoTask} /\ mwriter' # t
           /\ mwriter' \in {mwriter, NoTask} /\ (mwriter # t => mwriter' = mwriter)
           /\ netlock' \in Task \cup {NoTask} /\ netlock' # t
           /\ netlock' \in {netlock, NoTask} /\ (netlock # t => netlock' = netlock)
           /\ mreaders' = mreaders \ {t} /\ mreaders' \subseteq Rpc
           /\ waiting' \in Seq(Task)
<1>1. waiting' \in Seq(Task)
  BY WithoutType DEF LocalType, Release
<1> QED
  BY <1>1, TasksAssumption DEF LocalType, Release

\* The machines a task holds, by its place.
LEMMA HeldFacts ==
    ASSUME NEW t \in Task
    PROVE  /\ task[t].pc \in HoldsMachines =>
                 Held(t) = ({task[t].m} \ {NoMachine}) \cup task[t].rest
           /\ task[t].pc \notin HoldsMachines => Held(t) = {}
BY DEF Held, HoldsMachines

\* Only a task with the write lock holds machines.
LEMMA HoldersWrite ==
    ASSUME Inv, NEW t \in Task, mwriter # t
    PROVE  Held(t) = {} /\ task[t].pc \notin Writing
<1>1. task[t].pc \notin Writing
  BY DEF Inv, TaskInv, Guards
<1> QED
  BY <1>1 DEF Held, Writing

-----------------------------------------------------------------------------
(* What a step of one task leaves to the others *)

Others(t) ==
    \A u \in Task \ {t} :
        /\ task'[u] = task[u]
        /\ mwriter' = u <=> mwriter = u
        /\ u \in mreaders' <=> u \in mreaders

\* Only machines in the task's hands change, and none enters the map.
Gentle(t) ==
    /\ \A m \in Machine \ Held(t) : vm'[m] = vm[m] /\ (m \in jail' <=> m \in jail)
    /\ \A m \in Machine : vm'[m] = "none" => vm[m] = "none"
    /\ comm' = comm
    /\ faults <= faults' /\ machines' \subseteq machines

\* A machine that is being built is in no other task's hands and not in the map.
LEMMA Apart ==
    ASSUME Inv, NEW t \in Task, NEW u \in Task, t # u, task[u].op = "provision"
    PROVE  task[u].m \in Machine /\ task[u].m \notin Held(t) /\ task[u].m \notin machines
<1>1. task[u].m \in Machine /\ comm[task[u].m] = "none"
  BY DEF Inv, TaskInv, Shape, Knows
<1>2. task[u].m \notin machines
  BY <1>1 DEF Inv, MapServed
<1>3. CASE task[t].op = "provision"
  <2>1. task[t].m # task[u].m
    BY <1>3 DEF Inv, SoleBuilder
  <2>2. task[t].rest = {}
    BY <1>3 DEF Inv, TaskInv, Shape
  <2> QED
    BY <1>1, <1>2, <2>1, <2>2, HeldFacts
<1>4. CASE task[t].op # "provision"
  <2>1. /\ task[t].m # NoMachine => comm[task[t].m] # "none"
        /\ \A n \in task[t].rest : comm[n] # "none"
    BY <1>4 DEF Inv, TaskInv, Knows
  <2> QED
    BY <1>1, <1>2, <2>1, HeldFacts
<1> QED
  BY <1>3, <1>4

\* A step of t keeps what is known of the other tasks.
LEMMA OthersInv ==
    ASSUME Inv, NEW t \in Task, Others(t), Gentle(t), NEW u \in Task, u # t,
           faults \in Nat, faults' \in Nat
    PROVE  TaskInv(u)'
<1>1. /\ task'[u] = task[u] /\ (mwriter' = u <=> mwriter = u)
      /\ u \in mreaders' <=> u \in mreaders
  BY DEF Others
<1>2. TaskInv(u)
  BY DEF Inv
<1>3. Shape(u)' /\ Guards(u)'
  BY <1>1, <1>2 DEF TaskInv, Shape, Guards
<1>4. Takes(u)'
  BY <1>1, <1>2 DEF TaskInv, Takes, Gentle
<1>5. Knows(u)' /\ BuildStage(u)'
  <2>1. CASE task[u].op = "provision"
    <3>1. task[u].m \in Machine \ Held(t)
      BY <2>1, Apart
    <3>2. /\ vm'[task[u].m] = vm[task[u].m] /\ comm'[task[u].m] = comm[task[u].m]
          /\ task[u].m \in jail' <=> task[u].m \in jail
      BY <3>1 DEF Gentle
    <3> QED
      BY <1>1, <1>2, <2>1, <3>2 DEF TaskInv, Knows, BuildStage
  <2>2. CASE task[u].op # "provision"
    <3>1. task[u].m \in Machine \cup {NoMachine} /\ task[u].rest \subseteq Machine
      BY DEF Inv, LocalType, TaskRecord
    <3> QED
      BY <1>1, <1>2, <2>2, <3>1 DEF TaskInv, Knows, BuildStage, Gentle
  <2> QED
    BY <2>1, <2>2
<1> QED
  BY <1>3, <1>4, <1>5 DEF TaskInv

\* Where a machine in the map has its cleanup task.
Serves(m) ==
    /\ task[m].op = "cleanup" /\ task[m].pc \in {"wait", "notify", "lock"}
    /\ task[m].pc = "wait" \/ comm[m] = "stopped"

\* A step of one task keeps the invariant if it keeps what concerns that task.
LEMMA TaskStepInv ==
    ASSUME Inv, up, up', NEW t \in Task, Others(t), Gentle(t),
           LocalType', Locks', TaskInv(t)', Ownership',
           \A u \in Task \ {t} :
               task[u].op = "provision" /\ task'[t].op = "provision" => task[u].m # task'[t].m,
           t \in machines' => Serves(t)'
    PROVE  Inv'
<1>1. faults \in Nat /\ faults' \in Nat
  BY DEF Inv, LocalType
<1>2. \A u \in Task : TaskInv(u)'
  BY <1>1, OthersInv
<1>3. SoleBuilder'
  <2> SUFFICES ASSUME NEW u \in Task, NEW v \in Task, u # v,
                      task'[u].op = "provision", task'[v].op = "provision"
               PROVE  task'[u].m # task'[v].m
    BY DEF SoleBuilder
  <2>1. CASE u # t /\ v # t
    BY <2>1 DEF Inv, SoleBuilder, Others
  <2>2. CASE u = t \/ v = t
    BY <2>2 DEF Others
  <2> QED
    BY <2>1, <2>2
<1>4. MapServed'
  <2> SUFFICES ASSUME NEW m \in machines'
               PROVE  /\ m \in jail' /\ vm'[m] \in {"running", "dead"} /\ comm'[m] # "none"
                      /\ Serves(m)'
    BY DEF MapServed, Serves
  <2>1. m \in machines /\ m \in Machine /\ m \notin Held(t)
    BY DEF Gentle, Inv, LocalType, Ownership
  <2>2. vm'[m] = vm[m] /\ comm'[m] = comm[m] /\ (m \in jail' <=> m \in jail)
    BY <2>1 DEF Gentle
  <2>3. m # t => task'[m] = task[m]
    BY <2>1 DEF Others, Task
  <2> QED
    BY <2>1, <2>2, <2>3 DEF Inv, MapServed, Serves
<1> QED
  BY <1>2, <1>3, <1>4 DEF Inv, Down, Started, Gentle

\* Nothing changes hands.
LEMMA OwnershipKept ==
    ASSUME Inv, NEW t \in Task, Others(t), machines' = machines, live' = live, up' = up,
           Held(t)' = Held(t)
    PROVE  Ownership'
<1>1. \A u \in Task : Held(u)' = Held(u)
  BY DEF Others, Held
<1> QED
  BY <1>1 DEF Inv, Ownership

\* Whoever has the write lock, or can get it, shares the stacks with the map only.
LEMMA WriterOwns ==
    ASSUME Inv, up, NEW t \in Task, mwriter \in {t, NoTask}
    PROVE  /\ \A u \in Task \ {t} : Held(u) = {}
           /\ \A m \in machines : m \notin Held(t)
           /\ \A m \in Machine : m \in live <=> (m \in machines \/ m \in Held(t))
<1>1. \A u \in Task \ {t} : Held(u) = {}
  BY HoldersWrite, TasksAssumption
<1> QED
  BY <1>1 DEF Inv, Ownership

\* The same after a step.
LEMMA WriterKeeps ==
    ASSUME Inv, up, NEW t \in Task, mwriter \in {t, NoTask}, Others(t),
           \A m \in machines' : m \notin Held(t)',
           \A m \in Machine : m \in live' <=> (m \in machines' \/ m \in Held(t)')
    PROVE  Ownership'
<1>1. \A u \in Task \ {t} : Held(u)' = {}
  BY WriterOwns DEF Others, Held
<1> QED
  BY <1>1 DEF Ownership

-----------------------------------------------------------------------------
(* Requests *)

\* A request keeps the invariant, whatever it asks for.
LEMMA RequestInv ==
    ASSUME Inv, NEW t \in Rpc \cup {Ctrl}, NEW op \in Operations \ {"none", "cleanup"},
           NEW m \in Machine \cup {NoMachine}, NEW graceful \in BOOLEAN,
           Request(t, op, m, graceful),
           op # "drain" => t \in Rpc,
           op \in {"provision", "deprovision", "publish"} => m \in Machine,
           op \in {"drain", "read"} => m = NoMachine,
           op \in {"deprovision", "publish"} => Known(m),
           op = "provision" => Fresh(m)
    PROVE  Inv'
<1> DEFINE k == [pc |-> "lock", op |-> op, m |-> m, rest |-> {}, graceful |-> graceful]
<1>1. t \in Task /\ t \notin Machine
  BY TasksAssumption DEF Task
<1>2. k \in TaskRecord
  BY DEF TaskRecord, Places
<1>3. task' = [task EXCEPT ![t] = k]
  BY DEF Request
<1>4. /\ task' \in [Task -> TaskRecord] /\ task'[t] = k
      /\ \A u \in Task \ {t} : task'[u] = task[u]
  BY <1>1, <1>2, <1>3 DEF Inv, LocalType
<1>5. /\ up /\ up' /\ UNCHANGED <<net, machines, vm, jail, comm, listening, events, faults>>
      /\ UNCHANGED <<mwriter, mreaders, netlock>> /\ waiting' = Append(waiting, t)
      /\ task[t] = Idle
  BY DEF Request, Enqueue, host, subs
<1>6. task[t].pc = "idle"
  BY <1>5 DEF Idle
<1>7. Others(t) /\ Gentle(t)
  BY <1>4, <1>5 DEF Others, Gentle, Inv, LocalType
<1>8. LocalType'
  <2>1. waiting' \in Seq(Task)
    BY <1>1, <1>5 DEF Inv, LocalType
  <2> QED
    BY <1>4, <1>5, <2>1 DEF Inv, LocalType
<1>9. Locks'
  BY <1>5 DEF Inv, Locks
<1>10. TaskInv(t)'
  <2>1. Shape(t)'
    BY <1>4 DEF Shape, Operations
  <2>2. Guards(t)'
    BY <1>1, <1>4, <1>5, <1>6 DEF Inv, TaskInv, Guards, Writing
  <2>3. op = "provision" => comm[m] = "none" /\ vm[m] = "none"
    BY DEF Inv, Started, Fresh
  <2>4. Knows(t)' /\ BuildStage(t)'
    BY <1>4, <1>5, <2>3, TasksAssumption DEF Operations, Knows, BuildStage, Known
  <2>5. Takes(t)'
    BY <1>4 DEF Takes
  <2> QED
    BY <2>1, <2>2, <2>4, <2>5 DEF TaskInv
<1>11. Ownership'
  <2>1. Held(t) = {} /\ Held(t)' = {}
    BY <1>4, <1>6 DEF Held
  <2> QED
    BY <1>1, <1>5, <1>7, <2>1, OwnershipKept DEF net
<1>12. \A u \in Task \ {t} : task'[t].op = "provision" => task[u].m # task'[t].m
  BY <1>4 DEF Fresh
<1> QED
  BY <1>1, <1>5, <1>7, <1>8, <1>9, <1>10, <1>11, <1>12, TaskStepInv DEF Inv, LocalType

-----------------------------------------------------------------------------
(* The ways a task goes on *)

\* What a task step leaves of the right type when it changes no lock.
HostType ==
    /\ vm' \in [Machine -> {"none", "spawned", "running", "dead"}]
    /\ jail' \subseteq Machine /\ faults' \in Nat
    /\ UNCHANGED <<comm, listening, events, up>>

\* A task with the write lock moves to another place with the same machines.
LEMMA MoveInv ==
    ASSUME Inv, up, NEW t \in Task, NEW pc \in HoldsMachines, task[t].pc \in HoldsMachines,
           Goto(t, pc), UNCHANGED <<machines, live, mwriter, mreaders, waiting>>,
           netlock' \in {netlock, t}, HostType, Gentle(t), Shape(t)', BuildStage(t)',
           pc = "drop" => faults' > 0
    PROVE  Inv'
<1>1. pc \in Places /\ pc \in Writing /\ pc # "reading" /\ task[t].pc \in Writing
  BY DEF HoldsMachines, Places, Writing
<1>2. /\ task' \in [Task -> TaskRecord]
      /\ task'[t].pc = pc /\ task'[t].op = task[t].op /\ task'[t].m = task[t].m
      /\ task'[t].rest = task[t].rest
      /\ \A u \in Task \ {t} : task'[u] = task[u]
  BY <1>1, GotoFacts DEF Inv
<1>3. mwriter = t /\ mwriter' = t /\ mreaders = {} /\ t # NoTask
  BY <1>1, TasksAssumption DEF Inv, TaskInv, Guards, Locks
<1>4. LocalType' /\ Locks'
  BY <1>2, <1>3 DEF Inv, LocalType, Locks, HostType
<1>5. Others(t)
  BY <1>2 DEF Others
<1>6. TaskInv(t)'
  <2>1. Guards(t)'
    BY <1>1, <1>2, <1>3 DEF Guards
  <2>2. Knows(t)'
    BY <1>2 DEF Inv, TaskInv, Knows, HostType
  <2>3. Takes(t)'
    <3>1. CASE task[t].op = "drain" /\ pc \in {"comm", "join", "kill", "drop"}
      <4>1. task[t].pc \in {"comm", "join", "kill", "drop"}
        BY <1>2, <3>1, TasksAssumption DEF Inv, TaskInv, Shape
      <4> QED
        BY <1>2, <3>1, <4>1 DEF Inv, TaskInv, Takes
    <3> QED
      BY <1>2, <3>1 DEF Takes
  <2> QED
    BY <2>1, <2>2, <2>3 DEF TaskInv
<1>7. Ownership'
  <2>1. Held(t)' = Held(t)
    BY <1>2 DEF Held, HoldsMachines
  <2> QED
    BY <1>5, <2>1, OwnershipKept DEF HostType
<1>8. t \notin machines'
  BY <1>1 DEF Inv, MapServed, Writing
<1>9. \A u \in Task \ {t} :
          task[u].op = "provision" /\ task'[t].op = "provision" => task[u].m # task'[t].m
  BY <1>2 DEF Inv, SoleBuilder
<1> QED
  BY <1>4, <1>5, <1>6, <1>7, <1>8, <1>9, TaskStepInv DEF HostType

\* A task ends, with its guards and the machines in its hands.
LEMMA EndInv ==
    ASSUME Inv, up, NEW t \in Task, t \notin machines, Release(t), Finish(t), HostType,
           Gentle(t), machines' = machines,
           \A m \in Machine : m \in live' <=> m \in live \ Held(t)
    PROVE  Inv'
<1>1. /\ task' \in [Task -> TaskRecord]
      /\ task'[t].op = "none" /\ task'[t].m = NoMachine /\ task'[t].rest = {}
      /\ task'[t].pc \in {"idle", "finished"}
      /\ task'[t].pc = "finished" => t = Ctrl
      /\ \A u \in Task \ {t} : task'[u] = task[u]
  BY FinishFacts DEF Inv
<1>2. /\ mwriter' \in Task \cup {NoTask} /\ mwriter' # t
      /\ mwriter' \in {mwriter, NoTask} /\ (mwriter # t => mwriter' = mwriter)
      /\ netlock' \in Task \cup {NoTask} /\ netlock' # t
      /\ netlock' \in {netlock, NoTask} /\ (netlock # t => netlock' = netlock)
      /\ mreaders' = mreaders \ {t} /\ mreaders' \subseteq Rpc
      /\ waiting' \in Seq(Task)
  BY ReleaseFacts DEF Inv
<1>3. LocalType'
  BY <1>1, <1>2 DEF Inv, LocalType, HostType
<1>4. Locks'
  BY <1>2 DEF Inv, Locks
<1>5. Others(t)
  BY <1>1, <1>2, TasksAssumption DEF Others
<1>6. TaskInv(t)'
  <2>1. Shape(t)' /\ Guards(t)'
    BY <1>1, <1>2 DEF Shape, Guards, Writing
  <2>2. Knows(t)' /\ BuildStage(t)' /\ Takes(t)'
    BY <1>1 DEF Knows, BuildStage, Takes
  <2> QED
    BY <2>1, <2>2 DEF TaskInv
<1>7. Held(t)' = {}
  BY <1>1 DEF Held
<1>8. Ownership'
  <2>1. CASE Held(t) = {}
    <3>1. \A u \in Task : Held(u)' = Held(u)
      BY <1>5, <1>7, <2>1 DEF Others, Held
    <3> QED
      BY <2>1, <3>1 DEF Inv, Ownership, HostType
  <2>2. CASE Held(t) # {}
    <3>1. mwriter = t
      BY <2>2, HoldersWrite
    <3> QED
      BY <1>5, <1>7, <3>1, WriterOwns, WriterKeeps
  <2> QED
    BY <2>1, <2>2
<1> QED
  BY <1>1, <1>3, <1>4, <1>5, <1>6, <1>8, TaskStepInv DEF HostType

\* A task gets the write lock and takes machines out of the map.
LEMMA GrabInv ==
    ASSUME Inv, up, NEW t \in Task, NEW pc \in {"stack", "net"}, task[t].pc = "lock",
           AcquireWrite(t), Goto(t, pc), HostType, Gentle(t), live' = live,
           \A m \in Machine : m \in machines <=> (m \in machines' \/ m \in Held(t)'),
           \A m \in machines' : m \notin Held(t)', t \notin machines', Shape(t)',
           pc = "stack" <=> task[t].op = "provision"
    PROVE  Inv'
<1>1. pc \in Places /\ pc \in Writing
  BY DEF Places, Writing
<1>2. /\ task' \in [Task -> TaskRecord]
      /\ task'[t].pc = pc /\ task'[t].op = task[t].op /\ task'[t].m = task[t].m
      /\ task'[t].rest = task[t].rest
      /\ \A u \in Task \ {t} : task'[u] = task[u]
  BY <1>1, GotoFacts DEF Inv
<1>3. /\ mwriter = NoTask /\ mwriter' = t /\ mreaders = {} /\ mreaders' = {}
      /\ netlock' = netlock /\ waiting # <<>> /\ waiting' = Tail(waiting)
  BY DEF AcquireWrite, IsNext
<1>4. LocalType'
  <2>1. waiting' \in Seq(Task)
    BY <1>3 DEF Inv, LocalType
  <2> QED
    BY <1>2, <1>3, <2>1 DEF Inv, LocalType, HostType, Gentle
<1>5. Locks'
  BY <1>3 DEF Inv, Locks
<1>6. Others(t)
  BY <1>2, <1>3, TasksAssumption DEF Others
<1>7. TaskInv(t)'
  <2>1. Guards(t)'
    BY <1>1, <1>2, <1>3 DEF Guards
  <2>2. Knows(t)'
    BY <1>2 DEF Inv, TaskInv, Knows, HostType
  <2>3. BuildStage(t)'
    <3>1. CASE task[t].op = "provision"
      <4>1. vm[task[t].m] = "none" /\ task[t].m \in Machine /\ Held(t) = {}
        BY <3>1 DEF Inv, TaskInv, BuildStage, Shape, Held
      <4>2. vm'[task[t].m] = "none"
        BY <4>1 DEF Gentle
      <4> QED
        BY <1>2, <3>1, <4>2 DEF BuildStage
    <3> QED
      BY <1>2, <3>1 DEF BuildStage
  <2>4. Takes(t)'
    BY <1>2 DEF Takes
  <2> QED
    BY <2>1, <2>2, <2>3, <2>4 DEF TaskInv
<1>8. Ownership'
  <2>1. Held(t) = {}
    BY DEF Held
  <2> QED
    BY <1>3, <1>6, <2>1, WriterOwns, WriterKeeps
<1>9. \A u \in Task \ {t} :
          task[u].op = "provision" /\ task'[t].op = "provision" => task[u].m # task'[t].m
  BY <1>2 DEF Inv, SoleBuilder
<1> QED
  BY <1>4, <1>5, <1>6, <1>7, <1>8, <1>9, TaskStepInv DEF HostType

-----------------------------------------------------------------------------
(* provision *)

\* A task that provisions, at a place of its own.
LEMMA ProvisionShape ==
    ASSUME Inv, NEW t \in Task, task[t].op = "provision"
    PROVE  /\ t \in Rpc /\ task[t].m \in Machine /\ task[t].rest = {}
           /\ task[t].pc \in HoldsMachines => Held(t) = {task[t].m}
           /\ task[t].pc \notin HoldsMachines => Held(t) = {}
<1>1. t \in Rpc /\ task[t].m \in Machine /\ task[t].rest = {}
  BY DEF Inv, TaskInv, Shape
<1> QED
  BY <1>1, HeldFacts, TasksAssumption

\* provision takes the write guard of the list, or is refused its id and leaves.
LEMMA ProvisionLockInv ==
    ASSUME Inv, NEW t \in Task, provision_lock(t)
    PROVE  Inv'
<1>1. /\ up /\ task[t].pc = "lock" /\ task[t].op = "provision"
      /\ AcquireWrite(t) /\ Goto(t, "stack")
      /\ UNCHANGED <<net, machines, host, subs, up, faults>>
  BY DEF provision_lock, At
<1>2. HostType /\ Gentle(t) /\ live' = live /\ machines' = machines
  BY <1>1 DEF HostType, Gentle, host, subs, net, Inv, LocalType
<1>3. /\ task'[t].pc = "stack" /\ task'[t].op = "provision" /\ task'[t].m = task[t].m
      /\ task'[t].rest = task[t].rest
  BY <1>1, GotoFacts DEF Inv, Places
<1>4. Held(t)' = {} /\ Shape(t)'
  BY <1>1, <1>3, ProvisionShape DEF Held, Shape
<1>5. t \notin machines
  BY <1>1 DEF Inv, MapServed
<1> QED
  BY <1>1, <1>2, <1>4, <1>5, GrabInv

\* The moves of a provision between two places with the write lock.
LEMMA ProvisionMoves ==
    ASSUME Inv, up, NEW t \in Task, task[t].op = "provision", task[t].pc \in HoldsMachines,
           NEW pc \in {"spawn", "socket", "config", "accept", "drop"}, Goto(t, pc),
           UNCHANGED <<machines, live, locks>>, HostType, faults <= faults',
           \A m \in Machine \ {task[t].m} : vm'[m] = vm[m] /\ (m \in jail' <=> m \in jail),
           vm'[task[t].m] = "none" => vm[task[t].m] = "none",
           pc = "spawn" => vm'[task[t].m] = "none",
           pc \in {"socket", "config"} =>
               task[t].m \in jail' /\ vm'[task[t].m] \in {"spawned", "dead"},
           pc = "accept" => task[t].m \in jail' /\ vm'[task[t].m] \in {"running", "dead"},
           pc = "drop" => faults' > 0
    PROVE  Inv'
<1>1. pc \in HoldsMachines /\ pc \in Places
  BY DEF HoldsMachines, Places
<1>2. /\ task'[t].pc = pc /\ task'[t].op = task[t].op /\ task'[t].m = task[t].m
      /\ task'[t].rest = task[t].rest
  BY <1>1, GotoFacts DEF Inv
<1>3. Shape(t)' /\ BuildStage(t)'
  BY <1>2, ProvisionShape DEF Shape, BuildStage
<1>4. Gentle(t)
  BY ProvisionShape DEF Gentle, HostType
<1> QED
  BY <1>1, <1>3, <1>4, MoveInv DEF locks

\* setup_public_nat with the lock of the NetworkManager still held.
LEMMA SetupNatInv ==
    ASSUME Inv, NEW t \in Task, setup_public_nat(t)
    PROVE  Inv'
<1>1. /\ up /\ task[t].pc = "nat" /\ task[t].op = "provision"
      /\ \/ Goto(t, "spawn") /\ UNCHANGED faults
         \/ Goto(t, "drop") /\ faults' = faults + 1
      /\ UNCHANGED <<machines, locks, host, subs, up>>
  BY DEF setup_public_nat, At, Fault
<1>2. live' = live
  BY DEF setup_public_nat, Net!setup_public_nat, Net!AddRules
<1>3. task[t].m \in Machine /\ vm[task[t].m] = "none" /\ task[t].pc \in HoldsMachines
  BY <1>1 DEF Inv, TaskInv, Shape, BuildStage, HoldsMachines
<1>4. HostType /\ faults <= faults' /\ faults \in Nat
  BY <1>1 DEF HostType, host, subs, Inv, LocalType
<1> QED
  BY <1>1, <1>2, <1>3, <1>4, ProvisionMoves DEF host

\* Spawning the VM process of a machine under construction.
LEMMA SpawnInv ==
    ASSUME Inv, NEW t \in Task, spawn(t)
    PROVE  Inv'
<1> DEFINE m == task[t].m
<1>1. /\ up /\ task[t].pc = "spawn" /\ task[t].op = "provision"
      /\ UNCHANGED <<net, machines, locks, comm, subs, up>>
      /\ \/ /\ jail' = jail \cup {m} /\ vm' = [vm EXCEPT ![m] = "spawned"]
            /\ Goto(t, "socket") /\ UNCHANGED faults
         \/ /\ jail' \in {jail, jail \cup {m}} /\ UNCHANGED vm
            /\ Goto(t, "drop") /\ faults' = faults + 1
  BY DEF spawn, At, Fault
<1>2. m \in Machine /\ task[t].pc \in HoldsMachines
  BY <1>1 DEF Inv, TaskInv, Shape, HoldsMachines
<1>3. /\ vm' \in [Machine -> {"none", "spawned", "running", "dead"}]
      /\ \A n \in Machine \ {m} : vm'[n] = vm[n] /\ (n \in jail' <=> n \in jail)
      /\ vm'[m] = "none" => vm[m] = "none"
  BY <1>1, <1>2 DEF Inv, LocalType
<1>4. HostType /\ faults <= faults' /\ faults \in Nat
  BY <1>1, <1>2, <1>3 DEF HostType, subs, Inv, LocalType
<1>5. CASE Goto(t, "socket") /\ jail' = jail \cup {m} /\ vm' = [vm EXCEPT ![m] = "spawned"]
  <2>1. m \in jail' /\ vm'[m] = "spawned"
    BY <1>2, <1>5 DEF Inv, LocalType
  <2> QED
    BY <1>1, <1>2, <1>3, <1>4, <1>5, <2>1, ProvisionMoves DEF net
<1>6. CASE Goto(t, "drop") /\ faults' = faults + 1
  BY <1>1, <1>2, <1>3, <1>4, <1>6, ProvisionMoves DEF net
<1> QED
  BY <1>1, <1>5, <1>6

\* Connecting to the API socket, or giving the machine up.
LEMMA ConnectInv ==
    ASSUME Inv, NEW t \in Task, connect_api(t)
    PROVE  Inv'
<1>1. /\ up /\ task[t].pc = "socket" /\ task[t].op = "provision"
      /\ \/ Goto(t, "config") /\ UNCHANGED faults
         \/ Goto(t, "drop") /\ faults' = faults + 1
      /\ UNCHANGED <<net, machines, locks, host, subs, up>>
  BY DEF connect_api, At, Fault
<1>2. /\ task[t].m \in Machine /\ task[t].pc \in HoldsMachines
      /\ task[t].m \in jail /\ vm[task[t].m] \in {"spawned", "dead"}
  BY <1>1 DEF Inv, TaskInv, Shape, BuildStage, HoldsMachines
<1>3. HostType /\ faults <= faults' /\ faults \in Nat /\ vm' = vm /\ jail' = jail
  BY <1>1 DEF HostType, host, subs, Inv, LocalType
<1> QED
  BY <1>1, <1>2, <1>3, ProvisionMoves DEF net

\* Configuring and starting the VM.
LEMMA StartInv ==
    ASSUME Inv, NEW t \in Task, start_vm(t)
    PROVE  Inv'
<1> DEFINE m == task[t].m
<1>1. /\ up /\ task[t].pc = "config" /\ task[t].op = "provision"
      /\ UNCHANGED <<net, machines, locks, jail, comm, subs, up>>
      /\ \/ vm' = [vm EXCEPT ![m] = "running"] /\ Goto(t, "accept") /\ UNCHANGED faults
         \/ /\ vm' = vm \/ vm' = [vm EXCEPT ![m] = "running"]
            /\ Goto(t, "drop") /\ faults' = faults + 1
  BY DEF start_vm, At, Fault
<1>2. m \in Machine /\ task[t].pc \in HoldsMachines /\ m \in jail
  BY <1>1 DEF Inv, TaskInv, Shape, BuildStage, HoldsMachines
<1>3. /\ vm' \in [Machine -> {"none", "spawned", "running", "dead"}]
      /\ \A n \in Machine \ {m} : vm'[n] = vm[n]
      /\ vm'[m] = "none" => vm[m] = "none"
  BY <1>1, <1>2 DEF Inv, LocalType
<1>4. HostType /\ faults <= faults' /\ faults \in Nat
  BY <1>1, <1>3 DEF HostType, subs, Inv, LocalType
<1>5. CASE Goto(t, "accept") /\ vm' = [vm EXCEPT ![m] = "running"]
  <2>1. m \in jail' /\ vm'[m] = "running"
    BY <1>1, <1>2, <1>5 DEF Inv, LocalType
  <2> QED
    BY <1>1, <1>2, <1>3, <1>4, <1>5, <2>1, ProvisionMoves DEF net
<1>6. CASE Goto(t, "drop") /\ faults' = faults + 1
  BY <1>1, <1>2, <1>3, <1>4, <1>6, ProvisionMoves DEF net
<1> QED
  BY <1>1, <1>5, <1>6

\* No guest connects in time: the machine goes to drop.
LEMMA AcceptTimeoutInv ==
    ASSUME Inv, NEW t \in Task, accept_timeout(t)
    PROVE  Inv'
<1>1. /\ up /\ task[t].pc = "accept" /\ task[t].op = "provision"
      /\ Goto(t, "drop") /\ faults' = faults + 1
      /\ UNCHANGED <<net, machines, locks, host, subs, up>>
  BY DEF accept_timeout, At, Fault
<1>2. task[t].m \in Machine /\ task[t].pc \in HoldsMachines
  BY <1>1 DEF Inv, TaskInv, Shape, HoldsMachines
<1>3. HostType /\ faults \in Nat /\ vm' = vm /\ jail' = jail
  BY <1>1 DEF HostType, host, subs, Inv, LocalType
<1> QED
  BY <1>1, <1>2, <1>3, ProvisionMoves DEF net

\* The stack of the machine is built: it is nobody else's.
LEMMA ProvisionStackInv ==
    ASSUME Inv, NEW t \in Task, provision_stack(t)
    PROVE  Inv'
<1> DEFINE m == task[t].m
<1>1. /\ up /\ task[t].pc = "stack" /\ task[t].op = "provision"
      /\ Goto(t, "nat") /\ UNCHANGED <<machines, locks, host, subs, up, faults>>
  BY DEF provision_stack, At
<1>2. m \notin live /\ live' = live \cup {m}
  BY DEF provision_stack, Net!provision_stack
<1>3. m \in Machine /\ t \in Rpc /\ task[t].rest = {} /\ Held(t) = {}
  BY <1>1, ProvisionShape DEF HoldsMachines
<1>4. /\ task' \in [Task -> TaskRecord]
      /\ task'[t].pc = "nat" /\ task'[t].op = "provision" /\ task'[t].m = m
      /\ task'[t].rest = {}
      /\ \A u \in Task \ {t} : task'[u] = task[u]
  BY <1>1, <1>3, GotoFacts DEF Inv, Places
<1>5. mwriter = t /\ mwriter' = t /\ mreaders' = mreaders
  BY <1>1 DEF Inv, TaskInv, Guards, Writing, locks
<1>6. LocalType' /\ Locks'
  BY <1>1, <1>4 DEF Inv, LocalType, Locks, locks, host, subs
<1>7. Others(t)
  BY <1>4, <1>5 DEF Others
<1>8. Gentle(t)
  BY <1>1 DEF Gentle, host, Inv, LocalType
<1>9. TaskInv(t)'
  <2>1. Shape(t)'
    BY <1>3, <1>4 DEF Shape
  <2>2. Guards(t)'
    BY <1>1, <1>4, <1>5 DEF Inv, TaskInv, Guards, Writing
  <2>3. Knows(t)' /\ BuildStage(t)'
    BY <1>1, <1>4 DEF Inv, TaskInv, Knows, BuildStage, host
  <2>4. Takes(t)'
    BY <1>4 DEF Takes
  <2> QED
    BY <2>1, <2>2, <2>3, <2>4 DEF TaskInv
<1>10. Held(t)' = {m}
  BY <1>3, <1>4, TasksAssumption DEF Held
<1>11. Ownership'
  BY <1>1, <1>2, <1>3, <1>5, <1>7, <1>10, WriterOwns, WriterKeeps
<1>12. t \notin machines'
  BY <1>1, <1>3, TasksAssumption DEF Inv, LocalType
<1>13. \A u \in Task \ {t} : task[u].op = "provision" => task[u].m # task'[t].m
  BY <1>1, <1>4 DEF Inv, SoleBuilder
<1> QED
  BY <1>1, <1>6, <1>7, <1>8, <1>9, <1>11, <1>12, <1>13, TaskStepInv

\* The handler answers with an error or panics.
LEMMA ProvisionStackFailsInv ==
    ASSUME Inv, NEW t \in Task, provision_stack_fails(t)
    PROVE  Inv'
<1>1. /\ up /\ task[t].pc = "stack" /\ task[t].op = "provision"
      /\ Release(t) /\ Finish(t) /\ faults' = faults + 1
      /\ UNCHANGED <<machines, host, subs, up>>
  BY DEF provision_stack_fails, At, Fault
<1>2. live' = live
  BY DEF provision_stack_fails, Net!provision_stack_fails, Net!next_slot_panics
<1>3. Held(t) = {} /\ t \notin machines
  BY <1>1, ProvisionShape, TasksAssumption DEF HoldsMachines, Inv, LocalType
<1>4. HostType /\ Gentle(t)
  BY <1>1 DEF HostType, Gentle, host, subs, Inv, LocalType
<1> QED
  BY <1>1, <1>2, <1>3, <1>4, EndInv

\* The machine enters the map together with its cleanup task.
LEMMA AcceptInv ==
    ASSUME Inv, NEW t \in Task, accept(t)
    PROVE  Inv'
<1>0. PICK m \in Machine : m = task[t].m
  <2>1. task[t].op = "provision"
    BY DEF accept, At
  <2> QED
    BY <2>1, ProvisionShape
<1> DEFINE k == [Idle EXCEPT !.pc = "wait", !.op = "cleanup", !.m = m]
<1>1. /\ up /\ task[t].pc = "accept" /\ task[t].op = "provision"
      /\ comm' = [comm EXCEPT ![m] = "open"] /\ machines' = machines \cup {m}
      /\ task' = [task EXCEPT ![t] = Idle, ![m] = k]
      /\ Release(t) /\ UNCHANGED <<net, vm, jail, subs, up, faults>>
  BY <1>0 DEF accept, At
<1>2. /\ t \in Rpc /\ m \in Machine /\ Held(t) = {m} /\ t \notin Machine
      /\ m \in Task /\ t # m
  BY <1>0, <1>1, ProvisionShape, TasksAssumption DEF HoldsMachines, Task
<1>3. /\ Idle \in TaskRecord /\ k \in TaskRecord
      /\ k.pc = "wait" /\ k.op = "cleanup" /\ k.m = m /\ k.rest = {}
      /\ Idle.pc = "idle" /\ Idle.op = "none" /\ Idle.m = NoMachine /\ Idle.rest = {}
  BY <1>2 DEF Idle, TaskRecord, Places, Operations
<1> HIDE DEF k
<1>4. /\ task' \in [Task -> TaskRecord] /\ task'[t] = Idle /\ task'[m] = k
      /\ \A u \in Task \ {t, m} : task'[u] = task[u]
  BY <1>1, <1>2, <1>3 DEF Inv, LocalType
<1>5. /\ mwriter = t /\ mreaders = {} /\ t # NoTask /\ m # NoTask
  BY <1>1, <1>2, TasksAssumption DEF Inv, TaskInv, Guards, Writing, Locks
<1>6. /\ mwriter' = NoTask /\ mreaders' = {} /\ netlock' = NoTask /\ waiting' \in Seq(Task)
  BY <1>1, <1>5, ReleaseFacts DEF Inv, Locks
<1>7. /\ comm' \in [Machine -> {"none", "open", "stopped"}] /\ comm'[m] = "open"
      /\ \A n \in Machine \ {m} : comm'[n] = comm[n]
  BY <1>1, <1>2 DEF Inv, LocalType
<1>8. LocalType'
  BY <1>1, <1>2, <1>4, <1>6, <1>7 DEF Inv, LocalType, subs
<1>9. m \in jail /\ vm[m] \in {"running", "dead"}
  BY <1>0, <1>1 DEF Inv, TaskInv, BuildStage
<1>10. TaskInv(t)'
  BY <1>3, <1>4, <1>5, <1>6
     DEF TaskInv, Shape, Guards, Knows, BuildStage, Takes, Writing
<1>11. TaskInv(m)'
  <2>1. Shape(m)'
    BY <1>2, <1>3, <1>4 DEF Shape
  <2>2. Guards(m)'
    BY <1>3, <1>4, <1>5, <1>6 DEF Guards, Writing
  <2>3. Knows(m)' /\ BuildStage(m)' /\ Takes(m)'
    BY <1>3, <1>4, <1>7 DEF Knows, BuildStage, Takes
  <2> QED
    BY <2>1, <2>2, <2>3 DEF TaskInv
<1>12. ASSUME NEW u \in Task \ {t, m} PROVE TaskInv(u)'
  <2>1. task'[u] = task[u] /\ task[u].pc \notin Writing /\ task[u].pc # "reading" /\ u # NoTask
    BY <1>4, <1>5, HoldersWrite, TasksAssumption DEF Inv, TaskInv, Guards
  <2>2. Shape(u)' /\ Guards(u)'
    BY <1>6, <2>1 DEF Inv, TaskInv, Shape, Guards
  <2>3. Takes(u)'
    BY <2>1 DEF Takes, Writing
  <2>4. Knows(u)' /\ BuildStage(u)'
    <3>1. CASE task[u].op = "provision"
      <4>1. task[u].m \in Machine \ {m}
        BY <1>2, <3>1, Apart
      <4> QED
        BY <1>1, <1>7, <2>1, <3>1, <4>1 DEF Inv, TaskInv, Knows, BuildStage
    <3>2. CASE task[u].op # "provision"
      <4>1. task[u].m \in Machine \cup {NoMachine} /\ task[u].rest \subseteq Machine
        BY DEF Inv, LocalType, TaskRecord
      <4> QED
        BY <1>7, <2>1, <3>2, <4>1 DEF Inv, TaskInv, Knows, BuildStage
    <3> QED
      BY <3>1, <3>2
  <2> QED
    BY <2>2, <2>3, <2>4 DEF TaskInv
<1>13. SoleBuilder'
  BY <1>3, <1>4 DEF Inv, SoleBuilder
<1>14. Locks'
  BY <1>6 DEF Locks
<1>15. MapServed'
  <2> SUFFICES ASSUME NEW n \in machines'
               PROVE  /\ n \in jail' /\ vm'[n] \in {"running", "dead"} /\ comm'[n] # "none"
                      /\ Serves(n)'
    BY DEF MapServed, Serves
  <2>1. CASE n = m
    BY <1>1, <1>3, <1>4, <1>7, <1>9, <2>1 DEF Serves
  <2>2. CASE n # m
    <3>1. n \in machines /\ n \in Machine /\ n \in Task \ {t, m}
      BY <1>1, <1>2, <2>2 DEF Inv, LocalType, Task
    <3> QED
      BY <1>1, <1>4, <1>7, <2>2, <3>1 DEF Inv, MapServed, Serves
  <2> QED
    BY <2>1, <2>2
<1>16. Ownership'
  <2>1. \A u \in Task : Held(u)' = {}
    BY <1>3, <1>4, <1>5, HoldersWrite DEF Held
  <2>2. \A n \in Machine : n \in live <=> (n \in machines \/ n = m)
    BY <1>1, <1>2, <1>5, WriterOwns
  <2> QED
    BY <1>1, <2>1, <2>2 DEF Ownership, net
<1>17. Started' /\ Down'
  BY <1>1, <1>7, <1>9 DEF Inv, Started, Down
<1> QED
  BY <1>8, <1>10, <1>11, <1>12, <1>13, <1>14, <1>15, <1>16, <1>17 DEF Inv

-----------------------------------------------------------------------------
(* deprovision, drain and what is dropped *)

\* Who is past the network lock, or dropping, has a machine in its hands.
LEMMA StoppingShape ==
    ASSUME Inv, NEW t \in Task, task[t].pc \in {"comm", "join", "kill", "drop"}
    PROVE  /\ task[t].m \in Machine /\ task[t].rest \subseteq Machine
           /\ task[t].m \notin task[t].rest
           /\ task[t].rest # {} => task[t].op = "drain"
           /\ Held(t) = {task[t].m} \cup task[t].rest
           /\ mwriter = t /\ t \notin machines
<1>1. /\ task[t].m \in Machine /\ task[t].m \notin task[t].rest
      /\ task[t].rest # {} => task[t].op = "drain"
  BY DEF Inv, TaskInv, Shape
<1>2. task[t].rest \subseteq Machine
  BY DEF Inv, LocalType, TaskRecord
<1>3. Held(t) = {task[t].m} \cup task[t].rest
  BY <1>1, TasksAssumption DEF Held
<1> QED
  BY <1>1, <1>2, <1>3 DEF Inv, TaskInv, Guards, Writing, MapServed

\* A drain goes on with its next machine.
LEMMA NextMachineInv ==
    ASSUME Inv, up, NEW t \in Task, task[t].pc \in {"kill", "drop"}, NEW n \in task[t].rest,
           NEW pc \in {"comm", "drop"},
           task' = [task EXCEPT ![t].pc = pc, ![t].m = n, ![t].rest = @ \ {n}],
           UNCHANGED <<machines, locks>>, live' = live \ {task[t].m},
           HostType, Gentle(t), pc = "drop" => faults' > 0
    PROVE  Inv'
<1>1. /\ task[t].m \in Machine /\ task[t].rest \subseteq Machine /\ task[t].op = "drain"
      /\ task[t].m \notin task[t].rest /\ n \in Machine
      /\ Held(t) = {task[t].m} \cup task[t].rest /\ mwriter = t /\ t \notin machines
  BY StoppingShape
<1>2. pc \in Places
  BY DEF Places
<1>3. /\ task' \in [Task -> TaskRecord]
      /\ task'[t].pc = pc /\ task'[t].op = "drain" /\ task'[t].m = n
      /\ task'[t].rest = task[t].rest \ {n}
      /\ \A u \in Task \ {t} : task'[u] = task[u]
  BY <1>1, <1>2 DEF Inv, LocalType, TaskRecord
<1>4. LocalType' /\ Locks'
  BY <1>3 DEF Inv, LocalType, Locks, HostType, locks
<1>5. Others(t)
  BY <1>3 DEF Others, locks
<1>6. TaskInv(t)'
  <2>1. t \in Rpc \cup {Ctrl}
    BY <1>1, TasksAssumption DEF Inv, TaskInv, Shape
  <2>2. Shape(t)'
    BY <1>1, <1>3, <2>1 DEF Shape
  <2>3. Guards(t)'
    BY <1>3 DEF Inv, TaskInv, Guards, Writing, locks
  <2>4. Knows(t)'
    BY <1>1, <1>3 DEF Inv, TaskInv, Knows, HostType
  <2>5. BuildStage(t)' /\ Takes(t)'
    BY <1>1, <1>3 DEF Inv, TaskInv, BuildStage, Takes
  <2> QED
    BY <2>2, <2>3, <2>4, <2>5 DEF TaskInv
<1>7. Held(t)' = task[t].rest
  BY <1>1, <1>3, TasksAssumption DEF Held
<1>8. Ownership'
  BY <1>1, <1>5, <1>7, WriterOwns, WriterKeeps
<1> QED
  BY <1>1, <1>3, <1>4, <1>5, <1>6, <1>8, TaskStepInv DEF HostType

\* A machine a task held goes out of scope.
LEMMA DropHeldInv ==
    ASSUME Inv, NEW t \in Task, drop_held(t)
    PROVE  Inv'
<1>1. /\ up /\ task[t].pc = "drop" /\ UNCHANGED <<machines, host, subs, up, faults>>
      /\ \/ task[t].rest = {} /\ Release(t) /\ Finish(t)
         \/ \E n \in task[t].rest :
               task' = [task EXCEPT ![t].m = n, ![t].rest = @ \ {n}] /\ UNCHANGED locks
  BY DEF drop_held
<1>2. live' = live \ {task[t].m}
  BY DEF drop_held, Net!drop, Net!DropStack
<1>3. HostType /\ Gentle(t) /\ faults > 0
  BY <1>1 DEF HostType, Gentle, host, subs, Inv, LocalType, TaskInv, Takes
<1>4. CASE task[t].rest = {} /\ Release(t) /\ Finish(t)
  <2>1. Held(t) = {task[t].m} /\ t \notin machines
    BY <1>1, <1>4, StoppingShape
  <2> QED
    BY <1>1, <1>2, <1>3, <1>4, <2>1, EndInv
<1>5. ASSUME NEW n \in task[t].rest, UNCHANGED locks,
             task' = [task EXCEPT ![t].m = n, ![t].rest = @ \ {n}]
      PROVE  Inv'
  <2>1. task[t] \in TaskRecord
    BY DEF Inv, LocalType
  <2>2. [task[t] EXCEPT !.m = n, !.rest = @ \ {n}]
          = [task[t] EXCEPT !.pc = "drop", !.m = n, !.rest = @ \ {n}]
    BY <1>1, <2>1 DEF TaskRecord
  <2>3. task' = [task EXCEPT ![t].pc = "drop", ![t].m = n, ![t].rest = @ \ {n}]
    BY <1>5, <2>2
  <2> QED
    BY <1>1, <1>2, <1>3, <1>5, <2>3, NextMachineInv
<1> QED
  BY <1>1, <1>4, <1>5

\* A step of the cleanup of a machine that exited.
LEMMA CleanupInv ==
    ASSUME Inv, NEW t \in Task, cleanup(t)
    PROVE  Inv'
<1> DEFINE m == task[t].m
<1>1. /\ up /\ task[t].pc = "kill" /\ UNCHANGED <<machines, comm, subs, up>>
      /\ vm' = [vm EXCEPT ![m] = "dead"]
      /\ \/ jail' = jail \ {m} /\ UNCHANGED faults
         \/ UNCHANGED jail /\ faults' = faults + 1
      /\ \/ task[t].rest = {} /\ Release(t) /\ Finish(t)
         \/ \E n \in task[t].rest :
               /\ task' = [task EXCEPT ![t].pc = "comm", ![t].m = n, ![t].rest = @ \ {n}]
               /\ UNCHANGED locks
  BY DEF cleanup, kill, Fault
<1>2. live' = live \ {m}
  BY DEF cleanup, Net!reclaim, Net!DropStack
<1>3. m \in Machine /\ Held(t) = {m} \cup task[t].rest /\ t \notin machines
  BY <1>1, StoppingShape
<1>4. /\ vm' = [vm EXCEPT ![m] = "dead"] /\ UNCHANGED <<machines, comm, subs, up>>
      /\ \/ jail' = jail \ {m} /\ UNCHANGED faults
         \/ UNCHANGED jail /\ faults' = faults + 1
  BY <1>1
<1>5. /\ vm' \in [Machine -> {"none", "spawned", "running", "dead"}] /\ vm'[m] = "dead"
      /\ \A n \in Machine \ {m} : vm'[n] = vm[n] /\ (n \in jail' <=> n \in jail)
  BY <1>4, <1>3 DEF Inv, LocalType
<1>6. faults \in Nat /\ faults' \in Nat /\ faults <= faults' /\ jail' \subseteq Machine
  BY <1>4 DEF Inv, LocalType
<1>7. HostType
  BY <1>4, <1>5, <1>6 DEF HostType, subs
<1>8. Gentle(t)
  BY <1>4, <1>3, <1>5, <1>6 DEF Gentle
<1>9. CASE task[t].rest = {} /\ Release(t) /\ Finish(t)
  BY <1>1, <1>2, <1>3, <1>7, <1>8, <1>9, EndInv
<1>10. ASSUME NEW n \in task[t].rest, UNCHANGED locks,
             task' = [task EXCEPT ![t].pc = "comm", ![t].m = n, ![t].rest = @ \ {n}]
      PROVE  Inv'
  BY <1>1, <1>2, <1>7, <1>8, <1>10, NextMachineInv
<1> QED
  BY <1>1, <1>9, <1>10

\* The shutdown request to the guest of a machine under deprovision.
LEMMA SendShutdownInv ==
    ASSUME Inv, NEW t \in Task, send_shutdown(t) \/ join_handler(t)
    PROVE  Inv'
<1>1. PICK pc \in {"join", "kill"} :
         /\ up /\ task[t].pc \in {"comm", "join"} /\ Goto(t, pc)
         /\ UNCHANGED <<net, machines, locks, host, subs, up, faults>>
  BY DEF send_shutdown, join_handler
<1>2. HostType /\ Gentle(t)
  BY <1>1 DEF HostType, Gentle, host, subs, Inv, LocalType
<1>3. pc \in HoldsMachines /\ pc \in Places /\ task[t].pc \in HoldsMachines
  BY <1>1 DEF HoldsMachines, Places
<1>4. /\ task'[t].pc = pc /\ task'[t].op = task[t].op /\ task'[t].m = task[t].m
      /\ task'[t].rest = task[t].rest
  BY <1>1, <1>3, GotoFacts DEF Inv
<1>5. Shape(t)' /\ BuildStage(t)'
  BY <1>1, <1>4 DEF Inv, TaskInv, Shape, BuildStage
<1> QED
  BY <1>1, <1>2, <1>3, <1>5, MoveInv DEF locks, net

\* The network lock is taken under the write lock.
LEMMA DeprovisionNetworkInv ==
    ASSUME Inv, NEW t \in Task, deprovision_network(t)
    PROVE  Inv'
<1>1. PICK pc \in {"comm", "kill"} :
         /\ up /\ IsDeprovision(t) /\ task[t].pc = "net" /\ Goto(t, pc) /\ netlock' = t
         /\ UNCHANGED <<net, machines, mwriter, mreaders, waiting, host, subs, up, faults>>
  BY DEF deprovision_network
<1>2. HostType /\ Gentle(t)
  BY <1>1 DEF HostType, Gentle, host, subs, Inv, LocalType
<1>3. pc \in HoldsMachines /\ pc \in Places /\ task[t].pc \in HoldsMachines
  BY <1>1 DEF HoldsMachines, Places
<1>4. /\ task'[t].pc = pc /\ task'[t].op = task[t].op /\ task'[t].m = task[t].m
      /\ task'[t].rest = task[t].rest
  BY <1>1, <1>3, GotoFacts DEF Inv
<1>5. Shape(t)' /\ BuildStage(t)'
  BY <1>1, <1>4 DEF Inv, TaskInv, Shape, BuildStage, IsDeprovision
<1> QED
  BY <1>1, <1>2, <1>3, <1>5, MoveInv DEF net

\* deprovision takes its machine out of the list.
LEMMA DeprovisionLockInv ==
    ASSUME Inv, NEW t \in Task, deprovision_lock(t)
    PROVE  Inv'
<1> DEFINE m == task[t].m
<1>1. /\ up /\ IsDeprovision(t) /\ task[t].pc = "lock"
      /\ UNCHANGED <<net, host, subs, up, faults>>
      /\ \/ m \in machines /\ AcquireWrite(t) /\ machines' = machines \ {m} /\ Goto(t, "net")
         \/ m \notin machines /\ Release(t) /\ Finish(t) /\ UNCHANGED machines
  BY DEF deprovision_lock
<1>2. /\ task[t].op # "provision" /\ m \in Machine /\ task[t].rest = {} /\ Held(t) = {}
      /\ t \in machines => m = t
  BY <1>1, TasksAssumption DEF Inv, TaskInv, Shape, IsDeprovision, Held, LocalType
<1>3. HostType /\ Gentle(t) /\ live' = live
  BY <1>1 DEF HostType, Gentle, host, subs, net, Inv, LocalType
<1>4. CASE m \in machines /\ AcquireWrite(t) /\ machines' = machines \ {m} /\ Goto(t, "net")
  <2>1. /\ task'[t].pc = "net" /\ task'[t].op = task[t].op /\ task'[t].m = m
        /\ task'[t].rest = task[t].rest
    BY <1>4, GotoFacts DEF Inv, Places
  <2>2. Shape(t)'
    BY <1>1, <2>1 DEF Inv, TaskInv, Shape, IsDeprovision
  <2>3. Held(t)' = {m}
    BY <1>2, <2>1, TasksAssumption DEF Held
  <2> QED
    BY <1>1, <1>2, <1>3, <1>4, <2>2, <2>3, GrabInv
<1>5. CASE m \notin machines /\ Release(t) /\ Finish(t) /\ UNCHANGED machines
  BY <1>1, <1>2, <1>3, <1>5, EndInv
<1> QED
  BY <1>1, <1>4, <1>5

\* drain empties the list into the task that runs it.
LEMMA DrainLockInv ==
    ASSUME Inv, NEW t \in Task, drain_lock(t)
    PROVE  Inv'
<1>1. /\ up /\ task[t].pc = "lock" /\ task[t].op = "drain"
      /\ AcquireWrite(t) /\ Goto(t, "net")
      /\ UNCHANGED <<net, machines, host, subs, up, faults>>
  BY DEF drain_lock, At
<1>2. HostType /\ Gentle(t) /\ live' = live /\ machines' = machines
  BY <1>1 DEF HostType, Gentle, host, subs, net, Inv, LocalType
<1>3. /\ task'[t].pc = "net" /\ task'[t].op = "drain" /\ task'[t].m = task[t].m
      /\ task'[t].rest = task[t].rest
  BY <1>1, GotoFacts DEF Inv, Places
<1>4. Shape(t)'
  BY <1>1, <1>3 DEF Inv, TaskInv, Shape
<1>5. Held(t)' = {}
  BY <1>3, <1>4, TasksAssumption DEF Held, Shape
<1>6. t \notin machines
  BY <1>1 DEF Inv, MapServed
<1> QED
  BY <1>1, <1>2, <1>4, <1>5, <1>6, GrabInv

\* A drain takes the whole map.
LEMMA DrainNetworkInv ==
    ASSUME Inv, NEW t \in Task, drain_network(t)
    PROVE  Inv'
<1>1. /\ up /\ task[t].pc = "net" /\ task[t].op = "drain" /\ netlock = NoTask
      /\ UNCHANGED <<net, host, subs, up, faults>>
  BY DEF drain_network, At
<1>2. HostType /\ live' = live
  BY <1>1 DEF HostType, host, subs, net, Inv, LocalType
<1>3. /\ task[t].m = NoMachine /\ task[t].rest = {} /\ t \in Rpc \cup {Ctrl}
      /\ Held(t) = {} /\ mwriter = t /\ t \notin machines /\ mreaders = {} /\ t # NoTask
  BY <1>1, TasksAssumption DEF Inv, TaskInv, Shape, Held, Guards, Writing, MapServed, Locks
<1>4. CASE machines = {} /\ Release(t) /\ Finish(t) /\ UNCHANGED machines
  <2>1. Gentle(t)
    BY <1>1, <1>4 DEF Gentle, host, Inv, LocalType
  <2> QED
    BY <1>1, <1>2, <1>3, <1>4, <2>1, EndInv
<1>5. ASSUME NEW m \in machines, netlock' = t, machines' = {},
             task' = [task EXCEPT ![t].pc = "comm", ![t].m = m, ![t].rest = machines \ {m}],
             UNCHANGED <<mwriter, mreaders, waiting>>
      PROVE  Inv'
  <2>1. m \in Machine /\ machines \subseteq Machine
    BY DEF Inv, LocalType
  <2>2. /\ task' \in [Task -> TaskRecord]
        /\ task'[t].pc = "comm" /\ task'[t].op = "drain" /\ task'[t].m = m
        /\ task'[t].rest = machines \ {m}
        /\ \A u \in Task \ {t} : task'[u] = task[u]
    <3>1. task \in [Task -> TaskRecord] /\ machines \ {m} \in SUBSET Machine
      BY <2>1 DEF Inv, LocalType
    <3>2. task' = [task EXCEPT ![t] = [@ EXCEPT !.pc = "comm", !.m = m, !.rest = machines \ {m}]]
      BY <1>5, <3>1 DEF TaskRecord
    <3>3. [task[t] EXCEPT !.pc = "comm", !.m = m, !.rest = machines \ {m}] \in TaskRecord
      BY <2>1, <3>1 DEF TaskRecord, Places
    <3> QED
      BY <1>1, <3>1, <3>2, <3>3 DEF TaskRecord
  <2>3. LocalType' /\ Locks'
    BY <1>2, <1>3, <1>5, <2>2 DEF Inv, LocalType, HostType, Locks
  <2>4. Others(t) /\ Gentle(t)
    BY <1>1, <1>5, <2>2 DEF Others, Gentle, host, Inv, LocalType
  <2>5. TaskInv(t)'
    <3>1. Shape(t)' /\ Guards(t)'
      BY <1>3, <1>5, <2>1, <2>2 DEF Shape, Guards, Writing
    <3>2. \A n \in machines : comm[n] # "none"
      BY DEF Inv, MapServed
    <3>3. Knows(t)'
      BY <1>1, <1>5, <2>2, <3>2 DEF Knows, host
    <3>4. BuildStage(t)' /\ Takes(t)'
      BY <1>5, <2>2 DEF BuildStage, Takes
    <3> QED
      BY <3>1, <3>3, <3>4 DEF TaskInv
  <2>6. Held(t)' = machines
    BY <1>5, <2>1, <2>2, TasksAssumption DEF Held
  <2>7. Ownership'
    BY <1>1, <1>2, <1>3, <1>5, <2>4, <2>6, WriterOwns, WriterKeeps
  <2> QED
    BY <1>1, <1>5, <2>2, <2>3, <2>4, <2>5, <2>7, TaskStepInv
<1> QED
  BY <1>4, <1>5 DEF drain_network

-----------------------------------------------------------------------------
(* Readers and cleanup tasks *)

\* A task that answers without machines in its hands.
LEMMA AnswerInv ==
    ASSUME Inv, up, NEW t \in Task, task[t].pc \in {"lock", "reading"},
           task[t].op \in {"publish", "read"},
           Release(t), Finish(t), UNCHANGED <<live, machines, host, subs, up, faults>>
    PROVE  Inv'
<1>1. Held(t) = {} /\ t \notin machines
  BY TasksAssumption DEF Held, Inv, TaskInv, Shape, LocalType
<1>2. HostType /\ Gentle(t)
  BY DEF HostType, Gentle, host, subs, Inv, LocalType
<1> QED
  BY <1>1, <1>2, EndInv

\* A reader of the list takes a read guard.
LEMMA ReadLockInv ==
    ASSUME Inv, NEW t \in Task, read_lock(t)
    PROVE  Inv'
<1>1. /\ up /\ task[t].op \in {"publish", "read"} /\ task[t].pc = "lock"
      /\ UNCHANGED <<net, machines, host, subs, up, faults>>
      /\ \/ AcquireRead(t) /\ Goto(t, "reading")
         \/ Release(t) /\ Finish(t)
  BY DEF read_lock
<1>2. CASE Release(t) /\ Finish(t)
  BY <1>1, <1>2, AnswerInv DEF net
<1>3. CASE AcquireRead(t) /\ Goto(t, "reading")
  <2>1. /\ task' \in [Task -> TaskRecord]
        /\ task'[t].pc = "reading" /\ task'[t].op = task[t].op /\ task'[t].m = task[t].m
        /\ task'[t].rest = task[t].rest
        /\ \A u \in Task \ {t} : task'[u] = task[u]
    BY <1>3, GotoFacts DEF Inv, Places
  <2>2. /\ mwriter = NoTask /\ mwriter' = NoTask /\ mreaders' = mreaders \cup {t}
        /\ netlock' = netlock /\ waiting # <<>> /\ waiting' = Tail(waiting) /\ t # NoTask
    BY <1>3, TasksAssumption DEF AcquireRead, IsNext
  <2>3. t \in Rpc /\ t \notin machines
    BY <1>1, TasksAssumption DEF Inv, TaskInv, Shape, LocalType
  <2>4. LocalType'
    <3>1. waiting' \in Seq(Task)
      BY <2>2 DEF Inv, LocalType
    <3> QED
      BY <1>1, <2>1, <2>2, <2>3, <3>1 DEF Inv, LocalType, host, subs
  <2>5. Locks'
    BY <2>2 DEF Inv, Locks
  <2>6. Others(t) /\ Gentle(t)
    BY <1>1, <2>1, <2>2 DEF Others, Gentle, host, Inv, LocalType
  <2>7. TaskInv(t)'
    <3>1. Shape(t)' /\ Guards(t)'
      BY <1>1, <2>1, <2>2 DEF Inv, TaskInv, Shape, Guards, Writing
    <3>2. Knows(t)' /\ BuildStage(t)' /\ Takes(t)'
      BY <1>1, <2>1 DEF Inv, TaskInv, Knows, BuildStage, Takes, host
    <3> QED
      BY <3>1, <3>2 DEF TaskInv
  <2>8. Ownership'
    <3>1. Held(t) = {} /\ Held(t)' = {}
      BY <1>1, <2>1 DEF Held
    <3> QED
      BY <1>1, <2>6, <3>1, OwnershipKept DEF net
  <2> QED
    BY <1>1, <2>1, <2>3, <2>4, <2>5, <2>6, <2>7, <2>8, TaskStepInv
<1> QED
  BY <1>1, <1>2, <1>3

\* A reader leaves.
LEMMA ReadDoneInv ==
    ASSUME Inv, NEW t \in Task, read_done(t)
    PROVE  Inv'
BY AnswerInv DEF read_done, At, net

\* publish_service_port under its read guard.
LEMMA PublishInv ==
    ASSUME Inv, NEW t \in Task, NEW hp, NEW gp, publish_service_port(t, hp, gp)
    PROVE  Inv'
<1>1. live' = live
  BY DEF publish_service_port, Net!setup_forwarding, Net!AddRules, net
<1> QED
  BY <1>1, AnswerInv DEF publish_service_port, At

\* A cleanup task moves on before it has the lock: its machine stays served.
LEMMA CleanupTaskInv ==
    ASSUME Inv, NEW m \in Machine, CleanupStep(m)
    PROVE  Inv'
<1>1. PICK pc \in {"notify", "lock"} :
         /\ up /\ task[m].op = "cleanup" /\ task[m].pc \in {"wait", "notify"} /\ Goto(m, pc)
         /\ task[m].pc = "wait" => comm[m] = "stopped"
         /\ UNCHANGED <<net, machines, host, listening, up, faults, mwriter, mreaders, netlock>>
         /\ waiting' \in {waiting, Append(waiting, m)}
         /\ events' = events \/ (events' = Append(events, m) /\ Len(events) < SubCap)
  BY DEF CleanupStep, machine_stopped, handle_machine_exit, At, Enqueue, locks, subs
<1>2. m \in Task
  BY DEF Task
<1>3. /\ task' \in [Task -> TaskRecord]
      /\ task'[m].pc = pc /\ task'[m].op = task[m].op /\ task'[m].m = task[m].m
      /\ task'[m].rest = task[m].rest
      /\ \A u \in Task \ {m} : task'[u] = task[u]
  BY <1>1, <1>2, GotoFacts DEF Inv, Places
<1>4. LocalType'
  <2>1. waiting' \in Seq(Task)
    BY <1>1, <1>2 DEF Inv, LocalType
  <2>2. events' \in Seq(Machine) /\ Len(events') <= SubCap
    <3>1. events \in Seq(Machine) /\ Len(events) <= SubCap
      BY DEF Inv, LocalType
    <3>2. CASE events' = events
      BY <3>1, <3>2
    <3>3. CASE events' = Append(events, m) /\ Len(events) < SubCap
      <4>1. events' \in Seq(Machine) /\ Len(events') = Len(events) + 1 /\ Len(events) \in Nat
        BY <3>1, <3>3
      <4> QED
        BY <3>3, <4>1, LimitsAssumption
    <3> QED
      BY <1>1, <3>2, <3>3
  <2> QED
    BY <1>1, <1>3, <2>1, <2>2 DEF Inv, LocalType, host
<1>5. Locks'
  BY <1>1 DEF Inv, Locks
<1>6. Others(m) /\ Gentle(m)
  BY <1>1, <1>3 DEF Others, Gentle, host, Inv, LocalType
<1>7. TaskInv(m)'
  <2>1. Shape(m)' /\ Guards(m)'
    BY <1>1, <1>2, <1>3 DEF Inv, TaskInv, Shape, Guards, Writing
  <2>2. Knows(m)' /\ BuildStage(m)' /\ Takes(m)'
    BY <1>1, <1>2, <1>3 DEF Inv, TaskInv, Knows, BuildStage, Takes, host
  <2> QED
    BY <2>1, <2>2 DEF TaskInv
<1>8. Ownership'
  <2>1. Held(m) = {} /\ Held(m)' = {}
    BY <1>1, <1>3 DEF Held
  <2> QED
    BY <1>1, <1>2, <1>6, <2>1, OwnershipKept DEF net
<1>9. m \in machines' => Serves(m)'
  BY <1>1, <1>3 DEF Inv, MapServed, Serves, host
<1> QED
  BY <1>1, <1>2, <1>3, <1>4, <1>5, <1>6, <1>7, <1>8, <1>9, TaskStepInv

-----------------------------------------------------------------------------
(* Cancellation, the virtual machine, the subscriber, the end *)

\* What a cancelled handler holds is dropped before its guards are.
LEMMA CancelInv ==
    ASSUME Inv, NEW t \in Rpc, cancel(t)
    PROVE  Inv'
<1>1. /\ up /\ t \in Task /\ faults' = faults + 1 /\ UNCHANGED <<net, machines, host, subs, up>>
      /\ \/ Held(t) # {} /\ Goto(t, "drop") /\ UNCHANGED locks
         \/ Held(t) = {} /\ Release(t) /\ Finish(t)
  BY DEF cancel, Fault, Task
<1>2. HostType /\ Gentle(t) /\ live' = live /\ faults' > 0
  BY <1>1 DEF HostType, Gentle, host, subs, net, Inv, LocalType
<1>3. t \notin machines
  BY TasksAssumption DEF Inv, LocalType
<1>4. CASE Held(t) = {} /\ Release(t) /\ Finish(t)
  BY <1>1, <1>2, <1>3, <1>4, EndInv
<1>5. CASE Held(t) # {} /\ Goto(t, "drop") /\ UNCHANGED locks
  <2>1. task[t].pc \in HoldsMachines /\ "drop" \in HoldsMachines
    BY <1>1, <1>5, HeldFacts DEF HoldsMachines
  <2>2. /\ task'[t].pc = "drop" /\ task'[t].op = task[t].op /\ task'[t].m = task[t].m
        /\ task'[t].rest = task[t].rest
    BY <1>1, <1>5, GotoFacts DEF Inv, Places
  <2>3. Held(t) = ({task[t].m} \ {NoMachine}) \cup task[t].rest
    BY <1>1, <2>1, HeldFacts
  <2>4. task[t].op \in {"provision", "deprovision", "drain"} /\ task[t].m # NoMachine
    BY <1>1, <1>5, <2>1, <2>3, TasksAssumption DEF Inv, TaskInv, Shape, HoldsMachines
  <2>5. Shape(t)'
    BY <1>1, <2>2, <2>4 DEF Inv, TaskInv, Shape
  <2>6. BuildStage(t)'
    BY <2>2 DEF BuildStage
  <2> QED
    BY <1>1, <1>2, <1>5, <2>1, <2>5, <2>6, MoveInv DEF locks
<1> QED
  BY <1>1, <1>4, <1>5

\* The receiver of the machine states concerns no task.
LEMMA SubscriberInv ==
    ASSUME Inv, subscriber_receives \/ subscriber_leaves
    PROVE  Inv'
<1>1. /\ UNCHANGED <<net, machines, locks, host, task, up, faults>>
      /\ listening' \in BOOLEAN
      /\ events' = <<>> \/ (events # <<>> /\ events' = Tail(events))
  BY DEF subscriber_receives, subscriber_leaves, Inv, LocalType
<1>2. events' \in Seq(Machine) /\ Len(events') <= SubCap
  <2>1. events \in Seq(Machine) /\ Len(events) <= SubCap /\ Len(events) \in Nat
    BY DEF Inv, LocalType
  <2>2. CASE events' = <<>>
    BY <2>2, LimitsAssumption
  <2>3. CASE events # <<>> /\ events' = Tail(events)
    <3>1. events' \in Seq(Machine) /\ Len(events') = Len(events) - 1
      BY <2>1, <2>3
    <3> QED
      BY <2>1, <3>1, LimitsAssumption
  <2> QED
    BY <1>1, <2>2, <2>3
<1>3. LocalType'
  BY <1>1, <1>2 DEF Inv, LocalType, locks, host
<1>4. \A t \in Task : TaskInv(t)'
  BY <1>1 DEF Inv, TaskInv, Shape, Guards, Knows, BuildStage, Takes, locks, host
<1>5. Locks' /\ SoleBuilder' /\ MapServed' /\ Started' /\ Down'
  BY <1>1 DEF Inv, Locks, SoleBuilder, MapServed, Started, Down, locks, host
<1>6. Ownership'
  BY <1>1 DEF Inv, Ownership, Held, net
<1> QED
  BY <1>3, <1>4, <1>5, <1>6 DEF Inv

\* A process or a packet handler ends.
LEMMA VmInv ==
    ASSUME Inv, NEW m \in Machine, vm_exits(m) \/ packet_handler_stops(m)
    PROVE  Inv'
<1>1. /\ UNCHANGED <<net, machines, locks, jail, subs, task, up, faults>>
      /\ \/ Alive(m) /\ vm' = [vm EXCEPT ![m] = "dead"] /\ UNCHANGED comm
         \/ comm[m] = "open" /\ comm' = [comm EXCEPT ![m] = "stopped"] /\ UNCHANGED vm
  BY DEF vm_exits, packet_handler_stops
<1>2. /\ vm' \in [Machine -> {"none", "spawned", "running", "dead"}]
      /\ comm' \in [Machine -> {"none", "open", "stopped"}]
      /\ \A n \in Machine : /\ vm'[n] = vm[n] \/ (vm[n] \in {"spawned", "running"} /\ vm'[n] = "dead")
                            /\ comm'[n] = comm[n] \/ (comm[n] = "open" /\ comm'[n] = "stopped")
  BY <1>1 DEF Inv, LocalType, Alive
<1>3. LocalType'
  BY <1>1, <1>2 DEF Inv, LocalType, locks, subs
<1>4. ASSUME NEW t \in Task PROVE TaskInv(t)'
  <2>1. Shape(t)' /\ Guards(t)' /\ Takes(t)'
    BY <1>1 DEF Inv, TaskInv, Shape, Guards, Takes, locks
  <2>2. task[t].m \in Machine \cup {NoMachine} /\ task[t].rest \subseteq Machine
    BY DEF Inv, LocalType, TaskRecord
  <2>3. task[t].op = "provision" => task[t].m \in Machine
    BY DEF Inv, TaskInv, Shape
  <2>4. Knows(t)'
    BY <1>1, <1>2, <2>2, <2>3 DEF Inv, TaskInv, Knows
  <2>5. BuildStage(t)'
    BY <1>1, <1>2, <2>3 DEF Inv, TaskInv, BuildStage
  <2> QED
    BY <2>1, <2>4, <2>5 DEF TaskInv
<1>5. Locks' /\ SoleBuilder' /\ Started' /\ Down'
  BY <1>1, <1>2 DEF Inv, Locks, SoleBuilder, Started, Down, locks
<1>6. MapServed'
  BY <1>1, <1>2 DEF Inv, MapServed, LocalType
<1>7. Ownership'
  BY <1>1 DEF Inv, Ownership, Held, net
<1> QED
  BY <1>3, <1>4, <1>5, <1>6, <1>7 DEF Inv

\* The runtime drops every task, and the map.
LEMMA ProcessExitsInv ==
    ASSUME Inv, process_exits
    PROVE  Inv'
<1>1. /\ up' = FALSE /\ machines' = {} /\ task' = [t \in Task |-> Idle]
      /\ mwriter' = NoTask /\ mreaders' = {} /\ waiting' = <<>> /\ netlock' = NoTask
      /\ events' = <<>> /\ UNCHANGED <<net, host, listening, faults>>
  BY DEF process_exits
<1>2. /\ Idle \in TaskRecord /\ Idle.pc = "idle" /\ Idle.op = "none"
      /\ Idle.m = NoMachine /\ Idle.rest = {}
  BY DEF Idle, TaskRecord, Places, Operations
<1>3. LocalType'
  <2>1. events' \in Seq(Machine) /\ Len(events') <= SubCap /\ waiting' \in Seq(Task)
    BY <1>1, LimitsAssumption
  <2>2. task' \in [Task -> TaskRecord] /\ up' \in BOOLEAN
    BY <1>1, <1>2
  <2> QED
    BY <1>1, <2>1, <2>2 DEF Inv, LocalType, host
<1>4. ASSUME NEW t \in Task PROVE TaskInv(t)'
  <2>1. task'[t] = Idle /\ t # NoTask
    BY <1>1, TasksAssumption
  <2> QED
    BY <1>1, <1>2, <2>1 DEF TaskInv, Shape, Guards, Knows, BuildStage, Takes, Writing
<1>5. Locks' /\ SoleBuilder' /\ MapServed' /\ Down' /\ Ownership'
  BY <1>1, <1>2 DEF Locks, SoleBuilder, MapServed, Down, Ownership
<1>6. Started'
  BY <1>1 DEF Inv, Started, host
<1> QED
  BY <1>3, <1>4, <1>5, <1>6 DEF Inv

\* After the process only the network is undone.
LEMMA ExitDropInv ==
    ASSUME Inv, exit_drop_manager \/ \E m \in Machine : exit_drop(m)
    PROVE  Inv'
<1>1. ~up /\ UNCHANGED <<machines, locks, host, subs, task, up, faults>>
  BY DEF exit_drop, exit_drop_manager
<1>2. LocalType'
  BY <1>1 DEF Inv, LocalType, locks, host, subs
<1>3. \A t \in Task : TaskInv(t)'
  BY <1>1 DEF Inv, TaskInv, Shape, Guards, Knows, BuildStage, Takes, locks, host
<1>4. Locks' /\ SoleBuilder' /\ MapServed' /\ Started' /\ Down' /\ Ownership'
  BY <1>1 DEF Inv, Locks, SoleBuilder, MapServed, Started, Down, Ownership, locks, host
<1> QED
  BY <1>2, <1>3, <1>4 DEF Inv

\* A step that changes nothing keeps the invariant.
LEMMA StutterInv ==
    ASSUME Inv, UNCHANGED vars
    PROVE  Inv'
<1>1. UNCHANGED <<machines, locks, host, subs, task, up, faults, live>>
  BY DEF vars, net
<1>2. LocalType'
  BY <1>1 DEF Inv, LocalType, locks, host, subs
<1>3. \A t \in Task : TaskInv(t)'
  BY <1>1 DEF Inv, TaskInv, Shape, Guards, Knows, BuildStage, Takes, locks, host
<1>4. Locks' /\ SoleBuilder' /\ MapServed' /\ Started' /\ Down'
  BY <1>1 DEF Inv, Locks, SoleBuilder, MapServed, Started, Down, locks, host
<1>5. Ownership'
  BY <1>1 DEF Inv, Ownership, Held
<1> QED
  BY <1>2, <1>3, <1>4, <1>5 DEF Inv

-----------------------------------------------------------------------------
(* The first theorems *)

\* The invariant holds when the node manager starts.
LEMMA InitInv == Init => Inv
<1> SUFFICES ASSUME Init PROVE Inv
  OBVIOUS
<1>1. /\ up = TRUE /\ machines = {} /\ task = [t \in Task |-> Idle]
      /\ mwriter = NoTask /\ mreaders = {} /\ waiting = <<>> /\ netlock = NoTask
      /\ events = <<>> /\ faults = 0 /\ jail = {} /\ listening = (SubCap > 0)
      /\ vm = [m \in Machine |-> "none"] /\ comm = [m \in Machine |-> "none"]
  BY DEF Init
<1>2. /\ Idle \in TaskRecord /\ Idle.pc = "idle" /\ Idle.op = "none"
      /\ Idle.m = NoMachine /\ Idle.rest = {}
  BY DEF Idle, TaskRecord, Places, Operations
<1>3. live = {}
  BY DEF Init, Net!Init
<1>4. LocalType
  BY <1>1, <1>2, LimitsAssumption DEF LocalType
<1>5. ASSUME NEW t \in Task PROVE TaskInv(t)
  <2>1. task[t] = Idle /\ t # NoTask
    BY <1>1, TasksAssumption
  <2> QED
    BY <1>1, <1>2, <2>1 DEF TaskInv, Shape, Guards, Knows, BuildStage, Takes, Writing
<1>6. Locks /\ SoleBuilder /\ MapServed /\ Down /\ Started
  BY <1>1, <1>2 DEF Locks, SoleBuilder, MapServed, Down, Started
<1>7. Ownership
  BY <1>1, <1>2, <1>3 DEF Ownership, Held
<1> QED
  BY <1>4, <1>5, <1>6, <1>7 DEF Inv

\* Every step keeps it.
LEMMA NextInv == Inv /\ [Next]_vars => Inv'
<1> SUFFICES ASSUME Inv, [Next]_vars PROVE Inv'
  OBVIOUS
<1>1. ASSUME NEW t \in Rpc, NEW m \in Machine, request_provision(t, m) PROVE Inv'
  BY <1>1, RequestInv DEF request_provision, Operations
<1>2. ASSUME NEW t \in Rpc, NEW m \in Machine, NEW g \in BOOLEAN, request_deprovision(t, m, g)
      PROVE  Inv'
  BY <1>2, RequestInv DEF request_deprovision, Operations
<1>3. ASSUME NEW t \in Rpc \cup {Ctrl}, request_drain(t) PROVE Inv'
  BY <1>3, RequestInv DEF request_drain, Operations
<1>4. ASSUME NEW t \in Rpc, NEW m \in Machine, request_publish(t, m) PROVE Inv'
  BY <1>4, RequestInv DEF request_publish, Operations
<1>5. ASSUME NEW t \in Rpc, request_read(t) PROVE Inv'
  BY <1>5, RequestInv DEF request_read, Operations
<1>6. CASE ctrl_c
  BY <1>3, <1>6 DEF ctrl_c
<1>7. ASSUME NEW t \in Task, Provision(t) PROVE Inv'
  BY <1>7, ProvisionLockInv, ProvisionStackInv, ProvisionStackFailsInv, SetupNatInv, SpawnInv,
     ConnectInv, StartInv, AcceptInv, AcceptTimeoutInv DEF Provision
<1>8. ASSUME NEW t \in Task, Shutdown(t) PROVE Inv'
  BY <1>8, DeprovisionLockInv, DeprovisionNetworkInv, DrainLockInv, DrainNetworkInv,
     SendShutdownInv, CleanupInv DEF Shutdown
<1>9. ASSUME NEW t \in Task, Reader(t) PROVE Inv'
  BY <1>9, ReadLockInv, ReadDoneInv, PublishInv DEF Reader
<1>10. ASSUME NEW t \in Task, TaskStep(t) PROVE Inv'
  BY <1>7, <1>8, <1>9, <1>10, DropHeldInv DEF TaskStep
<1>11. CASE ExitStep
  BY <1>11, ProcessExitsInv, ExitDropInv DEF ExitStep
<1>12. CASE UNCHANGED vars
  BY <1>12, StutterInv
<1> QED
  BY <1>1, <1>2, <1>3, <1>4, <1>5, <1>6, <1>10, <1>11, <1>12, CleanupTaskInv, CancelInv,
     SubscriberInv, VmInv DEF Next, Terminated

\* The invariant holds for ever.
THEOREM Invariance == Spec => []Inv
BY InitInv, NextInv, PTL DEF Spec

\* Whoever holds machines or the network mutex holds the write lock, and writers
\* exclude readers, through failures, cancellations and the end of the process.
THEOREM LockSafety == Spec => []LockDiscipline
<1>1. Inv => LockDiscipline
  BY HoldersWrite DEF Inv, Locks, LockDiscipline
<1> QED
  BY <1>1, Invariance, PTL

\* The exit of a machine in the map is always noticed by a task that will
\* deprovision it.
THEOREM MapSafety == Spec => []MapServed
<1>1. Inv => MapServed
  BY DEF Inv
<1> QED
  BY <1>1, Invariance, PTL

-----------------------------------------------------------------------------
(* The use made of the NetworkManager *)

\* What Networking assumes of its constants.
LEMMA NetConstants == Net!U16Assumption /\ Net!FlagsAssumption /\ Net!BoundsAssumption
BY NetAssumption DEF Net!U16Assumption, Net!FlagsAssumption, Net!BoundsAssumption

\* A step that leaves the network's state alone is a stutter of Networking.
LEMMA NetUnchanged ==
    ASSUME UNCHANGED net
    PROVE  UNCHANGED Net!vars
BY DEF net, Net!vars

\* Each step of the node manager is one operation of the NetworkManager or its
\* stacks, or none.
LEMMA NetStep == Inv /\ [Next]_vars => [Net!Next]_(Net!vars)
<1> SUFFICES ASSUME Inv, [Next]_vars PROVE Net!Next \/ UNCHANGED Net!vars
  OBVIOUS
<1>1. ASSUME NEW t \in Task, Provision(t) PROVE Net!Next \/ UNCHANGED net
  <2>1. task[t].op = "provision" => task[t].m \in Machine
    BY ProvisionShape
  <2>2. CASE provision_stack(t)
    BY <2>1, <2>2 DEF provision_stack, At, Net!Next
  <2>3. CASE provision_stack_fails(t)
    BY <2>3 DEF provision_stack_fails, Net!Next
  <2>4. CASE setup_public_nat(t)
    <3>1. \E n \in 0 .. 2 : Net!setup_public_nat(task[t].m, n)
      <4>1. \/ Net!setup_public_nat(task[t].m, 2)
            \/ \E n \in 0 .. 1 : Net!setup_public_nat(task[t].m, n)
        BY <2>4 DEF setup_public_nat
      <4>2. 2 \in 0 .. 2 /\ \A n \in 0 .. 1 : n \in 0 .. 2
        OBVIOUS
      <4> QED
        BY <4>1, <4>2, Zenon
    <3>2. task[t].m \in Machine
      BY <2>1, <2>4 DEF setup_public_nat, At
    <3> QED
      BY <3>1, <3>2 DEF Net!Next
  <2>5. CASE provision_lock(t) \/ spawn(t) \/ connect_api(t) \/ start_vm(t) \/ accept(t)
             \/ accept_timeout(t)
    BY <2>5 DEF provision_lock, spawn, connect_api, start_vm, accept, accept_timeout
  <2> QED
    BY <1>1, <2>2, <2>3, <2>4, <2>5 DEF Provision
<1>2. ASSUME NEW t \in Task, Shutdown(t) PROVE Net!Next \/ UNCHANGED net
  <2>1. CASE cleanup(t)
    <3>1. task[t].m \in Machine /\ Net!reclaim(task[t].m)
      BY <2>1, StoppingShape DEF cleanup
    <3> QED
      BY <3>1 DEF Net!Next
  <2>2. CASE deprovision_lock(t) \/ deprovision_network(t) \/ drain_lock(t) \/ drain_network(t)
             \/ send_shutdown(t) \/ join_handler(t)
    BY <2>2 DEF deprovision_lock, deprovision_network, drain_lock, drain_network,
                send_shutdown, join_handler
  <2> QED
    BY <1>2, <2>1, <2>2 DEF Shutdown
<1>3. ASSUME NEW t \in Task, Reader(t) PROVE Net!Next \/ UNCHANGED net
  <2>1. ASSUME NEW hp \in Port, NEW gp \in Port, publish_service_port(t, hp, gp)
        PROVE  Net!Next \/ UNCHANGED net
    <3>1. task[t].m \in Machine
      BY <2>1 DEF publish_service_port, At, Inv, TaskInv, Shape
    <3> QED
      BY <2>1, <3>1 DEF publish_service_port, Net!Next
  <2>2. CASE read_lock(t) \/ read_done(t)
    BY <2>2 DEF read_lock, read_done
  <2> QED
    BY <1>3, <2>1, <2>2 DEF Reader
<1>4. ASSUME NEW t \in Task, drop_held(t) PROVE Net!Next
  <2>1. task[t].m \in Machine /\ Net!drop(task[t].m)
    BY <1>4, StoppingShape DEF drop_held
  <2> QED
    BY <2>1 DEF Net!Next
<1>5. CASE ExitStep
  BY <1>5, NetUnchanged DEF ExitStep, process_exits, exit_drop, exit_drop_manager, Net!Next
<1>6. CASE \/ \E t \in Rpc, m \in Machine : request_provision(t, m)
           \/ \E t \in Rpc, m \in Machine, g \in BOOLEAN : request_deprovision(t, m, g)
           \/ \E t \in Rpc : request_drain(t)
           \/ \E t \in Rpc, m \in Machine : request_publish(t, m)
           \/ \E t \in Rpc : request_read(t)
           \/ ctrl_c
  <2>1. UNCHANGED net
    BY <1>6 DEF request_provision, request_deprovision, request_drain, request_publish,
                request_read, ctrl_c, Request
  <2> QED
    BY <2>1, NetUnchanged
<1>7. CASE \/ \E m \in Machine : CleanupStep(m) \/ vm_exits(m) \/ packet_handler_stops(m)
           \/ \E t \in Rpc : cancel(t)
           \/ subscriber_receives \/ subscriber_leaves \/ Terminated \/ UNCHANGED vars
  <2>1. UNCHANGED net
    BY <1>7 DEF CleanupStep, machine_stopped, handle_machine_exit, vm_exits,
                packet_handler_stops, cancel, subscriber_receives, subscriber_leaves,
                Terminated, vars
  <2> QED
    BY <2>1, NetUnchanged
<1> QED
  BY <1>1, <1>2, <1>3, <1>4, <1>5, <1>6, <1>7, NetUnchanged DEF Next, TaskStep

\* So what is proved of Networking can be used here.
LEMMA NetRefinement == Spec => Net!Spec
<1>1. Init => Net!Init
  BY DEF Init
<1> QED
  BY <1>1, NetStep, Invariance, PTL DEF Spec, Net!Spec

\* The node manager's use of the network keeps what is proved of Networking,
\* however tasks interleave, fail or are cancelled: a slot has one holder, two
\* stacks share no address, and the host has the rules of the existing stacks and
\* no others.
THEOREM NetworkSafety ==
    Spec => [](Net!SlotsExclusive /\ Net!AddressesExclusive /\ Net!RulesOwned)
<1>1. Net!Spec => []Net!SlotsExclusive /\ []Net!AddressesExclusive /\ []Net!RulesOwned
  BY NetConstants, Net!SlotSafety, Net!AddressSafety, Net!RuleSafety
<1> QED
  BY <1>1, NetRefinement, PTL

\* What the proofs about Networking know of its state.
LEMMA NetInvariance == Spec => []Net!IInv
<1>1. Net!Spec => []Net!IInv
  BY NetConstants, Net!Invariance
<1> QED
  BY <1>1, NetRefinement, PTL

\* The map, the locks, the tasks and the network state are well typed for ever.
THEOREM TypeCorrect == Spec => []TypeOK
<1>1. Inv /\ Net!IInv => TypeOK
  BY DEF Inv, LocalType, TaskRecord, Places, Operations, TypeOK, Net!IInv
<1> QED
  BY <1>1, Invariance, NetInvariance, PTL

\* Every network stack is in the machine map or in the hands of exactly one task.
THEOREM HolderSafety == Spec => []OneHolder
<1>1. Inv /\ Net!IInv => OneHolder
  <2> SUFFICES ASSUME Inv, Net!IInv, up PROVE OneHolder
    BY DEF OneHolder
  <2>1. \A t, u \in Task : t # u => Held(t) \cap Held(u) = {}
    BY HoldersWrite
  <2>2. live \subseteq Machine /\ machines \subseteq Machine
    BY DEF Inv, LocalType, Net!IInv, Net!TypeOK
  <2>3. \A t \in Task : Held(t) \subseteq Machine
    BY DEF Inv, LocalType, TaskRecord, Held
  <2>4. live = machines \cup UNION {Held(t) : t \in Task}
    BY <2>2, <2>3 DEF Inv, Ownership
  <2> QED
    BY <2>1, <2>4 DEF OneHolder, Inv, Ownership
<1> QED
  BY <1>1, Invariance, NetInvariance, PTL

\* Every tap device belongs to a machine in the map or in a task's hands, and the
\* end of the process leaves neither devices nor rules, whatever the tasks were
\* doing; only a deletion that failed can leave more.
THEOREM TidySafety == Spec => []HostTidy
<1>1. Net!Spec => [](Net!Tidy /\ (~Net!Exists => DOMAIN iptables \subseteq leaked))
  BY NetConstants, Net!TidySafety
<1>2. Net!IInv /\ OneHolder /\ Net!Tidy /\ (~Net!Exists => DOMAIN iptables \subseteq leaked)
          => HostTidy
  <2> SUFFICES ASSUME Net!IInv, OneHolder, Net!Tidy,
                      ~Net!Exists => DOMAIN iptables \subseteq leaked
               PROVE  HostTidy
    OBVIOUS
  <2> DEFINE held == machines \cup UNION {Held(t) : t \in Task}
  <2>1. up => live = held
    BY DEF OneHolder
  <2>2. up => {Net!Tap(slot[m]) : m \in held} \subseteq taps
    BY <2>1 DEF Net!IInv, Net!LiveHasTap
  <2>3. (up /\ ~DeleteMayFail) => taps = {Net!Tap(slot[m]) : m \in held}
    BY <2>1 DEF Net!Tidy
  <2>4. (~Net!Exists /\ ~DeleteMayFail) => taps = {}
    BY DEF Net!Tidy
  <2> QED
    BY <2>2, <2>3, <2>4 DEF HostTidy
<1> QED
  BY <1>1, <1>2, NetRefinement, NetInvariance, HolderSafety, PTL

-----------------------------------------------------------------------------
(* Slots, processes and stacks *)

\* Until next_id has wrapped every number in use was drawn before.
Drawn ==
    drawn <= U16 =>
        /\ \A i \in DOMAIN recovered_slots : recovered_slots[i] < drawn
        /\ \A m \in Machine : m \in live \/ Alive(m) => slot[m] < drawn

\* As long as nothing failed, every process has its stack.
NoOrphan == up /\ faults = 0 => \A m \in Machine : Alive(m) => m \in live

SlotInv ==
    /\ Drawn /\ LiveVmExclusive
    /\ IsFiniteSet(live) /\ SlotsConserved /\ NoOrphan

\* The kinds of steps, as far as slots are concerned.
Quiet ==
    /\ UNCHANGED <<recovered_slots, slot, drawn>> /\ live' \subseteq live
    /\ live' = live \/ ~up' \/ faults' > 0
    /\ \A m \in Machine : Alive(m)' => Alive(m)
Spawns(m) ==
    /\ m \in live /\ UNCHANGED <<recovered_slots, slot, drawn, live>>
    /\ \A n \in Machine \ {m} : Alive(n)' => Alive(n)
Spoils ==
    (Net!TakeSlot \/ Net!next_slot_panics) /\ UNCHANGED <<slot, live, vm>> /\ faults' > 0
Fills(m) == Net!provision_stack(m) /\ vm[m] = "none" /\ UNCHANGED vm
Returns(m) == Net!reclaim(m) /\ vm' = [vm EXCEPT ![m] = "dead"]

SlotStep == Quiet \/ Spoils \/ \E m \in Machine : Spawns(m) \/ Fills(m) \/ Returns(m)

\* A step that leaves the network and the processes alone.
LEMMA QuietStep ==
    ASSUME UNCHANGED net, vm' = vm
    PROVE  SlotStep
BY DEF net, Alive, Quiet, SlotStep

\* A process that ends, or is configured, is no new process.
LEMMA QuietVm ==
    ASSUME Inv, NEW m \in Machine, UNCHANGED net,
           \/ vm' = [vm EXCEPT ![m] = "dead"]
           \/ Alive(m) /\ vm' = [vm EXCEPT ![m] = "running"]
    PROVE  SlotStep
<1>1. \A n \in Machine : Alive(n)' => Alive(n)
  BY DEF Alive, Inv, LocalType
<1> QED
  BY <1>1 DEF net, Quiet, SlotStep

\* Every step of provision is one of the kinds of SlotStep.
LEMMA ProvisionSlots ==
    ASSUME Inv, NEW t \in Task, Provision(t)
    PROVE  SlotStep
<1>1. task[t].op = "provision" => task[t].m \in Machine
  BY ProvisionShape
<1>2. CASE provision_lock(t) \/ connect_api(t) \/ accept(t) \/ accept_timeout(t)
  <2>1. UNCHANGED net /\ vm' = vm
    BY <1>2 DEF provision_lock, connect_api, accept, accept_timeout, host
  <2> QED
    BY <2>1, QuietStep
<1>3. CASE provision_stack(t)
  <2>1. Net!provision_stack(task[t].m) /\ task[t].m \in Machine
    BY <1>1, <1>3 DEF provision_stack, At
  <2>2. vm[task[t].m] = "none" /\ vm' = vm
    BY <1>3 DEF provision_stack, At, host, Inv, TaskInv, BuildStage
  <2> QED
    BY <2>1, <2>2 DEF SlotStep, Fills
<1>4. CASE provision_stack_fails(t)
  <2>1. /\ Net!provision_stack_fails \/ Net!next_slot_panics
        /\ vm' = vm /\ faults' = faults + 1
    BY <1>4 DEF provision_stack_fails, Fault, host
  <2>2. faults' > 0
    BY <2>1 DEF Inv, LocalType
  <2>3. (Net!TakeSlot \/ Net!next_slot_panics) /\ UNCHANGED <<slot, live>>
    BY <2>1 DEF Net!provision_stack_fails, Net!next_slot_panics
  <2> QED
    BY <2>1, <2>2, <2>3 DEF SlotStep, Spoils
<1>5. CASE setup_public_nat(t)
  <2>1. vm' = vm /\ UNCHANGED <<recovered_slots, slot, drawn, live>>
    BY <1>5 DEF setup_public_nat, Net!setup_public_nat, Net!AddRules, Net!pool, host
  <2> QED
    BY <2>1 DEF SlotStep, Quiet, Alive
<1>6. CASE spawn(t)
  <2> DEFINE m == task[t].m
  <2>1. /\ UNCHANGED net
        /\ vm' = vm \/ vm' = [vm EXCEPT ![m] = "spawned"]
        /\ up /\ task[t].pc = "spawn" /\ m \in Machine
    BY <1>1, <1>6 DEF spawn, At
  <2>2. m \in Held(t)
    BY <2>1, TasksAssumption DEF Held
  <2>3. m \in live
    BY <2>1, <2>2 DEF Inv, Ownership
  <2>4. \A n \in Machine \ {m} : Alive(n)' => Alive(n)
    BY <2>1 DEF Alive, Inv, LocalType
  <2>5. Spawns(m)
    BY <2>1, <2>3, <2>4 DEF Spawns, net
  <2> QED
    BY <2>1, <2>5 DEF SlotStep
<1>7. CASE start_vm(t)
  <2> DEFINE m == task[t].m
  <2>1. /\ UNCHANGED net /\ m \in Machine
        /\ vm' = vm \/ (vm[m] = "spawned" /\ vm' = [vm EXCEPT ![m] = "running"])
    BY <1>1, <1>7 DEF start_vm, At, configured
  <2>2. CASE vm' = vm
    BY <2>1, <2>2, QuietStep
  <2>3. CASE Alive(m) /\ vm' = [vm EXCEPT ![m] = "running"]
    BY <2>1, <2>3, QuietVm
  <2> QED
    BY <2>1, <2>2, <2>3 DEF Alive
<1> QED
  BY <1>2, <1>3, <1>4, <1>5, <1>6, <1>7 DEF Provision

\* So is every step of the other tasks.
LEMMA OtherSlots ==
    ASSUME Inv, NEW t \in Task, Shutdown(t) \/ Reader(t) \/ drop_held(t)
    PROVE  SlotStep
<1>1. CASE \/ deprovision_lock(t) \/ deprovision_network(t) \/ drain_lock(t)
           \/ drain_network(t) \/ send_shutdown(t) \/ join_handler(t)
           \/ read_lock(t) \/ read_done(t)
  <2>1. UNCHANGED net /\ vm' = vm
    BY <1>1 DEF deprovision_lock, deprovision_network, drain_lock, drain_network,
                send_shutdown, join_handler, read_lock, read_done, host
  <2> QED
    BY <2>1, QuietStep
<1>2. ASSUME NEW hp \in Port, NEW gp \in Port, publish_service_port(t, hp, gp) PROVE SlotStep
  <2>1. vm' = vm /\ UNCHANGED <<recovered_slots, slot, drawn, live>>
    BY <1>2 DEF publish_service_port, Net!setup_forwarding, Net!AddRules, Net!pool, host, net
  <2> QED
    BY <2>1 DEF SlotStep, Quiet, Alive
<1>3. CASE cleanup(t)
  <2>1. task[t].m \in Machine /\ Returns(task[t].m)
    BY <1>3, StoppingShape DEF cleanup, kill, Returns
  <2> QED
    BY <2>1 DEF SlotStep
<1>4. CASE drop_held(t)
  <2>1. /\ vm' = vm /\ UNCHANGED <<recovered_slots, slot, drawn>> /\ live' \subseteq live
        /\ task[t].pc = "drop" /\ faults' = faults
    BY <1>4 DEF drop_held, Net!drop, Net!DropStack, Net!pool, host
  <2>2. faults' > 0
    BY <2>1 DEF Inv, TaskInv, Takes
  <2> QED
    BY <2>1, <2>2 DEF SlotStep, Quiet, Alive
<1> QED
  BY <1>1, <1>2, <1>3, <1>4 DEF Shutdown, Reader

\* Every step is of one of the kinds; no step undoes a failure or restarts the
\* process.
LEMMA StepKinds ==
    ASSUME Inv, [Next]_vars
    PROVE  SlotStep
<1>1. CASE \/ \E t \in Rpc, m \in Machine : request_provision(t, m)
           \/ \E t \in Rpc, m \in Machine, g \in BOOLEAN : request_deprovision(t, m, g)
           \/ \E t \in Rpc : request_drain(t)
           \/ \E t \in Rpc, m \in Machine : request_publish(t, m)
           \/ \E t \in Rpc : request_read(t)
           \/ ctrl_c
  <2>1. UNCHANGED net /\ vm' = vm
    BY <1>1 DEF request_provision, request_deprovision, request_drain, request_publish,
                request_read, ctrl_c, Request, host
  <2> QED
    BY <2>1, QuietStep
<1>2. CASE \/ \E m \in Machine : CleanupStep(m) \/ packet_handler_stops(m)
           \/ \E t \in Rpc : cancel(t)
           \/ subscriber_receives \/ subscriber_leaves \/ process_exits
           \/ Terminated \/ UNCHANGED vars
  <2>1. UNCHANGED net /\ vm' = vm
    BY <1>2 DEF CleanupStep, machine_stopped, handle_machine_exit, packet_handler_stops,
                cancel, subscriber_receives, subscriber_leaves, process_exits,
                Terminated, vars, host
  <2> QED
    BY <2>1, QuietStep
<1>3. ASSUME NEW m \in Machine, vm_exits(m) PROVE SlotStep
  BY <1>3, QuietVm DEF vm_exits
<1>4. ASSUME NEW m \in Machine, exit_drop(m) PROVE SlotStep
  <2>1. /\ ~up' /\ vm' = vm /\ UNCHANGED <<recovered_slots, slot, drawn>> /\ live' \subseteq live
    BY <1>4 DEF exit_drop, Net!drop, Net!DropStack, Net!pool, host
  <2> QED
    BY <2>1 DEF SlotStep, Quiet, Alive
<1>5. CASE exit_drop_manager
  <2>1. vm' = vm /\ UNCHANGED <<recovered_slots, slot, drawn, live>>
    BY <1>5 DEF exit_drop_manager, Net!drop_manager, host
  <2> QED
    BY <2>1 DEF SlotStep, Quiet, Alive
<1> QED
  BY <1>1, <1>2, <1>3, <1>4, <1>5, ProvisionSlots, OtherSlots DEF Next, TaskStep, ExitStep

\* A failure is never forgotten and an ended process stays ended.
LEMMA NoWayBack ==
    ASSUME Inv, [Next]_vars
    PROVE  faults <= faults' /\ (up' => up)
<1> DEFINE G == faults' \in {faults, faults + 1} /\ (up' = up \/ up' = FALSE)
<1> SUFFICES G
  <2>1. ASSUME G PROVE faults <= faults'
    BY <2>1 DEF Inv, LocalType
  <2>2. ASSUME G PROVE up' => up
    BY <2>2, Zenon
  <2> QED
    BY <2>1, <2>2
<1>1. ASSUME NEW t \in Task, Provision(t) PROVE G
  BY <1>1 DEF Provision, provision_lock, provision_stack, provision_stack_fails,
     setup_public_nat, spawn, connect_api, start_vm, accept, accept_timeout, Fault
<1>2. ASSUME NEW t \in Task, Shutdown(t) PROVE G
  BY <1>2 DEF Shutdown, deprovision_lock, deprovision_network, drain_lock, drain_network,
     send_shutdown, join_handler, cleanup, Fault
<1>3. ASSUME NEW t \in Task, Reader(t) \/ drop_held(t) PROVE G
  BY <1>3 DEF Reader, read_lock, read_done, publish_service_port, drop_held
<1>4. CASE \/ \E t \in Rpc, m \in Machine : request_provision(t, m)
           \/ \E t \in Rpc, m \in Machine, g \in BOOLEAN : request_deprovision(t, m, g)
           \/ \E t \in Rpc : request_drain(t)
           \/ \E t \in Rpc, m \in Machine : request_publish(t, m)
           \/ \E t \in Rpc : request_read(t)
           \/ ctrl_c
  <2>1. UNCHANGED <<up, faults>>
    BY <1>4 DEF request_provision, request_deprovision, request_drain, request_publish,
                request_read, ctrl_c, Request
  <2> QED
    BY <2>1
<1>5. CASE \/ \E m \in Machine : CleanupStep(m) \/ packet_handler_stops(m) \/ vm_exits(m)
           \/ subscriber_receives \/ subscriber_leaves \/ Terminated \/ UNCHANGED vars
  <2>1. UNCHANGED <<up, faults>>
    BY <1>5 DEF CleanupStep, machine_stopped, handle_machine_exit, packet_handler_stops,
                vm_exits, subscriber_receives, subscriber_leaves, Terminated, vars
  <2> QED
    BY <2>1
<1>6. CASE ExitStep \/ \E t \in Rpc : cancel(t)
  BY <1>6 DEF ExitStep, process_exits, exit_drop, exit_drop_manager, cancel, Fault
<1> QED
  BY <1>1, <1>2, <1>3, <1>4, <1>5, <1>6 DEF Next, TaskStep

\* What next_slot() takes from the pool, or the counter.
LEMMA TakeSlotFacts ==
    ASSUME Net!IInv, Net!TakeSlot
    PROVE  /\ Net!next_slot \in Nat /\ drawn \in Nat /\ drawn' \in Nat
           /\ \A i \in DOMAIN recovered_slots' :
                 /\ i \in DOMAIN recovered_slots
                 /\ recovered_slots'[i] = recovered_slots[i]
                 /\ recovered_slots'[i] # Net!next_slot
           /\ \/ /\ drawn' = drawn /\ Len(recovered_slots') = Len(recovered_slots) - 1
                 /\ \E i \in DOMAIN recovered_slots : Net!next_slot = recovered_slots[i]
              \/ /\ drawn' = drawn + 1 /\ Len(recovered_slots') = Len(recovered_slots)
                 /\ drawn < U16 => Net!next_slot = drawn
<1>1. Net!TypeOK /\ Net!PoolIsInjective /\ Net!CounterCounts
  BY DEF Net!IInv, Net!SlotsExclusive
<1>2. /\ Net!next_slot \in Nat /\ drawn' \in Nat
  BY <1>1, NetConstants, Net!TakeSlotType
<1>3. \A i \in DOMAIN recovered_slots' :
         /\ i \in DOMAIN recovered_slots
         /\ recovered_slots'[i] = recovered_slots[i]
         /\ recovered_slots'[i] # Net!next_slot
  BY <1>1, NetConstants, Net!TakeSlotPool
<1>4. recovered_slots \in Seq(Nat) /\ drawn \in Nat
  BY <1>1 DEF Net!TypeOK
<1>5. CASE recovered_slots # <<>>
  <2>1. /\ recovered_slots' = SubSeq(recovered_slots, 1, Len(recovered_slots) - 1)
        /\ drawn' = drawn /\ Net!next_slot = recovered_slots[Len(recovered_slots)]
    BY <1>5 DEF Net!TakeSlot, Net!next_slot
  <2>2. Len(recovered_slots) \in DOMAIN recovered_slots
    BY <1>4, <1>5
  <2>3. Len(recovered_slots') = Len(recovered_slots) - 1
    <3> DEFINE n == Len(recovered_slots)
    <3>1. n \in Nat /\ n > 0 /\ recovered_slots' = SubSeq(recovered_slots, 1, n - 1)
      BY <1>4, <1>5, <2>1
    <3> HIDE DEF n
    <3>2. Len(recovered_slots') = n - 1
      BY <1>4, <3>1
    <3> QED
      BY <3>2 DEF n
  <2>4. \E i \in DOMAIN recovered_slots : Net!next_slot = recovered_slots[i]
    BY <2>1, <2>2
  <2> QED
    BY <1>2, <1>3, <1>4, <2>1, <2>3, <2>4, Zenon
<1>6. CASE recovered_slots = <<>>
  <2>1. /\ recovered_slots' = recovered_slots /\ drawn' = drawn + 1 /\ Net!next_slot = next_id
    BY <1>6 DEF Net!TakeSlot, Net!next_slot
  <2> QED
    BY <1>1, <1>2, <1>3, <1>4, <2>1 DEF Net!CounterCounts
<1> QED
  BY <1>5, <1>6

\* A quiet step keeps the slot invariant.
LEMMA QuietSlots ==
    ASSUME SlotInv, Net!IInv, Quiet, faults \in Nat, faults' \in Nat, faults <= faults', up' => up
    PROVE  SlotInv'
<1>1. Drawn'
  BY DEF SlotInv, Drawn, Quiet
<1>2. LiveVmExclusive'
  BY DEF SlotInv, LiveVmExclusive, Quiet
<1>3. IsFiniteSet(live')
  BY FS_Subset DEF SlotInv, Quiet
<1>4. SlotsConserved' /\ NoOrphan'
  BY DEF SlotInv, SlotsConserved, NoOrphan, Quiet
<1> QED
  BY <1>1, <1>2, <1>3, <1>4 DEF SlotInv

\* So does the start of a VM process.
LEMMA SpawnSlots ==
    ASSUME SlotInv, Net!IInv, NEW m \in Machine, Spawns(m),
           faults \in Nat, faults' \in Nat, faults <= faults', up' => up
    PROVE  SlotInv'
<1>1. Drawn'
  BY DEF SlotInv, Drawn, Spawns
<1>2. LiveVmExclusive'
  <2> SUFFICES ASSUME drawn <= U16, NEW k \in Machine, Alive(k)'
               PROVE  /\ \A i \in DOMAIN recovered_slots : recovered_slots[i] # slot[k]
                      /\ \A n \in Machine :
                            (n \in live \/ Alive(n)') /\ slot[n] = slot[k] => n = k
    BY DEF LiveVmExclusive, Spawns, Net!IInv, Net!TypeOK
  <2>1. /\ \A i \in DOMAIN recovered_slots : recovered_slots[i] # slot[m]
        /\ \A n \in live : slot[n] = slot[m] => n = m
    BY DEF Net!IInv, Net!SlotsExclusive, Net!LiveSlotsDistinct, Net!PoolNotLive, Spawns
  <2>2. ASSUME NEW n \in Machine, Alive(n)
        PROVE  /\ \A i \in DOMAIN recovered_slots : recovered_slots[i] # slot[n]
               /\ \A j \in live : slot[j] = slot[n] => j = n
               /\ \A j \in Machine : Alive(j) /\ slot[j] = slot[n] => j = n
    BY <2>2 DEF SlotInv, LiveVmExclusive
  <2>3. \A n \in Machine : Alive(n)' => n = m \/ Alive(n)
    BY DEF Spawns
  <2>4. m \in live
    BY DEF Spawns
  <2> QED
    BY <2>1, <2>2, <2>3, <2>4
<1>3. IsFiniteSet(live') /\ SlotsConserved' /\ NoOrphan'
  BY DEF SlotInv, SlotsConserved, NoOrphan, Spawns
<1> QED
  BY <1>1, <1>2, <1>3 DEF SlotInv

\* So does a fault, after which the invariant promises less.
LEMMA SpoilSlots ==
    ASSUME SlotInv, Net!IInv, Spoils
    PROVE  SlotInv'
<1>1. /\ \A i \in DOMAIN recovered_slots' :
            i \in DOMAIN recovered_slots /\ recovered_slots'[i] = recovered_slots[i]
      /\ drawn \in Nat /\ drawn' \in Nat /\ drawn <= drawn'
  BY TakeSlotFacts DEF Spoils, Net!next_slot_panics, Net!IInv, Net!TypeOK
<1>2. UNCHANGED <<slot, live, vm>> /\ faults' # 0
  BY DEF Spoils
<1>3. Drawn'
  <2> SUFFICES ASSUME drawn' <= U16
               PROVE  /\ \A i \in DOMAIN recovered_slots' : recovered_slots'[i] < drawn'
                      /\ \A m \in Machine : m \in live \/ Alive(m) => slot[m] < drawn'
    BY <1>2 DEF Drawn, Alive
  <2>1. /\ \A i \in DOMAIN recovered_slots : recovered_slots[i] < drawn
        /\ \A m \in Machine : m \in live \/ Alive(m) => slot[m] < drawn
    BY <1>1, NetAssumption DEF SlotInv, Drawn
  <2>2. recovered_slots \in Seq(Nat) /\ slot \in [Machine -> Nat]
    BY DEF Net!IInv, Net!TypeOK
  <2> QED
    BY <1>1, <2>1, <2>2
<1>4. LiveVmExclusive'
  <2>1. drawn' <= U16 => drawn <= U16
    BY <1>1, NetAssumption
  <2> QED
    BY <1>1, <1>2, <2>1 DEF SlotInv, LiveVmExclusive, Alive
<1> QED
  BY <1>2, <1>3, <1>4 DEF SlotInv, SlotsConserved, NoOrphan

\* A new stack gets a number nobody uses: one from the pool, or the next one.
LEMMA FillSlots ==
    ASSUME SlotInv, Net!IInv, Net!IInv', NEW m \in Machine, Fills(m),
           faults \in Nat, faults' \in Nat, faults <= faults', up' => up
    PROVE  SlotInv'
<1> DEFINE new == Net!next_slot
<1>1. /\ m \notin live /\ live' = live \cup {m} /\ slot' = [slot EXCEPT ![m] = new]
      /\ vm[m] = "none" /\ vm' = vm /\ Net!TakeSlot
  BY DEF Fills, Net!provision_stack
<1>2. /\ new \in Nat /\ drawn \in Nat /\ drawn' \in Nat
      /\ \A i \in DOMAIN recovered_slots' :
            /\ i \in DOMAIN recovered_slots
            /\ recovered_slots'[i] = recovered_slots[i]
            /\ recovered_slots'[i] # new
      /\ \/ /\ drawn' = drawn /\ Len(recovered_slots') = Len(recovered_slots) - 1
            /\ \E i \in DOMAIN recovered_slots : new = recovered_slots[i]
         \/ /\ drawn' = drawn + 1 /\ Len(recovered_slots') = Len(recovered_slots)
            /\ drawn < U16 => new = drawn
  BY <1>1, TakeSlotFacts
<1> HIDE DEF new
<1>3. /\ slot \in [Machine -> Nat] /\ slot'[m] = new
      /\ \A k \in Machine \ {m} : slot'[k] = slot[k]
      /\ recovered_slots \in Seq(Nat) /\ live \subseteq Machine
  BY <1>1 DEF Net!IInv, Net!TypeOK
<1>4. ~Alive(m) /\ \A k \in Machine : Alive(k)' <=> Alive(k)
  BY <1>1 DEF Alive
<1>5. drawn <= drawn' /\ (drawn' <= U16 => drawn <= U16) /\ U16 \in Nat
  BY <1>2, NetAssumption
<1>6. ASSUME drawn' <= U16
      PROVE  /\ new < drawn'
             /\ \A i \in DOMAIN recovered_slots : recovered_slots[i] < drawn'
             /\ \A k \in Machine : k \in live \/ Alive(k) => slot[k] < drawn'
             /\ \A k \in Machine : Alive(k) => slot[k] # new
  <2>1. /\ \A i \in DOMAIN recovered_slots : recovered_slots[i] < drawn
        /\ \A k \in Machine : k \in live \/ Alive(k) => slot[k] < drawn
        /\ \A k \in Machine : Alive(k) =>
              \A i \in DOMAIN recovered_slots : recovered_slots[i] # slot[k]
    BY <1>5, <1>6 DEF SlotInv, Drawn, LiveVmExclusive
  <2>2. \A i \in DOMAIN recovered_slots : recovered_slots[i] \in Nat
    BY <1>3
  <2>3. \A k \in Machine : slot[k] \in Nat
    BY <1>3
  <2>4. CASE drawn' = drawn /\ \E i \in DOMAIN recovered_slots : new = recovered_slots[i]
    BY <2>1, <2>4
  <2>5. CASE drawn' = drawn + 1 /\ (drawn < U16 => new = drawn)
    BY <1>2, <1>5, <1>6, <2>1, <2>2, <2>3, <2>5
  <2> QED
    BY <1>2, <2>4, <2>5
<1>7. Drawn'
  BY <1>1, <1>2, <1>3, <1>4, <1>6 DEF Drawn
<1>8. LiveVmExclusive'
  <2> SUFFICES ASSUME drawn' <= U16, NEW k \in Machine, Alive(k)'
               PROVE  /\ \A i \in DOMAIN recovered_slots' : recovered_slots'[i] # slot'[k]
                      /\ \A n \in Machine :
                            (n \in live' \/ Alive(n)') /\ slot'[n] = slot'[k] => n = k
    BY <1>1, <1>3 DEF LiveVmExclusive
  <2>1. Alive(k) /\ k # m /\ slot'[k] = slot[k] /\ slot[k] # new
    BY <1>3, <1>4, <1>6
  <2>2. /\ \A i \in DOMAIN recovered_slots : recovered_slots[i] # slot[k]
        /\ \A n \in Machine : (n \in live \/ Alive(n)) /\ slot[n] = slot[k] => n = k
    BY <1>5, <2>1 DEF SlotInv, LiveVmExclusive
  <2> QED
    BY <1>1, <1>2, <1>3, <1>4, <2>1, <2>2
<1>9. IsFiniteSet(live') /\ Cardinality(live') = Cardinality(live) + 1 /\ Cardinality(live) \in Nat
  BY <1>1, FS_AddElement, FS_CardinalityType DEF SlotInv
<1>10. SlotsConserved'
  <2>1. Len(recovered_slots) \in Nat
    BY <1>3
  <2> QED
    BY <1>2, <1>9, <2>1 DEF SlotInv, SlotsConserved
<1>11. NoOrphan'
  BY <1>1, <1>4 DEF SlotInv, NoOrphan
<1> QED
  BY <1>7, <1>8, <1>9, <1>10, <1>11 DEF SlotInv

\* The process is dead before its number can be drawn again.
LEMMA ReturnSlots ==
    ASSUME SlotInv, Net!IInv, NEW m \in Machine, Returns(m), LocalType,
           faults' \in Nat, faults <= faults', up' => up
    PROVE  SlotInv'
<1>1. /\ m \in live /\ live' = live \ {m} /\ slot' = slot /\ drawn' = drawn
      /\ recovered_slots' = Append(recovered_slots, slot[m])
      /\ vm' = [vm EXCEPT ![m] = "dead"]
  BY DEF Returns, Net!reclaim, Net!DropStack
<1>2. /\ slot \in [Machine -> Nat] /\ recovered_slots \in Seq(Nat) /\ live \subseteq Machine
  BY DEF Net!IInv, Net!TypeOK
<1>3. \A k \in Machine : Alive(k)' <=> (k # m /\ Alive(k))
  BY <1>1 DEF Alive, LocalType
<1>4. /\ Len(recovered_slots) \in Nat /\ Len(recovered_slots') = Len(recovered_slots) + 1
      /\ \A i \in DOMAIN recovered_slots' :
            \/ i \in DOMAIN recovered_slots /\ recovered_slots'[i] = recovered_slots[i]
            \/ recovered_slots'[i] = slot[m]
  BY <1>1, <1>2
<1>5. Drawn'
  BY <1>1, <1>3, <1>4 DEF SlotInv, Drawn
<1>6. LiveVmExclusive'
  <2> SUFFICES ASSUME drawn <= U16, NEW k \in Machine, Alive(k), k # m
               PROVE  /\ \A i \in DOMAIN recovered_slots' : recovered_slots'[i] # slot[k]
                      /\ \A n \in Machine :
                            (n \in live' \/ Alive(n)') /\ slot[n] = slot[k] => n = k
    BY <1>1, <1>2, <1>3 DEF LiveVmExclusive
  <2>1. /\ \A i \in DOMAIN recovered_slots : recovered_slots[i] # slot[k]
        /\ \A n \in Machine : (n \in live \/ Alive(n)) /\ slot[n] = slot[k] => n = k
    BY DEF SlotInv, LiveVmExclusive
  <2>2. slot[m] # slot[k]
    BY <1>1, <2>1
  <2> QED
    BY <1>1, <1>3, <1>4, <2>1, <2>2
<1>7. /\ IsFiniteSet(live') /\ Cardinality(live') = Cardinality(live) - 1
      /\ Cardinality(live) \in Nat
  BY <1>1, FS_RemoveElement, FS_CardinalityType DEF SlotInv
<1>8. SlotsConserved'
  BY <1>1, <1>4, <1>7 DEF SlotInv, SlotsConserved, LocalType
<1>9. NoOrphan'
  BY <1>1, <1>3 DEF SlotInv, NoOrphan, LocalType
<1> QED
  BY <1>5, <1>6, <1>7, <1>8, <1>9 DEF SlotInv

\* Every step of the node manager keeps the slot invariant.
LEMMA SlotInvStep == Inv /\ Net!IInv /\ SlotInv /\ [Next]_vars => SlotInv'
<1> SUFFICES ASSUME Inv, Net!IInv, SlotInv, [Next]_vars PROVE SlotInv'
  OBVIOUS
<1>1. LocalType /\ Inv' /\ faults \in Nat /\ faults' \in Nat /\ faults <= faults' /\ (up' => up)
  BY NextInv, NoWayBack DEF Inv, LocalType
<1>2. Net!IInv'
  BY NetStep, NetConstants, Net!NextInv
<1>3. SlotStep
  BY StepKinds
<1> QED
  BY <1>1, <1>2, <1>3, QuietSlots, SpawnSlots, SpoilSlots, FillSlots, ReturnSlots DEF SlotStep

\* The slot invariant holds throughout.
LEMMA SlotInvariance == Spec => []SlotInv
<1>1. Init => SlotInv
  <2> SUFFICES ASSUME Init PROVE SlotInv
    OBVIOUS
  <2>1. /\ live = {} /\ recovered_slots = <<>> /\ drawn = 0
        /\ \A m \in Machine : ~Alive(m)
    BY DEF Init, Net!Init, Alive
  <2>2. IsFiniteSet(live) /\ Cardinality(live) = 0
    BY <2>1, FS_EmptySet
  <2> QED
    BY <2>1, <2>2 DEF SlotInv, Drawn, LiveVmExclusive, SlotsConserved, NoOrphan
<1> QED
  BY <1>1, SlotInvStep, Invariance, NetInvariance, PTL DEF Spec

\* The network slot a running process was configured with is neither free nor
\* another machine's, whichever way the process was abandoned, until next_id has
\* wrapped.
THEOREM VmSafety == Spec => []LiveVmExclusive
<1>1. SlotInv => LiveVmExclusive
  BY DEF SlotInv
<1> QED
  BY <1>1, SlotInvariance, PTL

\* As long as nothing fails no slot is lost.
THEOREM SlotConservation == Spec => []SlotsConserved
<1>1. SlotInv => SlotsConserved
  BY DEF SlotInv
<1> QED
  BY <1>1, SlotInvariance, PTL

-----------------------------------------------------------------------------
(* Drains *)

\* A task changes by its own steps only, but for the cleanup task accept() spawns.
LEMMA OwnSteps ==
    ASSUME Inv, NEW t \in Task, NEW u \in Task, u # t, t \notin Machine \/ ~accept(u),
           TaskStep(u) \/ (u \in Rpc /\ cancel(u)) \/ (u \in Machine /\ CleanupStep(u))
    PROVE  task'[t] = task[t]
<1>1. task \in [Task -> TaskRecord]
  BY DEF Inv, LocalType
<1>2. CASE Provision(u)
  <2>1. CASE accept(u)
    <3>1. task[u].m \in Machine
      BY <2>1, ProvisionShape DEF accept, At
    <3> QED
      BY <1>1, <2>1, <3>1 DEF accept
  <2>2. CASE provision_lock(u) \/ provision_stack(u) \/ provision_stack_fails(u)
             \/ setup_public_nat(u)
    BY <1>1, <2>2 DEF provision_lock, provision_stack, provision_stack_fails, setup_public_nat,
                      Goto, Finish
  <2>3. CASE spawn(u) \/ connect_api(u) \/ start_vm(u) \/ accept_timeout(u)
    BY <1>1, <2>3 DEF spawn, connect_api, start_vm, accept_timeout, Goto
  <2> QED
    BY <1>2, <2>1, <2>2, <2>3 DEF Provision
<1>3. CASE Shutdown(u)
  BY <1>1, <1>3 DEF Shutdown, deprovision_lock, deprovision_network, drain_lock, drain_network,
                    send_shutdown, join_handler, cleanup, Goto, Finish
<1>4. CASE Reader(u) \/ drop_held(u)
  BY <1>1, <1>4 DEF Reader, read_lock, read_done, publish_service_port, drop_held, Goto, Finish
<1>5. CASE cancel(u)
  BY <1>1, <1>5 DEF cancel, Goto, Finish
<1>6. CASE CleanupStep(u)
  BY <1>1, <1>6 DEF CleanupStep, machine_stopped, handle_machine_exit, Goto
<1> QED
  BY <1>2, <1>3, <1>4, <1>5, <1>6 DEF TaskStep

\* When a drain is over and nothing has failed, no process is left.
LEMMA DrainEnds ==
    ASSUME Inv, SlotInv, [Next]_vars, NEW t \in Task, task[t].op = "drain",
           task'[t].op # "drain", up', faults' = 0
    PROVE  \A m \in Machine : ~(vm'[m] \in {"spawned", "running"})
<1>1. /\ t \in Rpc \cup {Ctrl} /\ t \in Task \ Machine /\ task[t] # Idle
      /\ faults = 0 /\ up /\ faults \in Nat
  <2>1. t \in Rpc \cup {Ctrl} /\ t \in Task \ Machine
    BY TasksAssumption DEF Inv, TaskInv, Shape
  <2>2. task[t] # Idle
    BY DEF Idle
  <2> QED
    BY <2>1, <2>2, NoWayBack DEF Inv, LocalType
<1>2. \A m \in Machine : Alive(m) => m \in live
  BY <1>1 DEF SlotInv, NoOrphan
<1>3. task[t].pc # "drop"
  BY <1>1 DEF Inv, TaskInv, Takes
<1>4. ASSUME NEW u \in Task, TaskStep(u) \/ (u \in Rpc /\ cancel(u)) \/ (u \in Machine /\ CleanupStep(u))
      PROVE  u = t
  BY <1>1, <1>4, OwnSteps
<1>5. CASE TaskStep(t)
  <2>1. CASE drain_network(t)
    <3>1. machines = {} /\ task[t].pc = "net" /\ vm' = vm
      <4>1. ASSUME NEW m, task' = [task EXCEPT ![t].pc = "comm", ![t].m = m,
                                                ![t].rest = machines \ {m}]
            PROVE  task'[t].op = task[t].op
        BY <4>1 DEF Inv, LocalType, TaskRecord
      <4> QED
        BY <2>1, <4>1 DEF drain_network, At, host
    <3>2. Held(t) = {} /\ mwriter = t
      BY <3>1, TasksAssumption DEF Inv, TaskInv, Shape, Held, Guards, Writing
    <3>3. \A m \in Machine : m \notin live
      BY <1>1, <3>1, <3>2, WriterOwns
    <3> QED
      BY <1>2, <3>1, <3>3 DEF Alive
  <2>2. CASE cleanup(t)
    <3>1. /\ task[t].pc = "kill" /\ task[t].rest = {} /\ vm' = [vm EXCEPT ![task[t].m] = "dead"]
      <4>1. ASSUME NEW n, task' = [task EXCEPT ![t].pc = "comm", ![t].m = n, ![t].rest = @ \ {n}]
            PROVE  task'[t].op = task[t].op
        BY <4>1 DEF Inv, LocalType, TaskRecord
      <4> QED
        BY <2>2, <4>1 DEF cleanup, kill
    <3>2. Held(t) = {task[t].m} /\ mwriter = t
      BY <3>1, StoppingShape
    <3>3. machines = {}
      BY <3>1 DEF Inv, TaskInv, Takes
    <3>4. \A m \in Machine : m \in live => m = task[t].m
      BY <1>1, <3>2, <3>3, WriterOwns
    <3> QED
      BY <1>2, <3>1, <3>4 DEF Alive, Inv, LocalType
  <2>3. CASE drain_lock(t) \/ send_shutdown(t) \/ join_handler(t)
    <3>1. PICK pc : Goto(t, pc)
      BY <2>3 DEF drain_lock, send_shutdown, join_handler
    <3> QED
      BY <3>1 DEF Goto, Inv, LocalType, TaskRecord
  <2>4. ~Provision(t) /\ ~Reader(t) /\ ~drop_held(t)
    BY <1>3 DEF Provision, Reader, provision_lock, provision_stack, provision_stack_fails,
                setup_public_nat, spawn, connect_api, start_vm, accept, accept_timeout,
                read_lock, read_done, publish_service_port, drop_held, At
  <2>5. ~deprovision_lock(t) /\ ~deprovision_network(t)
    BY DEF deprovision_lock, deprovision_network, IsDeprovision
  <2> QED
    BY <1>5, <2>1, <2>2, <2>3, <2>4, <2>5 DEF TaskStep, Shutdown
<1>6. ~cancel(t)
  BY <1>1 DEF cancel, Fault
<1>7. CASE \/ \E u \in Rpc, m \in Machine : request_provision(u, m)
           \/ \E u \in Rpc, m \in Machine, g \in BOOLEAN : request_deprovision(u, m, g)
           \/ \E u \in Rpc : request_drain(u)
           \/ \E u \in Rpc, m \in Machine : request_publish(u, m)
           \/ \E u \in Rpc : request_read(u)
           \/ ctrl_c
  <2>1. PICK u \in Task : \E op, m, g : Request(u, op, m, g)
    BY <1>7 DEF request_provision, request_deprovision, request_drain, request_publish,
                request_read, ctrl_c, Task
  <2>2. u # t
    BY <1>1, <2>1 DEF Request
  <2>3. task'[t] = task[t]
    BY <2>1, <2>2 DEF Request, Inv, LocalType
  <2> QED
    BY <2>3
<1>8. CASE \/ \E m \in Machine : vm_exits(m) \/ packet_handler_stops(m)
           \/ subscriber_receives \/ subscriber_leaves \/ ExitStep
           \/ Terminated \/ UNCHANGED vars
  <2>1. task' = task \/ ~up'
    BY <1>8 DEF vm_exits, packet_handler_stops, subscriber_receives, subscriber_leaves,
                ExitStep, process_exits, exit_drop, exit_drop_manager, Terminated, vars
  <2> QED
    BY <2>1
<1>9. \A m \in Machine : m \in Task
  BY DEF Task
<1>10. ~\E m \in Machine : CleanupStep(m)
  BY <1>1, <1>4, <1>9
<1>11. ~\E u \in Rpc : cancel(u)
  BY <1>4, <1>6 DEF Task
<1> QED
  BY <1>4, <1>5, <1>7, <1>8, <1>10, <1>11 DEF Next

\* Unless something failed before, no firecracker process outlives a drain.
THEOREM DrainSafety == Spec => DrainEmpties
<1> DEFINE A == \A t \in Task :
                   (task[t].op = "drain" /\ task'[t].op # "drain" /\ up' /\ faults' = 0)
                       => \A m \in Machine : ~(vm'[m] \in {"spawned", "running"})
<1>1. Inv /\ SlotInv /\ [Next]_vars => [A]_vars
  BY DrainEnds
<1> QED
  BY <1>1, Invariance, SlotInvariance, PTL DEF Spec, DrainEmpties

-----------------------------------------------------------------------------
(* The life of a machine *)

\* The phase of a machine by who holds it.
Phases ==
    \A m \in Machine :
        /\ m \in machines => PhaseOf(m) = "listed"
        /\ \A t \in Task : m \in Held(t) =>
              PhaseOf(m) = IF task[t].op = "provision" THEN "starting" ELSE "stopping"
        /\ (m \notin machines /\ \A t \in Task : m \notin Held(t)) =>
              PhaseOf(m) = IF vm[m] = "none" THEN "absent"
                           ELSE IF Alive(m) THEN "abandoned" ELSE "gone"

\* The phase of a machine, from its holder.
LEMMA PhaseFacts == Inv => Phases
<1> SUFFICES ASSUME Inv, NEW m \in Machine
             PROVE  /\ m \in machines => PhaseOf(m) = "listed"
                    /\ \A t \in Task : m \in Held(t) =>
                          PhaseOf(m) = IF task[t].op = "provision" THEN "starting" ELSE "stopping"
                    /\ (m \notin machines /\ \A t \in Task : m \notin Held(t)) =>
                          PhaseOf(m) = IF vm[m] = "none" THEN "absent"
                                       ELSE IF Alive(m) THEN "abandoned" ELSE "gone"
  BY DEF Phases
<1>1. m \in machines => \A t \in Task : m \notin Held(t)
  BY DEF Inv, Ownership, Down
<1>2. \A t, u \in Task : m \in Held(t) /\ m \in Held(u) => t = u
  BY HoldersWrite
<1>3. CASE m \in machines
  <2>1. PhaseOf(m) = "listed"
    BY <1>1, <1>3 DEF PhaseOf
  <2> QED
    BY <1>1, <1>3, <2>1
<1>4. ASSUME m \notin machines, NEW t \in Task, m \in Held(t)
      PROVE  PhaseOf(m) = IF task[t].op = "provision" THEN "starting" ELSE "stopping"
  BY <1>2, <1>4 DEF PhaseOf
<1>5. CASE m \notin machines /\ \A t \in Task : m \notin Held(t)
  <2>1. PhaseOf(m) = CASE vm[m] = "none" -> "absent" [] Alive(m) -> "abandoned" [] OTHER -> "gone"
    BY <1>5 DEF PhaseOf
  <2> QED
    BY <1>5, <2>1 DEF Alive
<1> QED
  BY <1>1, <1>3, <1>4, <1>5

\* The same after the step.
LEMMA PhaseFactsNext == Inv' => Phases'
BY PhaseFacts, PTL

\* A machine's phase stays when its holder does, and its process if it has none.
LEMMA PhaseKept ==
    ASSUME Phases, Phases', NEW m \in Machine, m \in machines' <=> m \in machines,
           \A t \in Task : m \in Held(t)' <=> m \in Held(t),
           \A t \in Task : m \in Held(t) => task'[t].op = task[t].op,
           (m \notin machines /\ \A t \in Task : m \notin Held(t)) => vm'[m] = vm[m]
    PROVE  PhaseOf(m)' = PhaseOf(m)
<1>1. CASE m \in machines
  BY <1>1 DEF Phases
<1>2. ASSUME NEW t \in Task, m \in Held(t) PROVE PhaseOf(m)' = PhaseOf(m)
  <2>1. PhaseOf(m) = IF task[t].op = "provision" THEN "starting" ELSE "stopping"
    BY <1>2 DEF Phases
  <2>2. PhaseOf(m)' = IF task'[t].op = "provision" THEN "starting" ELSE "stopping"
    BY <1>2 DEF Phases
  <2> QED
    BY <1>2, <2>1, <2>2
<1>3. CASE m \notin machines /\ \A t \in Task : m \notin Held(t)
  <2>1. PhaseOf(m) = IF vm[m] = "none" THEN "absent" ELSE IF Alive(m) THEN "abandoned" ELSE "gone"
    BY <1>3 DEF Phases
  <2>2. PhaseOf(m)' =
          IF vm'[m] = "none" THEN "absent" ELSE IF Alive(m)' THEN "abandoned" ELSE "gone"
    BY <1>3 DEF Phases
  <2> QED
    BY <1>3, <2>1, <2>2 DEF Alive
<1> QED
  BY <1>1, <1>2, <1>3

\* A task keeps what it holds.
SameHands(t) == Held(t)' = Held(t) /\ (Held(t) # {} => task'[t].op = task[t].op)

\* A step that leaves every machine in its hands is a stutter of Machines.
LEMMA StillLife ==
    ASSUME Inv, Inv', up' = up, machines' = machines, \A t \in Task : SameHands(t),
           \A m \in Machine :
               (m \notin machines /\ \A t \in Task : m \notin Held(t)) => vm'[m] = vm[m]
    PROVE  UNCHANGED Life!vars
<1>1. Phases /\ Phases'
  BY PhaseFacts, PhaseFactsNext
<1>2. \A m \in Machine : PhaseOf(m)' = PhaseOf(m)
  BY <1>1, PhaseKept DEF SameHands
<1>3. Phase' = Phase
  BY <1>2 DEF Phase
<1> QED
  BY <1>3 DEF Life!vars

\* The phase of one machine changes.
LEMMA OnePhase ==
    ASSUME Inv, Inv', NEW m \in Machine,
           \A n \in Machine \ {m} :
               /\ n \in machines' <=> n \in machines
               /\ \A t \in Task : n \in Held(t)' <=> n \in Held(t)
               /\ \A t \in Task : n \in Held(t) => task'[t].op = task[t].op
               /\ (n \notin machines /\ \A t \in Task : n \notin Held(t)) => vm'[n] = vm[n]
    PROVE  Phases /\ Phases' /\ Phase' = [Phase EXCEPT ![m] = PhaseOf(m)']
<1>1. Phases /\ Phases'
  BY PhaseFacts, PhaseFactsNext
<1>2. \A n \in Machine \ {m} : PhaseOf(n)' = PhaseOf(n)
  BY <1>1, PhaseKept
<1>3. Phase' = [Phase EXCEPT ![m] = PhaseOf(m)']
  BY <1>2 DEF Phase
<1> QED
  BY <1>1, <1>3

\* Nobody starts or stops a machine while the write lock is free or just taken.
LEMMA NotBusy ==
    ASSUME Phases, \A t \in Task : Held(t) = {}
    PROVE  ~Life!Busy
<1>1. \A m \in Machine : PhaseOf(m) \in {"listed", "absent", "abandoned", "gone"}
  BY DEF Phases
<1> QED
  BY <1>1 DEF Life!Busy, Phase

\* provision_stack() is the start of a machine's life.
LEMMA LifeStart ==
    ASSUME Inv, Inv', NEW t \in Task, provision_stack(t)
    PROVE  Life!Next
<1>1. PICK m \in Machine : m = task[t].m /\ task[t].op = "provision" /\ task[t].pc = "stack"
  BY ProvisionShape DEF provision_stack, At
<1>2. /\ up /\ up' = up /\ Goto(t, "nat") /\ vm' = vm /\ machines' = machines
      /\ m \notin live /\ vm[m] = "none"
  BY <1>1 DEF provision_stack, At, host, Net!provision_stack, Inv, TaskInv, BuildStage
<1>3. /\ task'[t].pc = "nat" /\ task'[t].op = "provision" /\ task'[t].m = m
      /\ task'[t].rest = {} /\ \A u \in Task \ {t} : task'[u] = task[u]
  BY <1>1, <1>2, GotoFacts, ProvisionShape DEF Inv, Places
<1>4. Held(t) = {} /\ Held(t)' = {m} /\ mwriter = t
  BY <1>1, <1>3, TasksAssumption DEF Held, Inv, TaskInv, Guards, Writing
<1>5. \A u \in Task \ {t} : Held(u) = {} /\ Held(u)' = {}
  <2>1. \A u \in Task \ {t} : Held(u) = {}
    BY <1>2, <1>4, WriterOwns
  <2> QED
    BY <1>3, <2>1 DEF Held
<1>6. m \notin machines
  BY <1>2 DEF Inv, Ownership
<1>7. Phases /\ Phases' /\ Phase' = [Phase EXCEPT ![m] = PhaseOf(m)']
  BY <1>2, <1>4, <1>5, OnePhase
<1>8. PhaseOf(m) = "absent" /\ PhaseOf(m)' = "starting"
  BY <1>2, <1>3, <1>4, <1>5, <1>6, <1>7 DEF Phases
<1>9. ~Life!Busy
  BY <1>4, <1>5, <1>7, NotBusy
<1>10. Life!Start(m)
  BY <1>2, <1>7, <1>8, <1>9 DEF Life!Start, Phase
<1> QED
  BY <1>10 DEF Life!Next

\* accept() lists it.
LEMMA LifeAccept ==
    ASSUME Inv, Inv', NEW t \in Task, accept(t)
    PROVE  Life!Next
<1>1. PICK m \in Machine : m = task[t].m /\ task[t].op = "provision" /\ task[t].pc = "accept"
  BY ProvisionShape DEF accept, At
<1> DEFINE k == [Idle EXCEPT !.pc = "wait", !.op = "cleanup", !.m = m]
<1>2. /\ up /\ up' = up /\ vm' = vm /\ machines' = machines \cup {m}
      /\ task' = [task EXCEPT ![t] = Idle, ![m] = k]
  BY <1>1 DEF accept, At
<1>3. k.pc = "wait" /\ Idle.pc = "idle"
  BY DEF Idle
<1> HIDE DEF k
<1>4. /\ task'[t].pc \in {"idle", "wait"} /\ task'[m].pc \in {"idle", "wait"}
      /\ \A u \in Task \ {t, m} : task'[u] = task[u]
  BY <1>2, <1>3 DEF Inv, LocalType, Task
<1>5. Held(t) = {m} /\ mwriter = t
  BY <1>1, ProvisionShape DEF HoldsMachines, Inv, TaskInv, Guards, Writing
<1>6. \A u \in Task \ {t} : Held(u) = {}
  BY <1>2, <1>5, WriterOwns
<1>7. \A u \in Task : Held(u)' = {}
  BY <1>4, <1>6 DEF Held
<1>8. Phases /\ Phases' /\ Phase' = [Phase EXCEPT ![m] = PhaseOf(m)']
  BY <1>2, <1>5, <1>6, <1>7, OnePhase
<1>9. PhaseOf(m) = "starting" /\ PhaseOf(m)' = "listed"
  BY <1>1, <1>2, <1>5, <1>8 DEF Phases
<1>10. Life!StartSucceeds(m)
  BY <1>2, <1>8, <1>9 DEF Life!StartSucceeds, Phase
<1> QED
  BY <1>10 DEF Life!Next

\* A machine leaves the hands of its holder: what is left is its process.
LEMMA LifeEnds ==
    ASSUME Inv, Inv', up, up' = up, NEW t \in Task, NEW m \in Machine, m = task[t].m,
           task[t].pc \in {"kill", "drop"}, machines' = machines,
           \A n \in Machine \ {m} : vm'[n] = vm[n],
           \/ task[t].rest = {} /\ Finish(t)
           \/ \E pc \in {"comm", "drop"}, n \in task[t].rest :
                 task' = [task EXCEPT ![t].pc = pc, ![t].m = n, ![t].rest = @ \ {n}],
           vm'[m] = "dead" \/ (task[t].pc = "drop" /\ vm'[m] = vm[m])
    PROVE  Life!Next
<1>1. /\ Held(t) = {m} \cup task[t].rest /\ m \notin task[t].rest /\ mwriter = t
      /\ task[t].rest \subseteq Machine /\ (task[t].rest # {} => task[t].op = "drain")
  BY StoppingShape
<1>2. /\ \A u \in Task \ {t} : task'[u] = task[u]
      /\ Held(t)' = task[t].rest
      /\ Held(t)' # {} => task'[t].op = task[t].op
  <2>1. CASE task[t].rest = {} /\ Finish(t)
    BY <2>1, FinishFacts DEF Inv, Held
  <2>2. ASSUME NEW pc \in {"comm", "drop"}, NEW n \in task[t].rest,
               task' = [task EXCEPT ![t].pc = pc, ![t].m = n, ![t].rest = @ \ {n}]
        PROVE  /\ \A u \in Task \ {t} : task'[u] = task[u]
               /\ Held(t)' = task[t].rest
               /\ Held(t)' # {} => task'[t].op = task[t].op
    <3>1. /\ task'[t].pc = pc /\ task'[t].op = task[t].op /\ task'[t].m = n
          /\ task'[t].rest = task[t].rest \ {n}
          /\ \A u \in Task \ {t} : task'[u] = task[u]
      BY <2>2 DEF Inv, LocalType, TaskRecord
    <3>2. n # NoMachine
      BY <1>1, TasksAssumption
    <3>3. Held(t)' = task[t].rest
      BY <3>1, <3>2 DEF Held
    <3> QED
      BY <3>1, <3>3
  <2> QED
    BY <2>1, <2>2
<1>3. \A u \in Task \ {t} : Held(u) = {} /\ Held(u)' = {}
  <2>1. \A u \in Task \ {t} : Held(u) = {}
    BY <1>1, WriterOwns
  <2> QED
    BY <1>2, <2>1 DEF Held
<1>4. \A u \in Task : m \notin Held(u)'
  BY <1>1, <1>2, <1>3
<1>5. Phases /\ Phases' /\ Phase' = [Phase EXCEPT ![m] = PhaseOf(m)']
  <2>1. ASSUME NEW n \in Machine \ {m}, NEW u \in Task
        PROVE  /\ n \in Held(u)' <=> n \in Held(u)
               /\ n \in Held(u) => task'[u].op = task[u].op
    <3>1. CASE u = t
      <4>1. n \in Held(t) <=> n \in task[t].rest
        BY <1>1
      <4>2. Held(t)' = task[t].rest /\ (Held(t)' # {} => task'[t].op = task[t].op)
        BY <1>2
      <4> QED
        BY <3>1, <4>1, <4>2
    <3>2. CASE u # t
      BY <1>3, <3>2
    <3> QED
      BY <3>1, <3>2
  <2> QED
    BY <2>1, OnePhase
<1>6. m \notin machines'
  BY <1>1 DEF Inv, Ownership
<1>7. /\ PhaseOf(m)' = IF vm'[m] = "none" THEN "absent"
                       ELSE IF Alive(m)' THEN "abandoned" ELSE "gone"
      /\ PhaseOf(m) = IF task[t].op = "provision" THEN "starting" ELSE "stopping"
  BY <1>1, <1>4, <1>5, <1>6 DEF Phases
<1>8. CASE task[t].op = "provision"
  <2>1. Life!StartFails(m)
    BY <1>5, <1>7, <1>8 DEF Life!StartFails, Life!LeftAlone, Phase
  <2> QED
    BY <2>1 DEF Life!Next
<1>9. CASE task[t].op # "provision"
  <2>1. comm[m] # "none"
    BY <1>9, TasksAssumption DEF Inv, TaskInv, Knows
  <2>2. vm'[m] # "none"
    BY <2>1 DEF Inv, Started
  <2>3. Life!Stop(m) \/ Life!StopCancelled(m)
    BY <1>5, <1>7, <1>9, <2>2 DEF Life!Stop, Life!StopCancelled, Phase
  <2> QED
    BY <2>3 DEF Life!Next
<1> QED
  BY <1>8, <1>9

\* Machines are taken out of the map, one or all, by the one task that has the
\* write lock.
LEMMA LifeTake ==
    ASSUME Inv, Inv', up, up' = up, NEW t \in Task, Held(t) = {}, mwriter \in {t, NoTask},
           \A u \in Task \ {t} : task'[u] = task[u], vm' = vm,
           Held(t)' # {}, Held(t)' \subseteq machines, machines' = machines \ Held(t)',
           task'[t].op # "provision", machines' = {} \/ \E m \in machines : Held(t)' = {m}
    PROVE  Life!Next
<1> DEFINE S == Held(t)'
<1>1. S \subseteq machines /\ machines \subseteq Machine /\ S # {}
  BY DEF Inv, LocalType
<1>2. \A u \in Task \ {t} : Held(u) = {} /\ Held(u)' = {}
  <2>1. \A u \in Task \ {t} : Held(u) = {}
    BY WriterOwns
  <2> QED
    BY <2>1 DEF Held
<1>3. Phases /\ Phases'
  BY PhaseFacts, PhaseFactsNext
<1>4. \A m \in Machine \ S : PhaseOf(m)' = PhaseOf(m)
  BY <1>2, <1>3, PhaseKept
<1>5. \A m \in S : PhaseOf(m)' = "stopping"
  BY <1>1, <1>3 DEF Phases
<1>6. \A m \in Machine : PhaseOf(m) = "listed" <=> m \in machines
  BY <1>2, <1>3 DEF Phases
<1>7. Life!Listed = machines
  BY <1>1, <1>6 DEF Life!Listed, Phase
<1>8. ~Life!Busy
  BY <1>2, <1>3, NotBusy
<1> HIDE DEF S
<1>9. Phase' = [m \in Machine |-> IF m \in S THEN "stopping" ELSE Phase[m]]
  BY <1>1, <1>4, <1>5 DEF Phase
<1>10. S = machines \/ \E m \in machines : S = {m}
  BY <1>1 DEF S
<1>11. Life!Take(S) /\ S \in SUBSET Life!Listed
  BY <1>1, <1>7, <1>8, <1>9, <1>10 DEF Life!Take
<1> QED
  BY <1>11 DEF Life!Next

\* The process of a machine nobody holds may end.
LEMMA LifeVm ==
    ASSUME Inv, Inv', NEW m \in Machine, vm_exits(m)
    PROVE  Life!Next \/ UNCHANGED Life!vars
<1>1. /\ Alive(m) /\ vm' = [vm EXCEPT ![m] = "dead"] /\ task' = task /\ up' = up
      /\ machines' = machines
  BY DEF vm_exits
<1>2. \A n \in Machine \ {m} : vm'[n] = vm[n]
  BY <1>1 DEF Inv, LocalType
<1>3. \A t \in Task : SameHands(t)
  BY <1>1 DEF SameHands, Held
<1>4. CASE m \in machines \/ \E t \in Task : m \in Held(t)
  BY <1>1, <1>2, <1>3, <1>4, StillLife
<1>5. CASE m \notin machines /\ \A t \in Task : m \notin Held(t)
  <2>1. Phases /\ Phases' /\ Phase' = [Phase EXCEPT ![m] = PhaseOf(m)']
    BY <1>1, <1>2, <1>3, OnePhase DEF SameHands
  <2>2. vm'[m] = "dead"
    BY <1>1 DEF Inv, LocalType
  <2>3. PhaseOf(m) = "abandoned" /\ PhaseOf(m)' = "gone"
    BY <1>1, <1>3, <1>5, <2>1, <2>2 DEF Phases, SameHands, Alive
  <2>4. Life!Dies(m)
    BY <1>1, <2>1, <2>3 DEF Life!Dies, Phase
  <2> QED
    BY <2>4 DEF Life!Next
<1> QED
  BY <1>4, <1>5

\* When the process ends, every machine is left alone.
LEMMA LifeClose ==
    ASSUME Inv, Inv', process_exits
    PROVE  Life!Next
<1>1. up /\ up' = FALSE /\ machines' = {} /\ task' = [t \in Task |-> Idle] /\ vm' = vm
  BY DEF process_exits, host
<1>2. \A t \in Task : Held(t)' = {}
  BY <1>1 DEF Held, Idle
<1>3. Phases /\ Phases'
  BY PhaseFacts, PhaseFactsNext
<1>4. \A m \in Machine :
         PhaseOf(m)' = IF vm[m] = "none" THEN "absent" ELSE IF Alive(m) THEN "abandoned" ELSE "gone"
  BY <1>1, <1>2, <1>3 DEF Phases, Alive
<1>5. \A m \in Machine :
         \/ PhaseOf(m) \in {"listed", "starting", "stopping"}
         \/ PhaseOf(m) = IF vm[m] = "none" THEN "absent"
                         ELSE IF Alive(m) THEN "abandoned" ELSE "gone"
  BY <1>3 DEF Phases
<1>6. Phase' \in [Machine -> Life!LeftAlone]
  BY <1>4 DEF Phase, Life!LeftAlone
<1>7. \A m \in Machine : Phase[m] \in Life!LeftAlone => Phase'[m] = Phase[m]
  BY <1>4, <1>5 DEF Phase, Life!LeftAlone
<1> QED
  BY <1>1, <1>6, <1>7 DEF Life!Next, Life!Close

\* A task goes to another place with the same machines in its hands.
LEMMA GotoHands ==
    ASSUME Inv, NEW t \in Task, NEW pc \in Places, Goto(t, pc),
           pc \in HoldsMachines <=> task[t].pc \in HoldsMachines
    PROVE  SameHands(t)
<1>1. /\ task'[t].pc = pc /\ task'[t].op = task[t].op /\ task'[t].m = task[t].m
      /\ task'[t].rest = task[t].rest
  BY GotoFacts DEF Inv
<1> QED
  BY <1>1 DEF SameHands, Held, HoldsMachines

\* A task without machines ends.
LEMMA FinishHands ==
    ASSUME Inv, NEW t \in Task, Finish(t), task[t].pc \notin HoldsMachines \/ Held(t) = {}
    PROVE  SameHands(t)
<1>1. task'[t].pc \in {"idle", "finished"}
  BY FinishFacts DEF Inv
<1> QED
  BY <1>1 DEF SameHands, Held, HoldsMachines

\* Such a step is none of Machines, if only processes in its hands change.
LEMMA StillGoto ==
    ASSUME Inv, Inv', up' = up, NEW t \in Task, NEW pc \in Places, Goto(t, pc),
           pc \in HoldsMachines <=> task[t].pc \in HoldsMachines, machines' = machines,
           \A m \in Machine \ Held(t) : vm'[m] = vm[m]
    PROVE  UNCHANGED Life!vars
<1>1. \A u \in Task \ {t} : task'[u] = task[u]
  BY GotoFacts DEF Inv
<1>2. \A u \in Task : SameHands(u)
  BY <1>1, GotoHands DEF SameHands, Held
<1> QED
  BY <1>2, StillLife

\* A task that holds no machine finishes: a stutter of Machines.
LEMMA StillFinish ==
    ASSUME Inv, Inv', up' = up, NEW t \in Task, Finish(t),
           task[t].pc \notin HoldsMachines \/ Held(t) = {}, machines' = machines, vm' = vm
    PROVE  UNCHANGED Life!vars
<1>1. \A u \in Task \ {t} : task'[u] = task[u]
  BY FinishFacts DEF Inv
<1>2. \A u \in Task : SameHands(u)
  BY <1>1, FinishHands DEF SameHands, Held
<1> QED
  BY <1>2, StillLife

\* Every step of provision is a step of Machines or a stutter.
LEMMA LifeProvision ==
    ASSUME Inv, Inv', NEW t \in Task, Provision(t)
    PROVE  Life!Next \/ UNCHANGED Life!vars
<1>1. CASE provision_lock(t)
  <2>1. Goto(t, "stack") /\ task[t].pc = "lock" /\ up' = up /\ machines' = machines /\ vm' = vm
    BY <1>1 DEF provision_lock, At, host
  <2> QED
    BY <2>1, StillGoto DEF Places, HoldsMachines
<1>2. CASE provision_stack_fails(t)
  <2>1. Finish(t) /\ task[t].pc = "stack" /\ up' = up /\ machines' = machines /\ vm' = vm
    BY <1>2 DEF provision_stack_fails, At, host
  <2> QED
    BY <2>1, StillFinish DEF HoldsMachines
<1>3. CASE setup_public_nat(t) \/ connect_api(t) \/ accept_timeout(t)
  <2>1. PICK pc \in {"spawn", "config", "drop"} :
           /\ Goto(t, pc) /\ task[t].pc \in {"nat", "socket", "accept"}
           /\ up' = up /\ machines' = machines /\ vm' = vm
    BY <1>3 DEF setup_public_nat, connect_api, accept_timeout, At, host
  <2> QED
    BY <2>1, StillGoto DEF Places, HoldsMachines
<1>4. CASE spawn(t) \/ start_vm(t)
  <2> DEFINE m == task[t].m
  <2>1. task[t].op = "provision" /\ task[t].pc \in {"spawn", "config"}
    BY <1>4 DEF spawn, start_vm, At
  <2>2. Held(t) = {m} /\ m \in Machine
    BY <2>1, ProvisionShape DEF HoldsMachines
  <2>3. PICK pc \in {"socket", "accept", "drop"} :
           /\ Goto(t, pc) /\ up' = up /\ machines' = machines
           /\ \/ vm' = vm
              \/ vm' = [vm EXCEPT ![m] = "spawned"]
              \/ vm' = [vm EXCEPT ![m] = "running"]
    BY <1>4 DEF spawn, start_vm
  <2>4. \A n \in Machine \ Held(t) : vm'[n] = vm[n]
    BY <2>2, <2>3 DEF Inv, LocalType
  <2> QED
    BY <2>1, <2>3, <2>4, StillGoto DEF Places, HoldsMachines
<1> QED
  BY <1>1, <1>2, <1>3, <1>4, LifeStart, LifeAccept DEF Provision

\* So is every step of deprovision and drain.
LEMMA LifeShutdown ==
    ASSUME Inv, Inv', NEW t \in Task, Shutdown(t) \/ drop_held(t)
    PROVE  Life!Next \/ UNCHANGED Life!vars
<1>1. CASE deprovision_lock(t)
  <2> DEFINE m == task[t].m
  <2>1. /\ up /\ up' = up /\ vm' = vm /\ task[t].pc = "lock" /\ IsDeprovision(t)
        /\ \/ m \in machines /\ AcquireWrite(t) /\ machines' = machines \ {m} /\ Goto(t, "net")
           \/ machines' = machines /\ Finish(t)
    BY <1>1 DEF deprovision_lock, host
  <2>2. CASE machines' = machines /\ Finish(t)
    BY <2>1, <2>2, StillFinish DEF HoldsMachines
  <2>3. CASE m \in machines /\ AcquireWrite(t) /\ machines' = machines \ {m} /\ Goto(t, "net")
    <3>1. /\ task'[t].pc = "net" /\ task'[t].op = task[t].op /\ task'[t].m = m
          /\ task'[t].rest = task[t].rest /\ \A u \in Task \ {t} : task'[u] = task[u]
      BY <2>3, GotoFacts DEF Inv, Places
    <3>2. task[t].rest = {} /\ task[t].op # "provision" /\ m \in Machine
      BY <2>1, <2>3 DEF Inv, TaskInv, Shape, IsDeprovision, LocalType
    <3>3. Held(t) = {} /\ Held(t)' = {m}
      BY <2>1, <3>1, <3>2, TasksAssumption DEF Held
    <3>4. mwriter = NoTask
      BY <2>3 DEF AcquireWrite
    <3> QED
      BY <2>1, <2>3, <3>1, <3>2, <3>3, <3>4, LifeTake
  <2> QED
    BY <2>1, <2>2, <2>3
<1>2. CASE drain_network(t)
  <2>1. /\ up /\ up' = up /\ vm' = vm /\ task[t].pc = "net" /\ task[t].op = "drain"
        /\ \/ machines' = machines /\ Finish(t)
           \/ \E m \in machines :
                 /\ machines' = {}
                 /\ task' = [task EXCEPT ![t].pc = "comm", ![t].m = m, ![t].rest = machines \ {m}]
    BY <1>2 DEF drain_network, At, host
  <2>2. Held(t) = {} /\ mwriter = t
    BY <2>1, TasksAssumption DEF Inv, TaskInv, Shape, Held, Guards, Writing
  <2>3. CASE machines' = machines /\ Finish(t)
    BY <2>1, <2>2, <2>3, StillFinish
  <2>4. ASSUME NEW m \in machines, machines' = {},
               task' = [task EXCEPT ![t].pc = "comm", ![t].m = m, ![t].rest = machines \ {m}]
        PROVE  Life!Next
    <3>1. m \in Machine /\ m # NoMachine
      BY TasksAssumption DEF Inv, LocalType
    <3>2. /\ task'[t].pc = "comm" /\ task'[t].op = "drain" /\ task'[t].m = m
          /\ task'[t].rest = machines \ {m} /\ \A u \in Task \ {t} : task'[u] = task[u]
      BY <2>1, <2>4 DEF Inv, LocalType, TaskRecord
    <3>3. Held(t)' = machines
      BY <3>1, <3>2 DEF Held
    <3> QED
      BY <2>1, <2>2, <2>4, <3>2, <3>3, LifeTake
  <2> QED
    BY <2>1, <2>3, <2>4
<1>3. CASE drain_lock(t)
  <2>1. /\ Goto(t, "net") /\ up' = up /\ machines' = machines /\ vm' = vm
        /\ task[t].pc = "lock" /\ task[t].op = "drain"
    BY <1>3 DEF drain_lock, At, host
  <2>2. /\ task[t].m = NoMachine /\ task[t].rest = {}
    BY <2>1 DEF Inv, TaskInv, Shape
  <2>3. /\ task'[t].m = NoMachine /\ task'[t].rest = {} /\ \A u \in Task \ {t} : task'[u] = task[u]
    BY <2>1, <2>2, GotoFacts DEF Inv, Places
  <2>4. Held(t) = {} /\ Held(t)' = {}
    BY <2>1, <2>3 DEF Held
  <2>5. \A u \in Task : SameHands(u)
    BY <2>3, <2>4 DEF SameHands, Held
  <2> QED
    BY <2>1, <2>5, StillLife
<1>4. CASE deprovision_network(t) \/ send_shutdown(t) \/ join_handler(t)
  <2>1. PICK pc \in {"comm", "kill", "join"} :
           /\ Goto(t, pc) /\ task[t].pc \in {"net", "comm", "join"}
           /\ up' = up /\ machines' = machines /\ vm' = vm
    BY <1>4 DEF deprovision_network, send_shutdown, join_handler, host
  <2> QED
    BY <2>1, StillGoto DEF Places, HoldsMachines
<1>5. CASE cleanup(t)
  <2>1. PICK m \in Machine : m = task[t].m
    BY <1>5, StoppingShape DEF cleanup
  <2>2. /\ up /\ up' = up /\ task[t].pc = "kill" /\ machines' = machines
        /\ vm' = [vm EXCEPT ![m] = "dead"]
    BY <1>5, <2>1 DEF cleanup, kill
  <2>3. vm'[m] = "dead" /\ \A n \in Machine \ {m} : vm'[n] = vm[n]
    BY <2>2 DEF Inv, LocalType
  <2>4. \/ task[t].rest = {} /\ Finish(t)
        \/ \E pc \in {"comm", "drop"}, n \in task[t].rest :
              task' = [task EXCEPT ![t].pc = pc, ![t].m = n, ![t].rest = @ \ {n}]
    BY <1>5 DEF cleanup
  <2> QED
    BY <2>1, <2>2, <2>3, <2>4, LifeEnds
<1>6. CASE drop_held(t)
  <2>1. PICK m \in Machine : m = task[t].m
    BY <1>6, StoppingShape DEF drop_held
  <2>2. up /\ up' = up /\ task[t].pc = "drop" /\ machines' = machines /\ vm' = vm
    BY <1>6 DEF drop_held, host
  <2>3. \/ task[t].rest = {} /\ Finish(t)
        \/ \E pc \in {"comm", "drop"}, n \in task[t].rest :
              task' = [task EXCEPT ![t].pc = pc, ![t].m = n, ![t].rest = @ \ {n}]
    <3>1. ASSUME NEW n \in task[t].rest, task' = [task EXCEPT ![t].m = n, ![t].rest = @ \ {n}]
          PROVE  task' = [task EXCEPT ![t].pc = "drop", ![t].m = n, ![t].rest = @ \ {n}]
      <4>1. [task[t] EXCEPT !.m = n, !.rest = @ \ {n}]
              = [task[t] EXCEPT !.pc = "drop", !.m = n, !.rest = @ \ {n}]
        BY <2>2 DEF Inv, LocalType, TaskRecord
      <4> QED
        BY <3>1, <4>1
    <3> QED
      BY <1>6, <3>1 DEF drop_held
  <2> QED
    BY <2>1, <2>2, <2>3, LifeEnds
<1> QED
  BY <1>1, <1>2, <1>3, <1>4, <1>5, <1>6 DEF Shutdown

\* So is every step of a reader.
LEMMA LifeReader ==
    ASSUME Inv, Inv', NEW t \in Task, Reader(t)
    PROVE  UNCHANGED Life!vars
<1>1. /\ up' = up /\ machines' = machines /\ vm' = vm /\ task[t].pc \in {"lock", "reading"}
      /\ Finish(t) \/ (task[t].pc = "lock" /\ Goto(t, "reading"))
  BY DEF Reader, read_lock, read_done, publish_service_port, At, host
<1>2. CASE Finish(t)
  BY <1>1, <1>2, StillFinish DEF HoldsMachines
<1>3. CASE Goto(t, "reading")
  BY <1>1, <1>3, StillGoto DEF Places, HoldsMachines
<1> QED
  BY <1>1, <1>2, <1>3

\* So is the cancellation of a request.
LEMMA LifeCancel ==
    ASSUME Inv, Inv', NEW t \in Rpc, cancel(t)
    PROVE  UNCHANGED Life!vars
<1>1. /\ up' = up /\ machines' = machines /\ vm' = vm /\ t \in Task
      /\ (Held(t) # {} /\ Goto(t, "drop")) \/ (Held(t) = {} /\ Finish(t))
  BY DEF cancel, host, Task
<1>2. CASE Held(t) = {} /\ Finish(t)
  BY <1>1, <1>2, StillFinish
<1>3. CASE Held(t) # {} /\ Goto(t, "drop")
  <2>1. task[t].pc \in HoldsMachines
    BY <1>1, <1>3, HeldFacts
  <2> QED
    BY <1>1, <1>3, <2>1, StillGoto DEF Places, HoldsMachines
<1> QED
  BY <1>1, <1>2, <1>3

\* So is the arrival of a request.
LEMMA LifeRequest ==
    ASSUME Inv, Inv', NEW t \in Task, NEW op, NEW m, NEW g, Request(t, op, m, g)
    PROVE  UNCHANGED Life!vars
<1>1. /\ up' = up /\ machines' = machines /\ vm' = vm /\ task[t] = Idle
      /\ task' = [task EXCEPT ![t] =
                    [pc |-> "lock", op |-> op, m |-> m, rest |-> {}, graceful |-> g]]
  BY DEF Request, host
<1>2. /\ task[t].pc = "idle" /\ task'[t].pc = "lock" /\ \A u \in Task \ {t} : task'[u] = task[u]
  BY <1>1 DEF Idle, Inv, LocalType
<1>3. \A u \in Task : SameHands(u)
  BY <1>2 DEF SameHands, Held
<1> QED
  BY <1>1, <1>3, StillLife

\* Every step of the node manager is a step in the life of machines, or none.
LEMMA LifeStep == Inv /\ [Next]_vars => [Life!Next]_(Life!vars)
<1> SUFFICES ASSUME Inv, [Next]_vars PROVE Life!Next \/ UNCHANGED Life!vars
  OBVIOUS
<1>1. Inv'
  BY NextInv
<1>2. CASE \/ \E u \in Rpc, m \in Machine : request_provision(u, m)
           \/ \E u \in Rpc, m \in Machine, g \in BOOLEAN : request_deprovision(u, m, g)
           \/ \E u \in Rpc : request_drain(u)
           \/ \E u \in Rpc, m \in Machine : request_publish(u, m)
           \/ \E u \in Rpc : request_read(u)
           \/ ctrl_c
  <2>1. \E u \in Task : \E op, m, g : Request(u, op, m, g)
    BY <1>2 DEF request_provision, request_deprovision, request_drain, request_publish,
                request_read, ctrl_c, Task
  <2> QED
    BY <1>1, <2>1, LifeRequest
<1>3. ASSUME NEW m \in Machine, CleanupStep(m) PROVE UNCHANGED Life!vars
  <2>1. PICK pc \in {"notify", "lock"} :
           /\ Goto(m, pc) /\ task[m].pc \in {"wait", "notify"} /\ m \in Task
           /\ up' = up /\ machines' = machines /\ vm' = vm
    BY <1>3 DEF CleanupStep, machine_stopped, handle_machine_exit, At, host, Task
  <2> QED
    BY <1>1, <2>1, StillGoto DEF Places, HoldsMachines
<1>4. CASE \/ \E m \in Machine : packet_handler_stops(m)
           \/ subscriber_receives \/ subscriber_leaves \/ exit_drop_manager
           \/ \E m \in Machine : exit_drop(m)
           \/ Terminated \/ UNCHANGED vars
  <2>1. UNCHANGED <<task, machines, vm, up>>
    BY <1>4 DEF packet_handler_stops, subscriber_receives, subscriber_leaves,
                exit_drop_manager, exit_drop, Terminated, vars, host
  <2>2. \A t \in Task : SameHands(t)
    BY <2>1 DEF SameHands, Held
  <2> QED
    BY <1>1, <2>1, <2>2, StillLife
<1> QED
  BY <1>1, <1>2, <1>3, <1>4, LifeProvision, LifeShutdown, LifeReader, LifeCancel, LifeVm,
     LifeClose DEF Next, TaskStep, ExitStep

\* The locks, the map and the tasks implement the plain life of Machines: a
\* machine leaves the list in one request's hands and never comes back, and only
\* the failures named there leave a process running.
THEOREM LifeRefinement == Spec => LifeSpec
<1>1. Init => Life!Init
  <2> SUFFICES ASSUME Init PROVE Life!Init
    OBVIOUS
  <2>1. /\ machines = {} /\ up = TRUE /\ task = [t \in Task |-> Idle]
        /\ vm = [m \in Machine |-> "none"]
    BY DEF Init
  <2>2. \A t \in Task : Held(t) = {}
    BY <2>1 DEF Held, Idle
  <2>3. \A m \in Machine : PhaseOf(m) = "absent"
    BY <2>1, <2>2, InitInv, PhaseFacts DEF Phases
  <2> QED
    BY <2>1, <2>3 DEF Life!Init, Phase
<1> QED
  BY <1>1, LifeStep, Invariance, PTL DEF Spec, LifeSpec, Life!Spec
=============================================================================
