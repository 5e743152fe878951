--------------------------- MODULE ImagePull_proofs ---------------------------
(***************************************************************************)
(* Proofs about ImagePull, for every number of layers and of workers and   *)
(* every manifest.                                                         *)
(***************************************************************************)
EXTENDS ImagePull, FiniteSetTheorems, SequenceTheorems, TLAPS

-----------------------------------------------------------------------------
(* The inductive invariant *)

\* Where main is before and after it has workers, and where a worker is.
Before == {"start", "auth", "index", "manifest", "config", "folders"}
After == {"join", "prepare", "ok", "failed", "panicked", "halt"}
WorkerPlace == {"none", "pop", "get", "extract", "count", "log", "ok", "err"}

Packet ==
    [type : {"state", "system", "exited"}, is : {"pulling", "layers", "pull"}]
        \cup [type : {"layer"}, is : Nat]

Typed ==
    /\ layers \in Seq([digest : Digest, media : Media])
    /\ pc = [t \in Thread |-> pc[t]] /\ pc[main] \in Before \cup After
    /\ \A w \in Worker : pc[w] \in WorkerPlace
    /\ queue \in Seq(Nat) /\ layer \in [Worker -> Nat] /\ joined \in Nat
    /\ progress \in Nat /\ number \in [Worker -> Nat] /\ comm \in Worker \cup {None}
    /\ wire \in Seq(Packet)

\* Layers that have left the queue.
popped == Len(layers) - Len(queue)

\* The queue has the last layers of the manifest; what a worker has in hand is
\* none of them, is not extracted and is nobody else's.
Busy == {"get", "extract"}
Taken ==
    /\ Len(queue) <= Len(layers) /\ \A i \in 1 .. Len(queue) : queue[i] = popped + i
    /\ extracted \subseteq 1 .. popped
    /\ \A w \in Worker : pc[w] \in Busy =>
          /\ layer[w] \in (1 .. popped) \ extracted
          /\ \A v \in Worker \ {w} : pc[v] \in Busy => layer[v] # layer[w]

\* While main counts on its workers, a layer that was taken is extracted, in
\* hand or the reason of a failure; a worker that ended well found no more.
Accounted ==
    /\ pc[main] \in Before => extracted = {} /\ queue = <<>> /\ joined = 0 /\ lower = <<>>
                                /\ \A w \in Worker : pc[w] = "none"
    /\ pc[main] \in {"join", "prepare", "ok"} =>
          \A i \in 1 .. popped : i \in extracted
              \/ \E w \in Worker : layer[w] = i /\ pc[w] \in Busy \cup {"err"}
    /\ \A w \in Worker : pc[w] = "ok" => queue = <<>>

\* Main mounts what all its workers did.
Joined ==
    /\ pc[main] = "join" =>
          /\ joined < worker_threads_count /\ lower = <<>>
          /\ \A w \in Worker : w <= joined => pc[w] = "ok"
          /\ \A w \in Worker : w > worker_threads_count => pc[w] = "none"
    /\ pc[main] \in {"prepare", "ok"} /\ layers # <<>> =>
          \A w \in Worker : pc[w] = IF w <= worker_threads_count THEN "ok" ELSE "none"
    /\ lower # <<>> =>
          /\ pc[main] = "ok" /\ layers # <<>>
          /\ \A i \in 1 .. Len(layers) : lower[i] = layers[Len(layers) + 1 - i].digest

\* The mutex covers the number of a message and the message.
Numbered ==
    /\ progress = Cardinality(Steps(Len(wire))) + (IF comm = None THEN 0 ELSE 1)
    /\ \A w \in Worker : pc[w] = "log" <=> comm = w
    /\ comm \in Worker => number[comm] + 1 = progress
    /\ ProgressInOrder

Inv == Typed /\ Taken /\ Accounted /\ Joined /\ Numbered

-----------------------------------------------------------------------------
(* Threads *)

\* Main is no worker, and nobody is None.
LEMMA Threads ==
    /\ main \in Thread /\ main \notin Worker /\ None \notin Worker
    /\ \A w \in Worker : w \in Thread /\ w \in Nat /\ w >= 1 /\ w # main
BY PullAssumption DEF Thread, Worker, main

\* One thread goes on, the others stay.
LEMMA GoFacts ==
    ASSUME Typed, NEW t \in Thread, NEW place, Go(t, place)
    PROVE  /\ pc' = [u \in Thread |-> pc'[u]] /\ pc'[t] = place
           /\ \A u \in Thread \ {t} : pc'[u] = pc[u]
<1>1. pc = [u \in Thread |-> pc[u]]
  BY DEF Typed
<1>2. pc' = [pc EXCEPT ![t] = place]
  BY DEF Go
<1> QED BY <1>1, <1>2

\* A step that takes and finishes no layer.
LEMMA SameWork ==
    ASSUME Taken, UNCHANGED <<layers, queue, layer, extracted>>,
           \A w \in Worker : pc'[w] \in Busy => pc[w] \in Busy
    PROVE  Taken'
BY DEF Taken, popped, Busy

\* The wire after a packet.
LEMMA WireGrows ==
    ASSUME Typed, NEW p \in Packet, wire' = Append(wire, p)
    PROVE  /\ wire' \in Seq(Packet) /\ Len(wire) \in Nat /\ Len(wire') = Len(wire) + 1
           /\ \A j \in 1 .. Len(wire) : wire'[j] = wire[j]
           /\ wire'[Len(wire) + 1] = p
<1>1. wire \in Seq(Packet)
  BY DEF Typed
<1> QED BY <1>1

\* The messages about layers are finitely many, and the earlier ones stay.
LEMMA StepsFinite ==
    ASSUME Typed, NEW j \in Nat
    PROVE  IsFiniteSet(Steps(j)) /\ Cardinality(Steps(j)) \in Nat
<1>1. IsFiniteSet(1 .. j) /\ Steps(j) \in SUBSET (1 .. j)
  BY FS_Interval DEF Steps
<1> QED BY <1>1, FS_Subset, FS_CardinalityType

\* A packet leaves them, or is one more.
LEMMA StepsStay ==
    ASSUME Typed, NEW p \in Packet, wire' = Append(wire, p)
    PROVE  /\ \A j \in 0 .. Len(wire) : Steps(j)' = Steps(j)
           /\ Steps(Len(wire))' =
                 IF p.type = "layer" THEN Steps(Len(wire)) \cup {Len(wire) + 1} ELSE Steps(Len(wire))
<1>1. /\ Len(wire) \in Nat /\ \A j \in 1 .. Len(wire) : wire'[j] = wire[j]
      /\ wire'[Len(wire) + 1] = p
  BY WireGrows
<1>2. ASSUME NEW j \in 0 .. Len(wire) PROVE Steps(j)' = Steps(j)
  <2>1. \A i \in 1 .. j : i \in 1 .. Len(wire)
    BY <1>1
  <2>2. \A i \in 1 .. j : wire'[i] = wire[i]
    BY <1>1, <2>1
  <2> QED BY <2>2 DEF Steps
<1>3. PICK m \in Nat : m = Len(wire)
  BY <1>1
<1>4. \A i : i \in 1 .. m + 1 <=> i \in 1 .. m \/ i = m + 1
  BY <1>3
<1>5. Steps(m + 1)' = IF p.type = "layer" THEN Steps(m) \cup {m + 1} ELSE Steps(m)
  <2>1. CASE p.type = "layer"
    BY <1>1, <1>3, <1>4, <2>1 DEF Steps
  <2>2. CASE p.type # "layer"
    BY <1>1, <1>3, <1>4, <2>2 DEF Steps
  <2> QED BY <2>1, <2>2
<1>6. Steps(Len(wire))' = Steps(m + 1)'
  <2>1. Len(wire') = m + 1
    BY <1>3, WireGrows
  <2> QED BY <2>1 DEF Steps
<1> QED BY <1>2, <1>3, <1>5, <1>6

\* A step without a number: at most a message that is not about a layer.
LEMMA SameNumbers ==
    ASSUME Typed, Numbered, UNCHANGED <<progress, number, comm>>,
           \A w \in Worker : pc'[w] = "log" <=> pc[w] = "log",
           \/ wire' = wire
           \/ \E p \in Packet : p.type # "layer" /\ wire' = Append(wire, p)
    PROVE  wire' \in Seq(Packet) /\ Numbered'
<1>1. CASE wire' = wire
  <2>1. ASSUME NEW j PROVE Steps(j)' = Steps(j)
    BY <1>1 DEF Steps
  <2>2. ProgressInOrder'
    BY <1>1, <2>1 DEF Numbered, ProgressInOrder
  <2>3. Steps(Len(wire))' = Steps(Len(wire))
    BY <1>1 DEF Steps
  <2> QED BY <1>1, <2>2, <2>3 DEF Numbered, Typed
<1>2. ASSUME NEW p \in Packet, p.type # "layer", wire' = Append(wire, p)
      PROVE  wire' \in Seq(Packet) /\ Numbered'
  <2>1. /\ wire' \in Seq(Packet) /\ Len(wire) \in Nat /\ Len(wire') = Len(wire) + 1
        /\ \A j \in 1 .. Len(wire) : wire'[j] = wire[j]
        /\ wire'[Len(wire) + 1] = p
    BY <1>2, WireGrows
  <2>2. /\ \A j \in 0 .. Len(wire) : Steps(j)' = Steps(j)
        /\ Steps(Len(wire))' = Steps(Len(wire))
    BY <1>2, StepsStay
  <2>3. ASSUME NEW j \in 1 .. Len(wire'), wire'[j].type = "layer"
        PROVE  wire'[j].is = Cardinality({i \in 1 .. j : wire'[i].type = "layer"})
    <3>1. j \in 1 .. Len(wire) /\ j \in 0 .. Len(wire) /\ wire'[j] = wire[j]
      BY <1>2, <2>1, <2>3
    <3>2. wire[j].is = Cardinality(Steps(j))
      BY <2>3, <3>1 DEF Numbered, ProgressInOrder
    <3>3. {i \in 1 .. j : wire'[i].type = "layer"} = Steps(j)
      BY <2>2, <3>1 DEF Steps
    <3> QED BY <3>1, <3>2, <3>3
  <2>4. ProgressInOrder'
    BY <2>3 DEF ProgressInOrder, Steps
  <2> QED BY <2>1, <2>2, <2>4 DEF Numbered
<1> QED BY <1>1, <1>2

\* Under the mutex a worker draws the next number.
LEMMA CountNumbers ==
    ASSUME Typed, Numbered, NEW w \in Worker, count_layer(w)
    PROVE  Numbered' /\ progress' \in Nat /\ number' \in [Worker -> Nat] /\ comm' = w /\ wire' = wire
<1>1. /\ comm = None /\ comm' = w /\ number' = [number EXCEPT ![w] = progress]
      /\ progress' = progress + 1 /\ wire' = wire /\ pc[w] = "count" /\ Go(w, "log")
      /\ progress \in Nat /\ number \in [Worker -> Nat]
  BY DEF count_layer, At, Typed
<1>2. pc'[w] = "log" /\ \A v \in Worker \ {w} : pc'[v] = pc[v]
  BY <1>1, GoFacts, Threads
<1>3. progress = Cardinality(Steps(Len(wire)))
  <2>1. Len(wire) \in Nat
    BY DEF Typed
  <2>2. Cardinality(Steps(Len(wire))) \in Nat
    BY <2>1, StepsFinite
  <2>3. progress = Cardinality(Steps(Len(wire))) + 0
    BY <1>1 DEF Numbered
  <2> QED BY <2>2, <2>3
<1>4. Steps(Len(wire))' = Steps(Len(wire)) /\ ProgressInOrder'
  BY <1>1 DEF Steps, Numbered, ProgressInOrder
<1>5. \A v \in Worker : pc'[v] = "log" <=> comm' = v
  BY <1>1, <1>2, Threads DEF Numbered
<1>6. number'[w] = progress /\ number' \in [Worker -> Nat]
  BY <1>1
<1> QED BY <1>1, <1>3, <1>4, <1>5, <1>6, Threads DEF Numbered

\* And writes it before anybody else draws one.
LEMMA LogNumbers ==
    ASSUME Typed, Numbered, NEW w \in Worker, log_layer(w)
    PROVE  Numbered' /\ wire' \in Seq(Packet)
<1>1. /\ pc[w] = "log" /\ wire' = Append(wire, [type |-> "layer", is |-> number[w] + 1])
      /\ comm' = None /\ UNCHANGED <<progress, number>> /\ Go(w, "pop")
  BY DEF log_layer, At
<1>2. pc'[w] = "pop" /\ \A v \in Worker \ {w} : pc'[v] = pc[v]
  BY <1>1, GoFacts, Threads
<1>3. comm = w /\ number[w] + 1 = progress /\ progress \in Nat
  BY <1>1 DEF Numbered, Typed
<1>4. PICK p : p = [type |-> "layer", is |-> progress]
  OBVIOUS
<1>5. p \in Packet /\ p.type = "layer" /\ p.is = progress /\ wire' = Append(wire, p)
  BY <1>1, <1>3, <1>4 DEF Packet
<1>6. /\ wire' \in Seq(Packet) /\ Len(wire) \in Nat /\ Len(wire') = Len(wire) + 1
      /\ \A j \in 1 .. Len(wire) : wire'[j] = wire[j]
      /\ wire'[Len(wire) + 1] = p
  BY <1>5, WireGrows
<1>7. /\ \A j \in 0 .. Len(wire) : Steps(j)' = Steps(j)
      /\ Steps(Len(wire))' = Steps(Len(wire)) \cup {Len(wire) + 1}
  BY <1>5, StepsStay
<1>8. progress = Cardinality(Steps(Len(wire))) + 1 /\ Cardinality(Steps(Len(wire))) \in Nat
  BY <1>3, <1>6, StepsFinite, Threads DEF Numbered
<1>9. Cardinality(Steps(Len(wire)))' = progress
  <2>1. Len(wire) + 1 \notin Steps(Len(wire)) /\ IsFiniteSet(Steps(Len(wire)))
    BY <1>6, StepsFinite DEF Steps
  <2>2. Cardinality(Steps(Len(wire)) \cup {Len(wire) + 1}) =
           IF Len(wire) + 1 \in Steps(Len(wire)) THEN Cardinality(Steps(Len(wire)))
                                                 ELSE Cardinality(Steps(Len(wire))) + 1
    BY <2>1, FS_AddElement
  <2> QED BY <1>7, <1>8, <2>1, <2>2
<1>10. ASSUME NEW j \in 1 .. Len(wire'), wire'[j].type = "layer"
       PROVE  wire'[j].is = Cardinality({i \in 1 .. j : wire'[i].type = "layer"})
  <2>1. CASE j \in 1 .. Len(wire)
    <3>1. j \in 0 .. Len(wire) /\ wire'[j] = wire[j]
      BY <1>6, <2>1
    <3>2. wire[j].is = Cardinality(Steps(j))
      BY <1>10, <2>1, <3>1 DEF Numbered, ProgressInOrder
    <3>3. {i \in 1 .. j : wire'[i].type = "layer"} = Steps(j)
      BY <1>7, <3>1 DEF Steps
    <3> QED BY <3>1, <3>2, <3>3
  <2>2. CASE j = Len(wire')
    <3>1. {i \in 1 .. j : wire'[i].type = "layer"} = Steps(Len(wire))'
      BY <2>2 DEF Steps
    <3>2. wire'[j].is = progress
      BY <1>5, <1>6, <2>2
    <3> QED BY <1>9, <3>1, <3>2
  <2> QED BY <1>6, <2>1, <2>2
<1>11. ProgressInOrder'
  BY <1>10 DEF ProgressInOrder, Steps
<1>12. \A v \in Worker : pc'[v] = "log" <=> comm' = v
  BY <1>1, <1>2, <1>3, Threads DEF Numbered
<1>13. progress' = Cardinality(Steps(Len(wire)))' + (IF comm' = None THEN 0 ELSE 1)
  BY <1>1, <1>3, <1>9
<1> QED BY <1>1, <1>6, <1>11, <1>12, <1>13, Threads DEF Numbered

-----------------------------------------------------------------------------
(* Main *)

\* Main alone goes on and takes no part in the layers.
LEMMA MainMoves ==
    ASSUME Inv, NEW place \in (Before \cup After) \ {"join", "prepare", "ok"}, Go(main, place),
           UNCHANGED <<layers, joined, queue, layer, extracted, progress, number, comm, lower>>,
           pc[main] \in Before \/ place \in {"failed", "halt", "panicked"},
           pc[main] # "ok" \/ place = "ok",
           \/ wire' = wire
           \/ \E p \in Packet : p.type # "layer" /\ wire' = Append(wire, p)
    PROVE  Inv'
<1>1. pc' = [u \in Thread |-> pc'[u]] /\ pc'[main] = place /\ \A w \in Worker : pc'[w] = pc[w]
  BY GoFacts, Threads DEF Inv
<1>2. Numbered' /\ wire' \in Seq(Packet)
  BY <1>1, SameNumbers DEF Inv
<1>3. Taken'
  BY <1>1, SameWork DEF Inv
<1>4. Typed'
  BY <1>1, <1>2 DEF Inv, Typed
<1>5. Accounted'
  <2>1. pc'[main] \in Before => pc[main] \in Before
    BY <1>1 DEF Before
  <2> QED BY <1>1, <2>1 DEF Inv, Accounted
<1>6. Joined'
  <2>1. lower' = <<>>
    BY DEF Inv, Joined
  <2> QED BY <1>1, <2>1 DEF Joined
<1> QED BY <1>2, <1>3, <1>4, <1>5, <1>6 DEF Inv

\* Up to the workers.
LEMMA EarlyInv ==
    ASSUME Inv, pull_starts \/ docker_io_oauth \/ get_manifest_and_config
    PROVE  Inv'
<1>1. CASE pull_starts
  <2>1. PICK place \in {"auth", "index"} : Go(main, place)
    BY <1>1 DEF pull_starts
  <2>2. [type |-> "state", is |-> "pulling"] \in Packet
    BY DEF Packet
  <2> QED BY <1>1, <2>1, <2>2, MainMoves DEF pull_starts, write, At, Before, After, image, work
<1>2. CASE docker_io_oauth
  <2>1. PICK place \in {"index", "failed"} : Go(main, place)
    BY <1>2 DEF docker_io_oauth, get
  <2> QED BY <1>2, <2>1, MainMoves
          DEF docker_io_oauth, get, At, Before, After, image, work, report
<1>3. CASE get_manifest_and_config
  <2>1. /\ pc[main] \in {"index", "manifest", "config"}
        /\ UNCHANGED <<layers, joined, queue, layer, extracted, progress, number, comm, wire, lower>>
    BY <1>3 DEF get_manifest_and_config, get_with_backoff, get, At, image, work, report
  <2>2. pc[main] \in Before
    BY <2>1 DEF Before
  <2>3. CASE \E place \in {"manifest", "config", "folders", "failed"} : Go(main, place)
    BY <2>1, <2>2, <2>3, MainMoves DEF Before, After
  <2>4. CASE UNCHANGED pc
    <3>1. Go(main, pc[main])
      BY <2>4 DEF Go, Inv, Typed, Thread
    <3> QED BY <2>1, <2>2, <3>1, MainMoves DEF Before, After
  <2> QED BY <1>3, <2>3, <2>4 DEF get_manifest_and_config, get_with_backoff, get
<1> QED BY <1>1, <1>2, <1>3

\* The failure is reported, the machine stops.
LEMMA LateInv ==
    ASSUME Inv, report_failure \/ shutdown \/ UNCHANGED vars
    PROVE  Inv'
<1>1. CASE report_failure
  <2>1. [type |-> "exited", is |-> "pull"] \in Packet
    BY DEF Packet
  <2> QED BY <1>1, <2>1, MainMoves DEF report_failure, write, At, Before, After, image, work
<1>2. CASE shutdown \/ UNCHANGED vars
  <2>1. UNCHANGED <<layers, pc, joined, queue, layer, extracted, progress, number, comm, wire, lower>>
    BY <1>2 DEF shutdown, vars, image, work, report
  <2>2. Numbered'
    BY <2>1, SameNumbers DEF Inv
  <2>3. Taken'
    BY <2>1, SameWork DEF Inv
  <2>4. Typed'
    BY <2>1 DEF Inv, Typed
  <2>5. Accounted' /\ Joined'
    BY <2>1 DEF Inv, Accounted, Joined, popped, worker_threads_count
  <2> QED BY <2>2, <2>3, <2>4, <2>5 DEF Inv
<1> QED BY <1>1, <1>2

\* The workers begin with all layers in the queue.
LEMMA StartInv ==
    ASSUME Inv, start_workers
    PROVE  Inv'
<1>1. /\ pc[main] = "folders" /\ UNCHANGED <<layers, joined, layer, extracted, lower>>
      /\ extracted = {} /\ joined = 0 /\ lower = <<>> /\ \A w \in Worker : pc[w] = "none"
  BY DEF start_workers, At, image, Inv, Accounted, Before
<1>2. CASE /\ write([type |-> "system", is |-> "layers"]) \/ UNCHANGED report
           /\ Go(main, "failed") /\ UNCHANGED queue
  <2>1. [type |-> "system", is |-> "layers"] \in Packet
    BY DEF Packet
  <2>2. /\ UNCHANGED <<progress, number, comm>>
        /\ \/ wire' = wire
           \/ \E p \in Packet : p.type # "layer" /\ wire' = Append(wire, p)
    BY <1>2, <2>1 DEF write, report
  <2> QED BY <1>1, <1>2, <2>2, MainMoves DEF Before, After
<1>3. CASE /\ write([type |-> "system", is |-> "layers"])
           /\ queue' = [i \in 1 .. Len(layers) |-> i]
           /\ pc' = [t \in Thread |->
                        IF t = main THEN IF layers = <<>> THEN "prepare" ELSE "join"
                        ELSE IF t <= worker_threads_count THEN "pop" ELSE "none"]
  <2>1. /\ UNCHANGED <<progress, number, comm>>
        /\ wire' = Append(wire, [type |-> "system", is |-> "layers"])
    BY <1>3 DEF write
  <2>2. [type |-> "system", is |-> "layers"] \in Packet
    BY DEF Packet
  <2>3. /\ pc'[main] = IF layers = <<>> THEN "prepare" ELSE "join"
        /\ \A w \in Worker : pc'[w] = IF w <= worker_threads_count THEN "pop" ELSE "none"
        /\ pc' = [t \in Thread |-> pc'[t]]
    BY <1>3, Threads
  <2>4. layers \in Seq([digest : Digest, media : Media]) /\ Len(layers) \in Nat
    BY DEF Inv, Typed
  <2>5. /\ queue' \in Seq(Nat) /\ Len(queue') = Len(layers)
        /\ \A i \in 1 .. Len(layers) : queue'[i] = i
    BY <1>3, <2>4
  <2>6. popped' = 0
    BY <1>1, <2>4, <2>5 DEF popped
  <2>7. Numbered' /\ wire' \in Seq(Packet)
    BY <1>1, <2>1, <2>2, <2>3, SameNumbers DEF Inv
  <2>8. Typed'
    BY <1>1, <2>1, <2>3, <2>5, <2>7 DEF Inv, Typed, After, WorkerPlace
  <2>9. Taken'
    BY <1>1, <2>3, <2>4, <2>5, <2>6 DEF Taken, Busy
  <2>10. Accounted'
    <3>1. \A i \in 1 .. popped' : FALSE
      BY <2>6
    <3>2. pc'[main] \notin Before /\ \A w \in Worker : pc'[w] # "ok"
      BY <2>3 DEF Before
    <3> QED BY <3>1, <3>2 DEF Accounted
  <2>11. Joined'
    <3>1. CASE layers = <<>>
      BY <1>1, <2>3, <3>1 DEF Joined
    <3>2. CASE layers # <<>>
      <4>1. worker_threads_count > 0 /\ worker_threads_count' = worker_threads_count
        BY <1>1, <2>4, <3>2, PullAssumption DEF worker_threads_count
      <4>2. \A w \in Worker : ~(w <= joined')
        BY <1>1, Threads
      <4>3. \A w \in Worker : w > worker_threads_count => pc'[w] = "none"
        <5>1. worker_threads_count \in Nat
          BY <2>4, PullAssumption DEF worker_threads_count
        <5> QED BY <2>3, <5>1, Threads
      <4> QED BY <1>1, <2>3, <3>2, <4>1, <4>2, <4>3 DEF Joined
    <3> QED BY <3>1, <3>2
  <2> QED BY <2>7, <2>8, <2>9, <2>10, <2>11 DEF Inv
<1> QED BY <1>2, <1>3 DEF start_workers

\* A worker that ended well is joined; a failure ends the pull.
LEMMA JoinInv ==
    ASSUME Inv, join_worker
    PROVE  Inv'
<1>1. PICK w : w = joined + 1
  OBVIOUS
<1>2. /\ pc[main] = "join" /\ pc[w] \in {"ok", "err"} /\ joined' = w
      /\ Go(main, IF pc[w] = "err" THEN "failed"
                  ELSE IF w = worker_threads_count THEN "prepare" ELSE "join")
      /\ UNCHANGED <<layers, queue, layer, extracted, progress, number, comm, wire, lower>>
  BY <1>1 DEF join_worker, At, image, work, report
<1>3. /\ joined \in Nat /\ joined < worker_threads_count /\ lower = <<>>
      /\ \A v \in Worker : v <= joined => pc[v] = "ok"
      /\ \A v \in Worker : v > worker_threads_count => pc[v] = "none"
  BY <1>2 DEF Inv, Joined, Typed
<1>4. /\ worker_threads_count \in Nat /\ worker_threads_count <= CONCURRENT_LAYER_DOWNLOADS
      /\ worker_threads_count' = worker_threads_count
  BY <1>2, PullAssumption DEF Inv, Typed, worker_threads_count
<1>5. w \in Worker
  BY <1>1, <1>3, <1>4, PullAssumption DEF Worker
<1>6. /\ pc' = [u \in Thread |-> pc'[u]] /\ \A v \in Worker : pc'[v] = pc[v]
      /\ pc'[main] = IF pc[w] = "err" THEN "failed"
                     ELSE IF w = worker_threads_count THEN "prepare" ELSE "join"
  BY <1>2, GoFacts, Threads DEF Inv
<1>7. Numbered'
  BY <1>2, <1>6, SameNumbers DEF Inv
<1>8. Taken'
  BY <1>2, <1>6, SameWork DEF Inv
<1>9. Typed'
  <2>1. joined' \in Nat
    BY <1>1, <1>2, <1>3
  <2>2. pc'[main] \in After
    BY <1>6 DEF After
  <2> QED BY <1>2, <1>6, <2>1, <2>2 DEF Inv, Typed
<1>10. Accounted'
  <2>1. pc'[main] \notin Before /\ popped' = popped
    BY <1>2, <1>6 DEF Before, popped
  <2> QED BY <1>2, <1>6, <2>1 DEF Inv, Accounted
<1>11. Joined'
  <2>1. CASE pc[w] = "err"
    BY <1>2, <1>3, <1>6, <2>1 DEF Joined
  <2>2. CASE pc[w] = "ok"
    <3>1. ASSUME NEW v \in Worker, v <= w PROVE pc'[v] = "ok"
      BY <1>1, <1>3, <1>6, <2>2, <3>1, Threads
    <3>2. ASSUME NEW v \in Worker, ~(v <= worker_threads_count) PROVE pc'[v] = "none"
      BY <1>3, <1>4, <1>6, <3>2, Threads
    <3>3. CASE w = worker_threads_count
      BY <1>2, <1>3, <1>4, <1>6, <2>2, <3>1, <3>2, <3>3 DEF Joined
    <3>4. CASE w # worker_threads_count
      <4>1. joined' < worker_threads_count
        BY <1>1, <1>2, <1>3, <1>4, <3>4
      <4>2. \A v \in Worker : v > worker_threads_count => pc'[v] = "none"
        BY <1>3, <1>6
      <4> QED BY <1>2, <1>3, <1>4, <1>6, <2>2, <3>1, <3>4, <4>1, <4>2 DEF Joined
    <3> QED BY <3>3, <3>4
  <2> QED BY <1>2, <2>1, <2>2
<1> QED BY <1>7, <1>8, <1>9, <1>10, <1>11 DEF Inv

\* The mount has the layers of the manifest, the last on top.
LEMMA PrepareInv ==
    ASSUME Inv, prepare
    PROVE  Inv'
<1>1. /\ pc[main] = "prepare"
      /\ UNCHANGED <<layers, joined, queue, layer, extracted, progress, number, comm, wire>>
  BY DEF prepare, At, image, work, report
<1>2. CASE (Go(main, "failed") \/ Go(main, "panicked")) /\ UNCHANGED lower
  BY <1>1, <1>2, MainMoves DEF Before, After
<1>3. CASE /\ layers # <<>> /\ Go(main, "ok")
           /\ lower' = [i \in 1 .. Len(layers) |-> layers[Len(layers) + 1 - i].digest]
  <2>1. pc' = [u \in Thread |-> pc'[u]] /\ pc'[main] = "ok" /\ \A w \in Worker : pc'[w] = pc[w]
    BY <1>3, GoFacts, Threads DEF Inv
  <2>2. Numbered'
    BY <1>1, <2>1, SameNumbers DEF Inv
  <2>3. Taken'
    BY <1>1, <2>1, SameWork DEF Inv
  <2>4. Typed'
    BY <1>1, <2>1 DEF Inv, Typed, After
  <2>5. Accounted'
    BY <1>1, <2>1 DEF Inv, Accounted, Before, popped
  <2>6. Joined'
    <3>1. \A w \in Worker : pc[w] = IF w <= worker_threads_count THEN "ok" ELSE "none"
      BY <1>1, <1>3 DEF Inv, Joined
    <3>2. worker_threads_count' = worker_threads_count
      BY <1>1 DEF worker_threads_count
    <3>3. \A i \in 1 .. Len(layers') : lower'[i] = layers'[Len(layers') + 1 - i].digest
      BY <1>1, <1>3
    <3> QED BY <1>1, <1>3, <2>1, <3>1, <3>2, <3>3 DEF Joined
  <2> QED BY <2>2, <2>3, <2>4, <2>5, <2>6 DEF Inv
<1> QED BY <1>2, <1>3 DEF prepare

-----------------------------------------------------------------------------
(* Workers *)

\* While a worker is at work main has not mounted anything.
LEMMA AtWork ==
    ASSUME Inv, NEW w \in Worker, pc[w] \in {"pop", "get", "extract", "count", "log"}
    PROVE  /\ pc[main] \notin Before /\ lower = <<>>
           /\ ~(pc[main] \in {"prepare", "ok"} /\ layers # <<>>)
           /\ pc[main] = "join" => w > joined /\ ~(w > worker_threads_count)
<1>1. pc[w] # "none" /\ pc[w] # "ok"
  OBVIOUS
<1>2. pc[main] \notin Before
  BY <1>1 DEF Inv, Accounted
<1>3. ~(pc[main] \in {"prepare", "ok"} /\ layers # <<>>)
  BY <1>1 DEF Inv, Joined
<1>4. lower = <<>>
  BY <1>3 DEF Inv, Joined
<1>5. pc[main] = "join" => ~(w <= joined) /\ ~(w > worker_threads_count)
  BY <1>1 DEF Inv, Joined
<1>6. w \in Nat /\ joined \in Nat
  BY Threads DEF Inv, Typed
<1> QED BY <1>2, <1>3, <1>4, <1>5, <1>6

\* So its step concerns main no more than its own place does.
LEMMA WorkerJoined ==
    ASSUME Inv, NEW w \in Worker, pc[w] \in {"pop", "get", "extract", "count", "log"},
           \A t \in Thread \ {w} : pc'[t] = pc[t], UNCHANGED <<layers, joined, lower>>
    PROVE  Joined'
<1>1. /\ pc'[main] = pc[main] /\ \A v \in Worker \ {w} : pc'[v] = pc[v]
      /\ worker_threads_count' = worker_threads_count
  BY Threads DEF worker_threads_count
<1>2. /\ pc[main] \notin Before /\ lower = <<>>
      /\ ~(pc[main] \in {"prepare", "ok"} /\ layers # <<>>)
      /\ pc[main] = "join" => w > joined /\ ~(w > worker_threads_count)
  BY AtWork
<1>3. joined \in Nat /\ w \in Nat
  BY Threads DEF Inv, Typed
<1>4. pc[main] = "join" => \A v \in Worker : v <= joined => pc'[v] = "ok"
  BY <1>1, <1>2, <1>3 DEF Inv, Joined
<1>5. pc[main] = "join" => \A v \in Worker : v > worker_threads_count => pc'[v] = "none"
  BY <1>1, <1>2 DEF Inv, Joined
<1>6. pc[main] = "join" => joined < worker_threads_count
  BY DEF Inv, Joined
<1> QED BY <1>1, <1>2, <1>4, <1>5, <1>6 DEF Joined

\* A worker that does not touch the queue: it gets on with its layer, extracts
\* it, or fails with it.
LEMMA WorkerMoves ==
    ASSUME Inv, NEW w \in Worker, NEW place, Go(w, place),
           UNCHANGED <<layers, joined, queue, layer, lower>>,
           \/ pc[w] \in Busy /\ place \in Busy \cup {"err"} /\ extracted' = extracted
           \/ pc[w] \in Busy /\ place = "count" /\ extracted' = extracted \cup {layer[w]}
           \/ pc[w] = "count" /\ place = "log" /\ extracted' = extracted
           \/ pc[w] = "log" /\ place = "pop" /\ extracted' = extracted
    PROVE  /\ pc' = [t \in Thread |-> pc'[t]] /\ pc'[main] \in Before \cup After
           /\ \A v \in Worker : pc'[v] \in WorkerPlace
           /\ Taken' /\ Accounted' /\ Joined'
<1>1. /\ pc' = [t \in Thread |-> pc'[t]] /\ pc'[w] = place
      /\ \A t \in Thread \ {w} : pc'[t] = pc[t]
  BY GoFacts, Threads DEF Inv
<1>2. pc'[main] = pc[main] /\ \A v \in Worker \ {w} : pc'[v] = pc[v]
  BY <1>1, Threads
<1>3. pc[main] \notin Before /\ Joined'
  BY <1>1, AtWork, WorkerJoined DEF Busy
<1>4. /\ pc'[main] \in Before \cup After
      /\ \A v \in Worker : pc'[v] \in WorkerPlace
  BY <1>1, <1>2 DEF Inv, Typed, WorkerPlace, Busy
<1>5. popped' = popped /\ extracted' \subseteq extracted \cup {layer[w]}
  BY DEF popped
<1>6. Taken'
  <2>1. extracted' \subseteq 1 .. popped
    BY DEF Inv, Taken
  <2>2. ASSUME NEW v \in Worker, pc'[v] \in Busy
        PROVE  /\ pc[v] \in Busy /\ layer[v] \in (1 .. popped) \ extracted'
               /\ \A u \in Worker \ {v} : pc'[u] \in Busy => layer[u] # layer[v]
    <3>1. pc[v] \in Busy /\ \A u \in Worker : pc'[u] \in Busy => pc[u] \in Busy
      BY <1>1, <1>2, <2>2 DEF Busy
    <3>2. /\ layer[v] \in (1 .. popped) \ extracted
          /\ \A u \in Worker \ {v} : pc[u] \in Busy => layer[u] # layer[v]
      BY <3>1 DEF Inv, Taken
    <3>3. layer[v] \notin extracted'
      <4>1. CASE extracted' = extracted
        BY <3>2, <4>1
      <4>2. CASE pc[w] \in Busy /\ place = "count" /\ extracted' = extracted \cup {layer[w]}
        <5>1. v # w
          BY <1>1, <2>2, <4>2 DEF Busy
        <5> QED BY <3>2, <4>2, <5>1
      <4> QED BY <4>1, <4>2
    <3> QED BY <3>1, <3>2, <3>3
  <2>3. Len(queue) <= Len(layers) /\ \A i \in 1 .. Len(queue) : queue[i] = popped + i
    BY DEF Inv, Taken
  <2> QED BY <1>5, <2>1, <2>2, <2>3 DEF Taken
<1>7. Accounted'
  <2>1. ASSUME pc[main] \in {"join", "prepare", "ok"}, NEW i \in 1 .. popped
        PROVE  i \in extracted' \/ \E v \in Worker : layer[v] = i /\ pc'[v] \in Busy \cup {"err"}
    <3>1. CASE i \in extracted
      BY <3>1
    <3>2. ASSUME NEW v \in Worker, layer[v] = i, pc[v] \in Busy \cup {"err"}
          PROVE  i \in extracted' \/ pc'[v] \in Busy \cup {"err"}
      BY <1>1, <1>2, <3>2 DEF Busy
    <3> QED BY <2>1, <3>1, <3>2 DEF Inv, Accounted
  <2>2. \A v \in Worker : pc'[v] = "ok" => queue = <<>>
    BY <1>1, <1>2 DEF Inv, Accounted, Busy
  <2> QED BY <1>2, <1>3, <1>5, <2>1, <2>2 DEF Accounted
<1> QED BY <1>1, <1>3, <1>4, <1>6, <1>7

\* The next layer of the queue is nobody's.
LEMMA PopInv ==
    ASSUME Inv, NEW w \in Worker, pop_front(w)
    PROVE  Inv'
<1>1. /\ pc[w] = "pop"
      /\ UNCHANGED <<layers, joined, extracted, progress, number, comm, wire, lower>>
  BY DEF pop_front, At, image, work, report
<1>2. CASE queue = <<>>
  <2>1. Go(w, "ok") /\ UNCHANGED <<queue, layer>>
    BY <1>2 DEF pop_front, work
  <2>2. /\ pc' = [t \in Thread |-> pc'[t]] /\ pc'[w] = "ok"
        /\ \A t \in Thread \ {w} : pc'[t] = pc[t]
    BY <2>1, GoFacts, Threads DEF Inv
  <2>3. pc'[main] = pc[main] /\ \A v \in Worker \ {w} : pc'[v] = pc[v]
    BY <2>2, Threads
  <2>4. Numbered'
    BY <1>1, <2>2, <2>3, SameNumbers DEF Inv
  <2>5. Taken'
    BY <1>1, <2>1, <2>2, <2>3, SameWork DEF Inv, Busy
  <2>6. Typed'
    BY <1>1, <2>1, <2>2, <2>3 DEF Inv, Typed, WorkerPlace
  <2>7. pc[main] \notin Before /\ Joined'
    BY <1>1, <2>2, AtWork, WorkerJoined
  <2>8. Accounted'
    <3>1. popped' = popped
      BY <1>1, <2>1 DEF popped
    <3>2. \A v \in Worker : pc[v] \in Busy \cup {"err"} => pc'[v] = pc[v]
      BY <1>1, <2>3 DEF Busy
    <3> QED BY <1>1, <1>2, <2>1, <2>2, <2>3, <2>7, <3>1, <3>2 DEF Inv, Accounted
  <2> QED BY <2>4, <2>5, <2>6, <2>7, <2>8 DEF Inv
<1>3. CASE queue # <<>>
  <2>1. /\ layer' = [layer EXCEPT ![w] = Head(queue)] /\ queue' = Tail(queue)
        /\ Go(w, "get") \/ Go(w, "err")
    BY <1>3 DEF pop_front
  <2>2. /\ pc' = [t \in Thread |-> pc'[t]] /\ pc'[w] \in {"get", "err"}
        /\ \A t \in Thread \ {w} : pc'[t] = pc[t]
    BY <2>1, GoFacts, Threads DEF Inv
  <2>3. pc'[main] = pc[main] /\ \A v \in Worker \ {w} : pc'[v] = pc[v]
    BY <2>2, Threads
  <2>4. queue \in Seq(Nat) /\ layer \in [Worker -> Nat] /\ Len(layers) \in Nat
    BY DEF Inv, Typed
  <2>5. /\ Len(queue) \in Nat \ {0} /\ Head(queue) = queue[1] /\ queue' \in Seq(Nat)
        /\ Len(queue') = Len(queue) - 1
        /\ \A i \in 1 .. Len(queue') : queue'[i] = queue[i + 1]
    BY <1>3, <2>1, <2>4
  <2>6. /\ Len(queue) <= Len(layers) /\ \A i \in 1 .. Len(queue) : queue[i] = popped + i
        /\ extracted \subseteq 1 .. popped /\ popped \in Nat
    BY <2>4, <2>5 DEF Inv, Taken, popped
  <2>7. popped' = popped + 1
    BY <1>1, <2>4, <2>5 DEF popped
  <2>8. /\ layer'[w] = popped + 1 /\ layer' \in [Worker -> Nat]
        /\ \A v \in Worker \ {w} : layer'[v] = layer[v]
    <3>1. Head(queue) = popped + 1
      BY <2>5, <2>6
    <3> QED BY <2>1, <2>4, <2>6, <3>1
  <2>9. Numbered'
    BY <1>1, <2>2, <2>3, SameNumbers DEF Inv
  <2>10. Typed'
    BY <1>1, <2>2, <2>3, <2>5, <2>8 DEF Inv, Typed, WorkerPlace
  <2>11. pc[main] \notin Before /\ Joined'
    BY <1>1, <2>2, AtWork, WorkerJoined
  <2>12. \A i \in 1 .. popped : i \in 1 .. popped + 1 /\ i # popped + 1
    BY <2>6
  <2>13. Taken'
    <3>1. Len(queue') <= Len(layers')
      BY <1>1, <2>4, <2>5, <2>6
    <3>2. ASSUME NEW i \in 1 .. Len(queue') PROVE queue'[i] = popped' + i
      <4>1. i + 1 \in 1 .. Len(queue)
        BY <2>5
      <4>2. queue'[i] = popped + (i + 1)
        BY <2>5, <2>6, <4>1
      <4> QED BY <2>6, <2>7, <4>2
    <3>3. popped + 1 \in 1 .. popped' /\ extracted' \subseteq 1 .. popped'
      BY <1>1, <2>6, <2>7, <2>12
    <3>4. ASSUME NEW v \in Worker, pc'[v] \in Busy
          PROVE  /\ layer'[v] \in (1 .. popped') \ extracted'
                 /\ \A u \in Worker \ {v} : pc'[u] \in Busy => layer'[u] # layer'[v]
      <4>1. \A u \in Worker \ {w} : pc'[u] \in Busy =>
               layer'[u] = layer[u] /\ layer[u] \in (1 .. popped) \ extracted
        BY <2>3, <2>8 DEF Inv, Taken
      <4>2. CASE v = w
        BY <1>1, <2>6, <2>8, <2>12, <3>3, <4>1, <4>2
      <4>3. CASE v # w
        <5>1. /\ layer'[v] \in (1 .. popped') \ extracted' /\ layer'[v] # popped + 1
              /\ layer'[v] = layer[v] /\ pc[v] \in Busy
          BY <1>1, <2>3, <2>7, <2>12, <3>4, <4>1, <4>3
        <5>2. ASSUME NEW u \in Worker \ {v}, pc'[u] \in Busy PROVE layer'[u] # layer'[v]
          <6>1. CASE u = w
            BY <2>8, <5>1, <6>1
          <6>2. CASE u # w
            BY <2>3, <2>8, <5>1, <5>2, <6>2 DEF Inv, Taken
          <6> QED BY <6>1, <6>2
        <5> QED BY <5>1, <5>2
      <4> QED BY <4>2, <4>3
    <3> QED BY <3>1, <3>2, <3>3, <3>4 DEF Taken
  <2>14. Accounted'
    <3>1. ASSUME pc[main] \in {"join", "prepare", "ok"}, NEW i \in 1 .. popped'
          PROVE  i \in extracted \/ \E v \in Worker : layer'[v] = i /\ pc'[v] \in Busy \cup {"err"}
      <4>1. CASE i = popped + 1
        BY <2>2, <2>8, <4>1 DEF Busy
      <4>2. CASE i # popped + 1
        <5>1. i \in 1 .. popped
          BY <2>6, <2>7, <4>2
        <5>2. \A v \in Worker : pc[v] \in Busy \cup {"err"} => v # w
          BY <1>1 DEF Busy
        <5> QED BY <2>3, <2>8, <3>1, <5>1, <5>2 DEF Inv, Accounted
      <4> QED BY <4>1, <4>2
    <3>2. \A v \in Worker : pc'[v] # "ok"
      BY <1>3, <2>2, <2>3 DEF Inv, Accounted
    <3> QED BY <1>1, <2>3, <2>11, <3>1, <3>2 DEF Accounted
  <2> QED BY <2>9, <2>10, <2>11, <2>13, <2>14 DEF Inv
<1> QED BY <1>2, <1>3

\* The other steps of a worker.
LEMMA WorkInv ==
    ASSUME Inv, NEW w \in Worker,
           pull_layer(w) \/ extract_layer(w) \/ count_layer(w) \/ log_layer(w)
    PROVE  Inv'
<1> DEFINE Rest == /\ pc' = [t \in Thread |-> pc'[t]] /\ pc'[main] \in Before \cup After
                   /\ \A v \in Worker : pc'[v] \in WorkerPlace
                   /\ Taken' /\ Accounted' /\ Joined'
<1>1. CASE pull_layer(w) \/ extract_layer(w)
  <2>1. /\ UNCHANGED <<layers, joined, queue, layer, progress, number, comm, wire, lower>>
        /\ pc[w] \in Busy
    BY <1>1 DEF pull_layer, extract_layer, get_with_backoff, get, At, image, work, report, Busy
  <2>2. \E place \in {"get", "extract", "count", "err"} :
           /\ Go(w, place)
           /\ \/ place \in Busy \cup {"err"} /\ extracted' = extracted
              \/ place = "count" /\ extracted' = extracted \cup {layer[w]}
    <3>1. CASE pull_layer(w) /\ UNCHANGED pc
      <4>1. Go(w, pc[w])
        BY <3>1, Threads DEF Go, Inv, Typed
      <4>2. pc[w] = "get" /\ extracted' = extracted
        BY <3>1 DEF pull_layer, get_with_backoff, get, At, work
      <4> QED BY <4>1, <4>2 DEF Busy
    <3>2. CASE pull_layer(w) /\ (Go(w, "extract") \/ Go(w, "err"))
      BY <3>2 DEF pull_layer, work, Busy
    <3>3. CASE extract_layer(w)
      BY <3>3 DEF extract_layer, Busy
    <3> QED BY <1>1, <3>1, <3>2, <3>3 DEF pull_layer, get_with_backoff, get
  <2>3. PICK place \in {"get", "extract", "count", "err"} :
           /\ Go(w, place)
           /\ \/ place \in Busy \cup {"err"} /\ extracted' = extracted
              \/ place = "count" /\ extracted' = extracted \cup {layer[w]}
    BY <2>2
  <2>4. Rest
    BY <2>1, <2>3, WorkerMoves
  <2>5. \A v \in Worker : pc'[v] = "log" <=> pc[v] = "log"
    BY <2>1, <2>3, GoFacts, Threads DEF Inv, Busy
  <2>6. Numbered'
    BY <2>1, <2>5, SameNumbers DEF Inv
  <2>7. Typed'
    BY <2>1, <2>4 DEF Inv, Typed
  <2> QED BY <2>4, <2>6, <2>7 DEF Inv
<1>2. CASE count_layer(w)
  <2>1. /\ UNCHANGED <<layers, joined, queue, layer, extracted, lower>> /\ pc[w] = "count"
        /\ Go(w, "log")
    BY <1>2 DEF count_layer, At, image, work
  <2>2. Rest
    BY <2>1, WorkerMoves
  <2>3. /\ Numbered' /\ progress' \in Nat /\ number' \in [Worker -> Nat] /\ comm' = w
        /\ wire' = wire
    BY <1>2, CountNumbers DEF Inv
  <2>4. Typed'
    BY <2>1, <2>2, <2>3 DEF Inv, Typed
  <2> QED BY <2>2, <2>3, <2>4 DEF Inv
<1>3. CASE log_layer(w)
  <2>1. /\ UNCHANGED <<layers, joined, queue, layer, extracted, lower, progress, number>>
        /\ pc[w] = "log" /\ Go(w, "pop") /\ comm' = None
    BY <1>3 DEF log_layer, At, image, work
  <2>2. Rest
    BY <2>1, WorkerMoves
  <2>3. Numbered' /\ wire' \in Seq(Packet)
    BY <1>3, LogNumbers DEF Inv
  <2>4. Typed'
    BY <2>1, <2>2, <2>3 DEF Inv, Typed
  <2> QED BY <2>2, <2>3, <2>4 DEF Inv
<1> QED BY <1>1, <1>2, <1>3

-----------------------------------------------------------------------------
(* Theorems *)

\* The invariant holds at the start.
LEMMA InitInv == Init => Inv
<1> SUFFICES ASSUME Init PROVE Inv
  OBVIOUS
<1>1. PICK n \in 0 .. MaxLayers : layers \in [1 .. n -> [digest : Digest, media : Media]]
  BY DEF Init
<1>2. layers \in Seq([digest : Digest, media : Media]) /\ Len(layers) \in Nat
  <2>1. n \in Nat
    BY PullAssumption
  <2>2. PICK S : S = [digest : Digest, media : Media]
    OBVIOUS
  <2>3. layers \in [1 .. n -> S]
    BY <1>1, <2>2
  <2>4. layers \in Seq(S) /\ Len(layers) = n
    BY <2>1, <2>3
  <2> QED BY <2>1, <2>2, <2>4
<1>3. /\ pc[main] = "start" /\ \A w \in Worker : pc[w] = "none"
      /\ pc = [t \in Thread |-> pc[t]]
  BY Threads DEF Init
<1>4. wire = <<>> /\ Len(wire) = 0 /\ queue = <<>> /\ Len(queue) = 0 /\ comm = None
  BY DEF Init
<1>5. Typed
  BY <1>2, <1>3, <1>4 DEF Init, Typed, Before, WorkerPlace
<1>6. Taken
  BY <1>2, <1>3, <1>4 DEF Init, Taken, Busy
<1>7. Accounted
  BY <1>3, <1>4 DEF Init, Accounted
<1>8. Joined
  BY <1>3 DEF Init, Joined
<1>9. Numbered
  <2>1. Cardinality(Steps(Len(wire))) = 0
    <3>1. Steps(Len(wire)) = {}
      BY <1>4 DEF Steps
    <3> QED BY <3>1, FS_EmptySet
  <2>2. ProgressInOrder
    BY <1>4 DEF ProgressInOrder
  <2>3. progress = Cardinality(Steps(Len(wire))) + (IF comm = None THEN 0 ELSE 1)
    BY <1>4, <2>1 DEF Init
  <2>4. \A w \in Worker : pc[w] # "log" /\ comm # w
    BY <1>3, <1>4, Threads
  <2> QED BY <2>2, <2>3, <2>4 DEF Numbered
<1> QED BY <1>5, <1>6, <1>7, <1>8, <1>9 DEF Inv

\* And every step keeps it.
LEMMA NextInv == Inv /\ [Next]_vars => Inv'
BY EarlyInv, StartInv, JoinInv, PrepareInv, LateInv, PopInv, WorkInv
   DEF Next, Main, Work, Terminated

\* The invariant of queue, workers and messages.
THEOREM Invariance == Spec => []Inv
BY InitInv, NextInv, PTL DEF Spec

\* pop_front gives no layer to two workers, nor a finished one to any.
THEOREM TakenSafety == Spec => []LayerTakenOnce
<1>1. Inv => LayerTakenOnce
  <2> SUFFICES ASSUME Inv, NEW w \in Worker, pc[w] \in Busy
               PROVE  /\ layer[w] \notin extracted
                      /\ \A i \in 1 .. Len(queue) : queue[i] # layer[w]
                      /\ \A v \in Worker \ {w} : pc[v] \in Busy => layer[v] # layer[w]
    BY DEF LayerTakenOnce, Busy
  <2>1. /\ layer[w] \in (1 .. popped) \ extracted
        /\ \A v \in Worker \ {w} : pc[v] \in Busy => layer[v] # layer[w]
        /\ \A i \in 1 .. Len(queue) : queue[i] = popped + i
    BY DEF Inv, Taken
  <2>2. popped \in Int
    BY DEF Inv, Typed, popped
  <2> QED BY <2>1, <2>2
<1> QED BY <1>1, Invariance, PTL

\* create_overlay_fs mounts the whole image: main joined every worker, and none
\* of them left a layer.
THEOREM MountSafety == Spec => []MountedComplete
<1>1. Inv => MountedComplete
  <2> SUFFICES ASSUME Inv, lower # <<>>
               PROVE  /\ \A i \in 1 .. Len(layers) : lower[i] = layers[Len(layers) + 1 - i].digest
                      /\ extracted = 1 .. Len(layers)
                      /\ \A w \in Worker : pc[w] \in {"none", "ok"}
    BY DEF MountedComplete
  <2>1. /\ pc[main] = "ok" /\ layers # <<>>
        /\ \A i \in 1 .. Len(layers) : lower[i] = layers[Len(layers) + 1 - i].digest
    BY DEF Inv, Joined
  <2>2. \A w \in Worker : pc[w] = IF w <= worker_threads_count THEN "ok" ELSE "none"
    BY <2>1 DEF Inv, Joined
  <2>3. 1 \in Worker /\ 1 <= worker_threads_count
    BY <2>1, PullAssumption DEF Inv, Typed, Worker, worker_threads_count
  <2>4. queue = <<>>
    BY <2>2, <2>3 DEF Inv, Accounted
  <2>5. popped = Len(layers)
    BY <2>4 DEF popped, Inv, Typed
  <2>6. \A i \in 1 .. popped : i \in extracted
    BY <2>1, <2>2 DEF Inv, Accounted, Busy
  <2>7. extracted = 1 .. Len(layers)
    BY <2>5, <2>6 DEF Inv, Taken
  <2> QED BY <2>1, <2>2, <2>7
<1> QED BY <1>1, Invariance, PTL

\* The mutex that covers number and message keeps the numbers in order.
THEOREM ProgressSafety == Spec => []ProgressInOrder
<1>1. Inv => ProgressInOrder
  BY DEF Inv, Numbered
<1> QED BY <1>1, Invariance, PTL
=============================================================================
