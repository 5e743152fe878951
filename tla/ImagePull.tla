------------------------------ MODULE ImagePull ------------------------------
(***************************************************************************)
(* The pull of a container image inside the guest: containers/mod.rs,      *)
(* containers/registry.rs and containers/fs.rs of instance.                *)
(*                                                                         *)
(* Main fetches index, manifest and configuration; then up to              *)
(* CONCURRENT_LAYER_DOWNLOADS workers take layers from one queue, fetch    *)
(* and extract them and report progress over the shared connection.  Main  *)
(* joins the workers in order and goes back at the first failure it meets, *)
(* with the other workers still at work, or mounts the layers.             *)
(*                                                                         *)
(* The registry is outside: a request succeeds, fails on the network or is *)
(* refused.  Folders are named by digest, which may repeat in a manifest.  *)
(***************************************************************************)
EXTENDS Integers, Sequences, FiniteSets

CONSTANTS Digest,                      \* layer digests
          CONCURRENT_LAYER_DOWNLOADS,  \* 5 in the code
          MaxLayers,                   \* bound: layers of the manifest
          MaxTries,                    \* bound: retries that fit in max_elapsed_time
          None

ASSUME PullAssumption ==
    /\ CONCURRENT_LAYER_DOWNLOADS \in Nat \ {0} /\ MaxLayers \in Nat \ {0}
    /\ MaxTries \in Nat
    /\ None \notin 1 .. CONCURRENT_LAYER_DOWNLOADS

Media == {"gzip", "zstd", "tar", "other"}
Worker == 1 .. CONCURRENT_LAYER_DOWNLOADS
main == 0
Thread == {main} \cup Worker

VARIABLES
    layers,     \* the manifest's layers: digest and media type
    docker_io,  \* whether the registry wants a token first
    pc,         \* where each thread is
    tries,      \* requests each thread repeated
    joined,     \* workers main has joined
    queue,      \* layers not taken yet
    layer,      \* the layer a worker has in hand, or 0
    extracted,  \* layers whose folder is complete
    progress,   \* layer_progress
    number,     \* a worker's value of it
    comm,       \* holder of the connection's mutex, or None
    wire,       \* packets to the host
    lower,      \* the mounted folders, top first
    vm          \* "on" or "off"

image == <<layers, docker_io>>
work == <<queue, layer, extracted>>
report == <<progress, number, comm, wire>>
vars == <<image, pc, tries, joined, work, report, lower, vm>>

worker_threads_count ==
    IF Len(layers) < CONCURRENT_LAYER_DOWNLOADS THEN Len(layers) ELSE CONCURRENT_LAYER_DOWNLOADS

At(t, place) == vm = "on" /\ pc[t] = place
Go(t, place) == pc' = [pc EXCEPT ![t] = place]

\* A packet written in one go under the mutex.
write(p) == comm = None /\ wire' = Append(wire, p) /\ UNCHANGED <<progress, number, comm>>

-----------------------------------------------------------------------------
(* Requests *)

\* get: a request that is not repeated.
get(t, here, there, fail) ==
    /\ At(t, here)
    /\ Go(t, there) \/ Go(t, fail)
    /\ UNCHANGED tries

\* Faulty variant: the elapsed time starts again.
BackoffRestarts(t, here, there, fail) ==
    \/ get(t, here, there, fail)
    \/ /\ At(t, here)
       /\ tries' = [tries EXCEPT ![t] = IF @ < MaxTries THEN @ + 1 ELSE 0]
       /\ UNCHANGED pc

\* A failure on the network is repeated while time is left, any other one is
\* final.
get_with_backoff(t, here, there, fail) ==
    \/ get(t, here, there, fail)
    \/ /\ At(t, here) /\ tries[t] < MaxTries
       /\ tries' = [tries EXCEPT ![t] = @ + 1]
       /\ UNCHANGED pc

-----------------------------------------------------------------------------
(* pull_and_prepare_image *)

pull_starts ==
    /\ At(main, "start")
    /\ write([type |-> "state", is |-> "pulling"])
    /\ Go(main, IF docker_io THEN "auth" ELSE "index")
    /\ UNCHANGED <<image, tries, joined, work, lower, vm>>

docker_io_oauth ==
    /\ get(main, "auth", "index", "failed")
    /\ UNCHANGED <<image, joined, work, report, lower, vm>>

\* Index with retries; then a compatible manifest and the configuration.
get_manifest_and_config ==
    /\ \/ get_with_backoff(main, "index", "manifest", "failed")
       \/ get(main, "manifest", "config", "failed")
       \/ get(main, "config", "folders", "failed")
    /\ UNCHANGED <<image, joined, work, report, lower, vm>>

\* The number of layers is reported, then a folder for each layer, the queue of
\* all of them, and the workers.  A folder may fail before the report or after.
start_workers ==
    /\ At(main, "folders")
    /\ \/ /\ write([type |-> "system", is |-> "layers"])
          /\ queue' = [i \in 1 .. Len(layers) |-> i]
          /\ pc' = [t \in Thread |->
                       IF t = main THEN IF layers = <<>> THEN "prepare" ELSE "join"
                       ELSE IF t <= worker_threads_count THEN "pop" ELSE "none"]
       \/ /\ write([type |-> "system", is |-> "layers"]) \/ UNCHANGED report
          /\ Go(main, "failed") /\ UNCHANGED queue
    /\ UNCHANGED <<image, tries, joined, layer, extracted, lower, vm>>

\* Faulty variant: how a worker ended is not looked at.
JoinIgnoresErrors ==
    /\ At(main, "join")
    /\ joined < worker_threads_count /\ pc[joined + 1] \in {"ok", "err"}
    /\ joined' = joined + 1
    /\ Go(main, IF joined' = worker_threads_count THEN "prepare" ELSE "join")
    /\ UNCHANGED <<image, tries, work, report, lower, vm>>

\* Faulty variant: the first worker that ends is enough.
JoinFirst ==
    /\ At(main, "join")
    /\ \E w \in 1 .. worker_threads_count :
           /\ pc[w] \in {"ok", "err"}
           /\ Go(main, IF pc[w] = "err" THEN "failed" ELSE "prepare")
    /\ UNCHANGED <<image, tries, joined, work, report, lower, vm>>

\* The workers are joined in order, up to one that failed.
join_worker ==
    LET w == joined + 1 IN
    /\ At(main, "join") /\ pc[w] \in {"ok", "err"}
    /\ joined' = w
    /\ Go(main, IF pc[w] = "err" THEN "failed"
                  ELSE IF w = worker_threads_count THEN "prepare" ELSE "join")
    /\ UNCHANGED <<image, tries, work, report, lower, vm>>

\* Configuration files, then create_overlay_fs: the last layer on top.  Each
\* of it may fail; files and the mount do so with a panic, as a mount of no
\* layers always does.
prepare ==
    /\ At(main, "prepare")
    /\ \/ /\ layers # <<>>
          /\ lower' = [i \in 1 .. Len(layers) |-> layers[Len(layers) + 1 - i].digest]
          /\ Go(main, "ok")
       \/ (Go(main, "failed") \/ Go(main, "panicked")) /\ UNCHANGED lower
    /\ UNCHANGED <<image, tries, joined, work, report, vm>>

\* main.rs on a failure: Exited, then the reboot.
report_failure ==
    /\ At(main, "failed")
    /\ write([type |-> "exited", is |-> "pull"])
    /\ Go(main, "halt")
    /\ UNCHANGED <<image, tries, joined, work, lower, vm>>

shutdown ==
    /\ vm = "on" /\ pc[main] \in {"halt", "panicked"}
    /\ vm' = "off"
    /\ UNCHANGED <<image, pc, tries, joined, work, report, lower>>

-----------------------------------------------------------------------------
(* The workers *)

\* Faulty variant: the front is read and taken away later.
PopLeaves(w) ==
    /\ At(w, "pop")
    /\ IF queue = <<>> THEN Go(w, "ok") /\ UNCHANGED work
       ELSE /\ layer' = [layer EXCEPT ![w] = Head(queue)]
            /\ queue' = IF Len(queue) = 1 THEN <<>> ELSE <<queue[1]>> \o Tail(Tail(queue))
            /\ Go(w, "get")
            /\ UNCHANGED extracted
    /\ UNCHANGED <<image, tries, joined, report, lower, vm>>

\* The next layer and its folder, or the end.
pop_front(w) ==
    /\ At(w, "pop")
    /\ IF queue = <<>> THEN Go(w, "ok") /\ UNCHANGED work
       ELSE /\ layer' = [layer EXCEPT ![w] = Head(queue)]
            /\ queue' = Tail(queue)
            /\ Go(w, "get") \/ Go(w, "err")
            /\ UNCHANGED extracted
    /\ tries' = [tries EXCEPT ![w] = 0]
    /\ UNCHANGED <<image, joined, report, lower, vm>>

pull_layer(w) ==
    /\ get_with_backoff(w, "get", "extract", "err")
    /\ UNCHANGED <<image, joined, work, report, lower, vm>>

\* gzip and plain archives can be unpacked; zstd is given to a zlib decoder,
\* which refuses it, and other types are refused at once.
extract_layer(w) ==
    /\ At(w, "extract")
    /\ \/ /\ layers[layer[w]].media \in {"gzip", "tar"}
          /\ extracted' = extracted \cup {layer[w]}
          /\ Go(w, "count")
       \/ Go(w, "err") /\ UNCHANGED extracted
    /\ UNCHANGED <<image, tries, joined, queue, layer, report, lower, vm>>

\* Faulty variant: the number is drawn before the mutex is taken.
CountUnlocked(w) ==
    /\ At(w, "count")
    /\ number' = [number EXCEPT ![w] = progress]
    /\ progress' = progress + 1
    /\ Go(w, "log")
    /\ UNCHANGED <<image, tries, joined, work, comm, wire, lower, vm>>

\* The mutex, then the number of the message.
count_layer(w) ==
    /\ At(w, "count") /\ comm = None
    /\ comm' = w
    /\ number' = [number EXCEPT ![w] = progress]
    /\ progress' = progress + 1
    /\ Go(w, "log")
    /\ UNCHANGED <<image, tries, joined, work, wire, lower, vm>>

\* The message, and the end of the mutex.
log_layer(w) ==
    /\ At(w, "log") /\ comm \in {None, w}
    /\ wire' = Append(wire, [type |-> "layer", is |-> number[w] + 1])
    /\ comm' = None
    /\ Go(w, "pop")
    /\ UNCHANGED <<image, tries, joined, work, progress, number, lower, vm>>

Terminated == (vm = "off" \/ pc[main] = "ok") /\ UNCHANGED vars

-----------------------------------------------------------------------------
Init ==
    /\ \E n \in 0 .. MaxLayers : layers \in [1 .. n -> [digest : Digest, media : Media]]
    /\ docker_io \in BOOLEAN
    /\ pc = [t \in Thread |-> IF t = main THEN "start" ELSE "none"]
    /\ tries = [t \in Thread |-> 0] /\ joined = 0
    /\ queue = <<>> /\ layer = [w \in Worker |-> 0] /\ extracted = {}
    /\ progress = 0 /\ number = [w \in Worker |-> 0] /\ comm = None /\ wire = <<>>
    /\ lower = <<>> /\ vm = "on"

Main ==
    \/ pull_starts \/ docker_io_oauth \/ get_manifest_and_config \/ start_workers
    \/ join_worker \/ prepare \/ report_failure \/ shutdown

Work(w) ==
    \/ pop_front(w) \/ pull_layer(w) \/ extract_layer(w) \/ count_layer(w) \/ log_layer(w)

Next == Main \/ (\E w \in Worker : Work(w)) \/ Terminated

Spec == Init /\ [][Next]_vars

\* Every thread runs, and a request ends: the client gives up after 30 seconds.
\* Taking the mutex is strongly fair: its holders let it go again and again.
Fairness ==
    /\ WF_vars(Main) /\ SF_vars(report_failure)
    /\ \A w \in Worker : WF_vars(Work(w)) /\ SF_vars(count_layer(w))

FairSpec == Spec /\ Fairness

-----------------------------------------------------------------------------
(* Properties *)

\* What is mounted is the manifest's layers, the last on top, each extracted to
\* the end with nobody still writing into its folder: the workers' order and a
\* failure of one of them do not show.
MountedComplete ==
    lower # <<>> =>
        /\ \A i \in 1 .. Len(layers) : lower[i] = layers[Len(layers) + 1 - i].digest
        /\ extracted = 1 .. Len(layers)
        /\ \A w \in Worker : pc[w] \in {"none", "ok"}

\* A layer is extracted by one worker only: no two have the same in hand, and
\* none in hand is finished or still queued.
LayerTakenOnce ==
    \A w \in Worker : pc[w] \in {"get", "extract"} =>
        /\ layer[w] \notin extracted
        /\ \A i \in 1 .. Len(queue) : queue[i] # layer[w]
        /\ \A v \in Worker \ {w} : pc[v] \in {"get", "extract"} => layer[v] # layer[w]

\* The messages about layers among the first j packets.
Steps(j) == {i \in 1 .. j : wire[i].type = "layer"}

\* The host reads "layer 1 of n", "layer 2 of n", ... in this order, whichever
\* workers write them, also behind the packet that reports a failure.
ProgressInOrder ==
    \A j \in 1 .. Len(wire) : wire[j].type = "layer" => wire[j].is = Cardinality(Steps(j))

\* The pull ends: with the layers mounted, or with the machine stopped.
PullEnds == <>(pc[main] = "ok" \/ vm = "off")

\* A worker's failure comes out, also when main waits for a slower one first.
FailureReported == \A w \in Worker : pc[w] = "err" ~> vm = "off"
=============================================================================
