----------------------------- MODULE MachineLog -----------------------------
(***************************************************************************)
(* The log of one machine: MachineCommunicator and packet_handler of       *)
(* machine/vsock.rs, the readers get_logs and stream_logs of manager.rs,   *)
(* and the end of the machine as far as the log sees it.                   *)
(*                                                                         *)
(* The guest's packets wait in the vsock stream.  packet_handler takes     *)
(* them one by one under the communicator's mutex, keeps the last          *)
(* MAX_LINES of them and offers each to every subscriber with try_send: a  *)
(* subscriber whose channel is full is dropped.  stream_logs takes a copy  *)
(* of the buffer and subscribes under the same mutex; a task of its own    *)
(* then forwards copy and channel to the client through a second channel.  *)
(* Log lines and states are numbered in the order the guest sent them.     *)
(***************************************************************************)
EXTENDS Integers, Sequences, SequencesExt

CONSTANTS Reader,       \* stream_logs calls
          MAX_LINES,    \* MAX_LINES_IN_BUFFER, 256 in the code
          SubChan,      \* capacity of a subscriber's channel, 128 in the code
          RpcChan,      \* capacity of the channel to the client, 128 in the code
          MaxPackets,   \* bound: packets the guest sends
          None

ASSUME CapacityAssumption ==
    /\ MAX_LINES \in Nat \ {0} /\ SubChan \in Nat \ {0} /\ RpcChan \in Nat \ {0}
    /\ MaxPackets \in Nat
ASSUME NoneAssumption == None \notin Reader /\ "shutdown" \notin Reader \cup {None}

VARIABLES
    inbox,            \* packets in the stream, not yet read
    sent,             \* packets sent so far
    eof,              \* the guest's end of the stream is closed
    handler,          \* packet_handler: "loop", "ending" or "done"
    lock,             \* holder of the communicator's mutex: None, "shutdown" or a reader
    log_buffer,       \* newest entry first
    state,            \* last VmState, or None
    log_subscribers,  \* readers whose Sender is in the list
    machine,          \* "mapped", "asking" (send_shutdown), "joining" or "gone"
    reader,           \* "idle", "asked", "locked", "forward" or "ended"
    client,           \* "there" or "gone"
    log_rx,           \* a subscriber's channel
    logs,             \* what the forwarding task has in hand
    rpc_rx,           \* channel to the client
    hist,             \* history: entries pushed
    snap, from,       \* history: a reader's copy, and Len(hist) when it subscribed
    lagged,           \* history: readers dropped because their channel was full
    got               \* history: what the client received

guest   == <<inbox, sent, eof>>
buffer  == <<log_buffer, state, hist>>
streams == <<reader, client, log_rx, logs, rpc_rx, snap, from, got>>
vars == <<guest, handler, lock, buffer, log_subscribers, machine, streams, lagged>>

Entry == [kind : {"log", "state"}, id : 1 .. MaxPackets]
Packet == [kind : {"log", "state", "exited", "malformed"}, id : 1 .. MaxPackets]

-----------------------------------------------------------------------------
(* The guest *)

\* A packet, or bytes that read_from_stream refuses.
guest_sends(kind) ==
    /\ ~eof /\ sent < MaxPackets
    /\ sent' = sent + 1
    /\ inbox' = Append(inbox, [kind |-> kind, id |-> sent'])
    /\ UNCHANGED <<eof, handler, lock, buffer, log_subscribers, machine, streams, lagged>>

\* The guest stops, or crashes.
guest_closes ==
    /\ ~eof
    /\ eof' = TRUE
    /\ UNCHANGED <<inbox, sent, handler, lock, buffer, log_subscribers, machine, streams, lagged>>

-----------------------------------------------------------------------------
(* MachineCommunicator *)

\* CircularBuffer::push_front: the oldest entry of a full buffer is overwritten.
push_front(b, e) == <<e>> \o (IF Len(b) < MAX_LINES THEN b ELSE Front(b))

\* Subscribers whose try_send fails: the channel is full or its receiver gone.
Full(r) == Len(log_rx[r]) >= SubChan
Refuses(r) == Full(r) \/ reader[r] = "ended"

\* Faulty variant: a full channel loses the entry and keeps its subscriber.
PushLogSkips(e) ==
    /\ log_buffer' = push_front(log_buffer, e)
    /\ hist' = Append(hist, e)
    /\ log_rx' = [r \in Reader |-> IF r \in log_subscribers /\ ~Refuses(r)
                                   THEN Append(log_rx[r], e) ELSE log_rx[r]]
    /\ UNCHANGED <<log_subscribers, lagged>>

\* Faulty variant: one refusal drops every subscriber.
PushLogDropsAll(e) ==
    /\ log_buffer' = push_front(log_buffer, e)
    /\ hist' = Append(hist, e)
    /\ log_rx' = [r \in Reader |-> IF r \in log_subscribers /\ ~Refuses(r)
                                   THEN Append(log_rx[r], e) ELSE log_rx[r]]
    /\ log_subscribers' = IF \E r \in log_subscribers : Refuses(r) THEN {} ELSE log_subscribers
    /\ lagged' = lagged \cup {r \in log_subscribers : Full(r)}

\* Faulty variant: the channels have no limit.
PushLogUnbounded(e) ==
    /\ log_buffer' = push_front(log_buffer, e)
    /\ hist' = Append(hist, e)
    /\ log_rx' = [r \in Reader |-> IF r \in log_subscribers
                                   THEN Append(log_rx[r], e) ELSE log_rx[r]]
    /\ UNCHANGED <<log_subscribers, lagged>>

\* An entry enters the buffer and every channel that takes it; the others'
\* subscriptions end.
push_log(e) ==
    /\ log_buffer' = push_front(log_buffer, e)
    /\ hist' = Append(hist, e)
    /\ log_rx' = [r \in Reader |-> IF r \in log_subscribers /\ ~Refuses(r)
                                   THEN Append(log_rx[r], e) ELSE log_rx[r]]
    /\ log_subscribers' = {r \in log_subscribers : ~Refuses(r)}
    /\ lagged' = lagged \cup {r \in log_subscribers : Full(r)}

\* Faulty variant: the state is chained when the buffer has it.
CloneChainsTwice ==
    Reverse(log_buffer) \o
        (IF state # None /\ state \in ToSet(log_buffer) THEN <<state>> ELSE <<>>)

\* Oldest first; the last state is added at the end when the buffer lost it.
clone_buffer_with_state ==
    Reverse(log_buffer) \o
        (IF state # None /\ state \notin ToSet(log_buffer) THEN <<state>> ELSE <<>>)

-----------------------------------------------------------------------------
(* packet_handler *)

\* One packet under the mutex.  After Exited nothing more is read.
handle_packet ==
    LET p == Head(inbox) IN
    /\ handler = "loop" /\ inbox # <<>>
    /\ p.kind # "malformed"
    /\ lock = None
    /\ inbox' = Tail(inbox)
    /\ \/ p.kind = "log" /\ push_log(p) /\ UNCHANGED <<state, handler>>
       \/ p.kind = "state" /\ state' = p /\ push_log(p) /\ UNCHANGED handler
       \/ /\ p.kind = "exited"
          /\ state' = None
          /\ handler' = "ending"
          /\ UNCHANGED <<log_buffer, hist, log_rx, log_subscribers, lagged>>
    /\ UNCHANGED <<sent, eof, lock, machine, reader, client, logs, rpc_rx, snap, from, got>>

\* read_from_stream returns an error.
read_error ==
    /\ handler = "loop"
    /\ \/ inbox # <<>> /\ Head(inbox).kind = "malformed" /\ inbox' = Tail(inbox)
       \/ inbox = <<>> /\ eof /\ UNCHANGED inbox
    /\ handler' = "ending"
    /\ UNCHANGED <<sent, eof, lock, buffer, log_subscribers, machine, streams, lagged>>

\* drop_subscribers() if try_lock() gets the mutex; then the handler lets go of
\* the communicator, which is dropped if the machine let go before.
handler_ends ==
    /\ handler = "ending"
    /\ handler' = "done"
    /\ log_subscribers' = IF lock = None \/ machine = "gone" THEN {} ELSE log_subscribers
    /\ UNCHANGED <<guest, lock, buffer, machine, streams, lagged>>

-----------------------------------------------------------------------------
(* stream_logs *)

\* The machine is found under the map's read lock, which is kept.
stream_logs(r) ==
    /\ reader[r] = "idle" /\ machine = "mapped"
    /\ reader' = [reader EXCEPT ![r] = "asked"]
    /\ UNCHANGED <<guest, handler, lock, buffer, log_subscribers, machine,
                   client, log_rx, logs, rpc_rx, snap, from, got, lagged>>

lock_communicator(r) ==
    /\ reader[r] = "asked" /\ lock = None
    /\ lock' = r
    /\ reader' = [reader EXCEPT ![r] = "locked"]
    /\ UNCHANGED <<guest, handler, buffer, log_subscribers, machine,
                   client, log_rx, logs, rpc_rx, snap, from, got, lagged>>

\* Faulty variant: the guard moves into the forwarding task.
SubscribeKeepsLock(r) ==
    /\ reader[r] = "locked"
    /\ logs' = [logs EXCEPT ![r] = clone_buffer_with_state]
    /\ snap' = [snap EXCEPT ![r] = clone_buffer_with_state]
    /\ from' = [from EXCEPT ![r] = Len(hist)]
    /\ log_subscribers' = log_subscribers \cup {r}
    /\ reader' = [reader EXCEPT ![r] = "forward"]
    /\ UNCHANGED <<guest, handler, lock, buffer, machine, client, log_rx, rpc_rx, got, lagged>>

\* get_and_subscribe_to_logs under the mutex; then both locks are released and
\* the forwarding task is spawned.
get_and_subscribe_to_logs(r) ==
    /\ reader[r] = "locked"
    /\ lock' = None
    /\ logs' = [logs EXCEPT ![r] = clone_buffer_with_state]
    /\ snap' = [snap EXCEPT ![r] = clone_buffer_with_state]
    /\ from' = [from EXCEPT ![r] = Len(hist)]
    /\ log_subscribers' = log_subscribers \cup {r}
    /\ reader' = [reader EXCEPT ![r] = "forward"]
    /\ UNCHANGED <<guest, handler, buffer, machine, client, log_rx, rpc_rx, got, lagged>>

\* The forwarding task waits for room towards the client.
forward_send(r) ==
    /\ reader[r] = "forward" /\ logs[r] # <<>>
    /\ client[r] = "there" /\ Len(rpc_rx[r]) < RpcChan
    /\ rpc_rx' = [rpc_rx EXCEPT ![r] = Append(@, Head(logs[r]))]
    /\ logs' = [logs EXCEPT ![r] = Tail(@)]
    /\ UNCHANGED <<guest, handler, lock, buffer, log_subscribers, machine,
                   reader, client, log_rx, snap, from, got, lagged>>

forward_recv(r) ==
    /\ reader[r] = "forward" /\ logs[r] = <<>>
    /\ log_rx[r] # <<>>
    /\ logs' = [logs EXCEPT ![r] = <<Head(log_rx[r])>>]
    /\ log_rx' = [log_rx EXCEPT ![r] = Tail(@)]
    /\ UNCHANGED <<guest, handler, lock, buffer, log_subscribers, machine,
                   reader, client, rpc_rx, snap, from, got, lagged>>

\* The channel is closed and empty, or the client is gone.
forward_ends(r) ==
    /\ reader[r] = "forward"
    /\ \/ logs[r] = <<>> /\ log_rx[r] = <<>> /\ r \notin log_subscribers
       \/ logs[r] # <<>> /\ client[r] = "gone"
    /\ reader' = [reader EXCEPT ![r] = "ended"]
    /\ UNCHANGED <<guest, handler, lock, buffer, log_subscribers, machine,
                   client, log_rx, logs, rpc_rx, snap, from, got, lagged>>

client_receives(r) ==
    /\ client[r] = "there" /\ rpc_rx[r] # <<>>
    /\ got' = [got EXCEPT ![r] = Append(@, Head(rpc_rx[r]))]
    /\ rpc_rx' = [rpc_rx EXCEPT ![r] = Tail(@)]
    /\ UNCHANGED <<guest, handler, lock, buffer, log_subscribers, machine,
                   reader, client, log_rx, logs, snap, from, lagged>>

\* The client goes away: a call that still waits for the mutex is cancelled.
client_leaves(r) ==
    /\ client[r] = "there" /\ reader[r] \in {"asked", "locked", "forward"}
    /\ client' = [client EXCEPT ![r] = "gone"]
    /\ reader' = [reader EXCEPT ![r] = IF @ = "asked" THEN "ended" ELSE @]
    /\ UNCHANGED <<guest, handler, lock, buffer, log_subscribers, machine,
                   log_rx, logs, rpc_rx, snap, from, got, lagged>>

-----------------------------------------------------------------------------
(* The end of the machine *)

\* Machine::shutdown begins: it has the map's write lock, so no reader is
\* inside.  Without a timeout the VM is killed at once.
shutdown(graceful) ==
    /\ machine = "mapped"
    /\ \A r \in Reader : reader[r] \notin {"asked", "locked"}
    /\ \/ graceful /\ lock = None /\ lock' = "shutdown" /\ machine' = "asking"
       \/ ~graceful /\ machine' = "joining" /\ UNCHANGED lock
    /\ UNCHANGED <<guest, handler, buffer, log_subscribers, streams, lagged>>

\* send_shutdown has written the packet, or failed to.
shutdown_sent ==
    /\ machine = "asking"
    /\ lock' = None
    /\ machine' = "joining"
    /\ UNCHANGED <<guest, handler, buffer, log_subscribers, streams, lagged>>

\* Faulty variant: the communicator outlives the machine.
MachineKeepsComm ==
    /\ machine = "joining"
    /\ machine' = "gone"
    /\ eof' = TRUE
    /\ UNCHANGED <<inbox, sent, handler, lock, buffer, log_subscribers, streams, lagged>>

\* The handler was joined or the timeout passed: the VM is killed and the
\* machine lets go of the communicator.
machine_dropped ==
    /\ machine = "joining"
    /\ machine' = "gone"
    /\ eof' = TRUE
    /\ log_subscribers' = IF handler = "done" THEN {} ELSE log_subscribers
    /\ UNCHANGED <<inbox, sent, handler, lock, buffer, streams, lagged>>

\* The deprovision or drain that took the machine off the map is cancelled, at
\* the latest while it asks or joins: its Machine is dropped unkilled, with the
\* guard of the mutex, and the VM runs on.
shutdown_cancelled ==
    /\ \/ machine = "mapped" /\ \A r \in Reader : reader[r] \notin {"asked", "locked"}
       \/ machine \in {"asking", "joining"}
    /\ machine' = "gone"
    /\ lock' = IF machine = "asking" THEN None ELSE lock
    /\ log_subscribers' = IF handler = "done" THEN {} ELSE log_subscribers
    /\ UNCHANGED <<guest, handler, buffer, streams, lagged>>

-----------------------------------------------------------------------------
Init ==
    /\ inbox = <<>> /\ sent = 0 /\ eof = FALSE
    /\ handler = "loop" /\ lock = None
    /\ log_buffer = <<>> /\ state = None /\ hist = <<>>
    /\ log_subscribers = {} /\ lagged = {}
    /\ machine = "mapped"
    /\ reader = [r \in Reader |-> "idle"]
    /\ client = [r \in Reader |-> "there"]
    /\ log_rx = [r \in Reader |-> <<>>]
    /\ logs = [r \in Reader |-> <<>>]
    /\ rpc_rx = [r \in Reader |-> <<>>]
    /\ snap = [r \in Reader |-> <<>>]
    /\ from = [r \in Reader |-> 0]
    /\ got = [r \in Reader |-> <<>>]

HandlerStep == handle_packet \/ read_error \/ handler_ends
ReaderStep(r) ==
    \/ lock_communicator(r) \/ get_and_subscribe_to_logs(r)
    \/ forward_send(r) \/ forward_recv(r) \/ forward_ends(r)
ShutdownStep == shutdown_sent \/ machine_dropped

\* The machine is gone and nobody is left to serve.
Terminated ==
    /\ machine = "gone" /\ handler = "done"
    /\ \A r \in Reader : reader[r] \in {"idle", "ended"}
    /\ UNCHANGED vars

Next ==
    \/ \E kind \in {"log", "state", "exited", "malformed"} : guest_sends(kind)
    \/ guest_closes
    \/ HandlerStep
    \/ \E r \in Reader : stream_logs(r)
    \/ \E r \in Reader : ReaderStep(r)
    \/ \E r \in Reader : client_receives(r)
    \/ \E r \in Reader : client_leaves(r)
    \/ \E graceful \in BOOLEAN : shutdown(graceful)
    \/ ShutdownStep
    \/ shutdown_cancelled
    \/ Terminated

\* The runtime polls the handler, the readers (the mutex is first come, first
\* served, hence SF) and the shutdown.  Nothing is assumed of guest and clients.
Fairness ==
    /\ SF_vars(HandlerStep)
    /\ \A r \in Reader : SF_vars(ReaderStep(r))
    /\ WF_vars(ShutdownStep)

Spec == Init /\ [][Next]_vars
FairSpec == Spec /\ Fairness

\* Clients that take what they are offered, or leave.
ClientFairness == \A r \in Reader : WF_vars(client_receives(r))

-----------------------------------------------------------------------------
(* Properties *)

\* Type invariant: no channel and no buffer outgrows its capacity, and readers
\* hold the mutex only while they copy.
TypeOK ==
    /\ inbox \in Seq(Packet) /\ sent \in 0 .. MaxPackets /\ eof \in BOOLEAN
    /\ handler \in {"loop", "ending", "done"}
    /\ lock \in Reader \cup {None, "shutdown"}
    /\ log_buffer \in Seq(Entry) /\ Len(log_buffer) <= MAX_LINES
    /\ state \in Entry \cup {None}
    /\ log_subscribers \subseteq Reader /\ lagged \subseteq Reader
    /\ machine \in {"mapped", "asking", "joining", "gone"}
    /\ reader \in [Reader -> {"idle", "asked", "locked", "forward", "ended"}]
    /\ client \in [Reader -> {"there", "gone"}]
    /\ \A r \in Reader :
          /\ log_rx[r] \in Seq(Entry) /\ Len(log_rx[r]) <= SubChan
          /\ rpc_rx[r] \in Seq(Entry) /\ Len(rpc_rx[r]) <= RpcChan
          /\ logs[r] \in Seq(Entry) /\ snap[r] \in Seq(Entry) /\ got[r] \in Seq(Entry)
          /\ (lock = r) <=> (reader[r] = "locked")

\* What a reader is owed: its copy, then everything pushed since.
Owed(r) == snap[r] \o SubSeq(hist, from[r] + 1, Len(hist))

\* What is on its way to the client of r, in order.
UnderWay(r) == got[r] \o rpc_rx[r] \o logs[r] \o log_rx[r]

\* The copy and the subscription join without a gap or a repetition: a client
\* sees a prefix of what it is owed, and as long as it is subscribed all of it
\* is on the way.  A full channel ends the stream, it never makes a hole in it.
NoGap ==
    \A r \in Reader :
        reader[r] \in {"forward", "ended"} =>
            /\ IsPrefix(UnderWay(r), Owed(r))
            /\ r \in log_subscribers /\ reader[r] = "forward" => UnderWay(r) = Owed(r)

\* A stream that ended by itself, to a client that kept up, was complete up to
\* the last entry the guest ever logged.
CompleteUnlessLagged ==
    \A r \in Reader :
        (reader[r] = "ended" /\ client[r] = "there" /\ r \notin lagged)
            => /\ got[r] \o rpc_rx[r] = Owed(r)
               /\ handler = "done"

\* What get_logs and stream_logs copy at any time holds the newest entries in
\* order, and the current state once even when later lines pushed it out.
SnapshotFaithful ==
    LET n == Len(hist)
        lines == SubSeq(hist, Max({1, n - MAX_LINES + 1}), n)
    IN  /\ IsPrefix(lines, clone_buffer_with_state)
        /\ Len(clone_buffer_with_state) <= Len(lines) + 1
        /\ state # None =>
              Cardinality({i \in DOMAIN clone_buffer_with_state :
                              clone_buffer_with_state[i] = state}) = 1

\* Clients that stop reading cannot stop the handler: whatever the guest sent
\* is read, or the handler has ended.
HandlerNeverStalls == (inbox # <<>> /\ handler = "loop") ~> (inbox = <<>> \/ handler # "loop")

\* Once the machine is gone and its VM stopped, or the handler left, every stream
\* whose client takes what it is offered comes to its end, also for readers that
\* subscribed after the handler had left or whose try_lock had failed.  (The
\* streams of a machine that was dropped unkilled go on with its VM.)
StreamsEnd ==
    ClientFairness =>
        \A r \in Reader :
            (machine = "gone" /\ (eof \/ handler = "done") /\ reader[r] = "forward")
                ~> (reader[r] = "ended")
=============================================================================
