-------------------------- MODULE MachineLog_proofs --------------------------
(***************************************************************************)
(* Proofs about MachineLog, for every set of readers, every capacity of    *)
(* the buffer and the channels and every number of packets.                *)
(***************************************************************************)
EXTENDS MachineLog, FiniteSetTheorems, SequenceTheorems, TLAPS

-----------------------------------------------------------------------------
(* The inductive invariant *)

\* The type invariant, the histories' types, and who holds the mutex for a
\* shutdown.
Typed ==
    /\ TypeOK
    /\ hist \in Seq(Entry)
    /\ log_rx \in [Reader -> Seq(Entry)] /\ rpc_rx \in [Reader -> Seq(Entry)]
    /\ logs \in [Reader -> Seq(Entry)] /\ got \in [Reader -> Seq(Entry)]
    /\ snap \in [Reader -> Seq(Entry)] /\ from \in [Reader -> Nat]
    /\ machine = "asking" => lock = "shutdown"

\* A reader that has not subscribed has nothing under way.
Fresh(r) ==
    /\ got[r] = <<>> /\ rpc_rx[r] = <<>> /\ logs[r] = <<>> /\ log_rx[r] = <<>>
    /\ r \notin log_subscribers

\* What a reader's stream is worth: all it is owed as long as it is subscribed,
\* and after that too unless it lagged, because only the end of the handler
\* takes such a reader off the list.
Stream(r) ==
    /\ from[r] <= Len(hist)
    /\ reader[r] \in {"idle", "asked", "locked"} => Fresh(r)
    /\ reader[r] \in {"forward", "ended"} => IsPrefix(UnderWay(r), Owed(r))
    /\ reader[r] = "forward" /\ r \in log_subscribers => UnderWay(r) = Owed(r)
    /\ reader[r] = "forward" /\ r \notin lagged =>
          UnderWay(r) = Owed(r) /\ (r \in log_subscribers \/ handler = "done")
    /\ reader[r] = "ended" /\ client[r] = "there" /\ r \notin lagged =>
          got[r] \o rpc_rx[r] = Owed(r) /\ handler = "done"

\* The buffer is the end of the history, newest first.
Recent ==
    /\ Len(log_buffer) = IF Len(hist) <= MAX_LINES THEN Len(hist) ELSE MAX_LINES
    /\ \A i \in 1 .. Len(log_buffer) : log_buffer[i] = hist[Len(hist) + 1 - i]

\* Packets are numbered in the order they were sent, so no entry occurs twice.
Numbered ==
    /\ \A i, j \in 1 .. Len(hist) : i < j => hist[i].id < hist[j].id
    /\ \A i, j \in 1 .. Len(inbox) : i < j => inbox[i].id < inbox[j].id
    /\ \A i \in 1 .. Len(hist), j \in 1 .. Len(inbox) : hist[i].id < inbox[j].id
    /\ \A i \in 1 .. Len(hist) : hist[i].id <= sent
    /\ \A i \in 1 .. Len(inbox) : inbox[i].id <= sent

\* The current state was logged.
StateLogged == state # None => \E i \in 1 .. Len(hist) : hist[i] = state

Streams == \A r \in Reader : Stream(r)
Log == Recent /\ Numbered /\ StateLogged

-----------------------------------------------------------------------------
(* Sequences *)

\* Moving the head of one channel to the end of the one before it.
LEMMA Moved ==
    ASSUME NEW S, NEW a \in Seq(S), NEW s \in Seq(S), s # <<>>
    PROVE  /\ Append(a, Head(s)) \in Seq(S) /\ Tail(s) \in Seq(S)
           /\ Append(a, Head(s)) \o Tail(s) = a \o s
<1>1. /\ Head(s) \in S /\ Tail(s) \in Seq(S) /\ Len(Tail(s)) = Len(s) - 1
      /\ \A i \in 1 .. Len(Tail(s)) : Tail(s)[i] = s[i + 1]
  BY HeadTailProperties
<1>2. /\ Append(a, Head(s)) \in Seq(S) /\ Len(Append(a, Head(s))) = Len(a) + 1
      /\ \A i \in 1 .. Len(a) : Append(a, Head(s))[i] = a[i]
      /\ Append(a, Head(s))[Len(a) + 1] = Head(s)
  BY <1>1, AppendProperties
<1>3. Len(a) \in Nat /\ Len(s) \in Nat \ {0} /\ Head(s) = s[1]
  BY EmptySeq, LenProperties
<1>4. /\ a \o s \in Seq(S) /\ Len(a \o s) = Len(a) + Len(s)
      /\ \A i \in 1 .. Len(a) + Len(s) : (a \o s)[i] = IF i <= Len(a) THEN a[i] ELSE s[i - Len(a)]
  BY ConcatProperties
<1> DEFINE A == Append(a, Head(s))
           T == Tail(s)
<1>5. A \in Seq(S) /\ T \in Seq(S) /\ Len(A) = Len(a) + 1 /\ Len(T) = Len(s) - 1
  BY <1>1, <1>2
<1>6. /\ \A i \in 1 .. Len(T) : T[i] = s[i + 1]
      /\ \A i \in 1 .. Len(a) : A[i] = a[i]
      /\ A[Len(a) + 1] = s[1]
  BY <1>1, <1>2, <1>3
<1> HIDE DEF A, T
<1>7. /\ A \o T \in Seq(S) /\ Len(A \o T) = Len(A) + Len(T)
      /\ \A i \in 1 .. Len(A) + Len(T) : (A \o T)[i] = IF i <= Len(A) THEN A[i] ELSE T[i - Len(A)]
  BY <1>5, ConcatProperties
<1>8. Len(A \o T) = Len(a \o s)
  BY <1>3, <1>4, <1>5, <1>7
<1>9. ASSUME NEW i \in 1 .. Len(A \o T) PROVE (A \o T)[i] = (a \o s)[i]
  <2>1. CASE i <= Len(a)
    BY <2>1, <1>3, <1>4, <1>5, <1>6, <1>7
  <2>2. CASE i = Len(a) + 1
    BY <2>2, <1>3, <1>4, <1>5, <1>6, <1>7
  <2>3. CASE i > Len(a) + 1
    <3>1. (i - Len(A)) \in 1 .. Len(T) /\ (i - Len(A)) + 1 = i - Len(a)
      BY <2>3, <1>3, <1>5, <1>7
    <3>2. (A \o T)[i] = T[i - Len(A)]
      BY <2>3, <1>3, <1>5, <1>7
    <3>3. T[i - Len(A)] = s[(i - Len(A)) + 1]
      BY <3>1, <1>6
    <3> QED
      BY <2>3, <3>1, <3>2, <3>3, <1>3, <1>4, <1>5, <1>7
  <2> QED
    BY <2>1, <2>2, <2>3, <1>3, <1>5, <1>7
<1>10. A \o T = a \o s
  BY <1>4, <1>7, <1>8, <1>9, SeqEqual
<1> QED
  BY <1>5, <1>10 DEF A, T

\* The last of two sequences may be extended before or after they are joined.
LEMMA ConcatAppend ==
    ASSUME NEW S, NEW a \in Seq(S), NEW b \in Seq(S), NEW e \in S
    PROVE  a \o Append(b, e) = Append(a \o b, e)
<1>1. <<e>> \in Seq(S) /\ a \o b \in Seq(S)
  BY ConcatProperties
<1>2. Append(b, e) = b \o <<e>> /\ Append(a \o b, e) = (a \o b) \o <<e>>
  BY <1>1, AppendIsConcat
<1> QED
  BY <1>1, <1>2, ConcatAssociative

\* A sequence is a prefix of itself, and of whatever extends its extension.
LEMMA PrefixFacts ==
    ASSUME NEW S, NEW s \in Seq(S), NEW t \in Seq(S), NEW e \in S
    PROVE  IsPrefix(s, s) /\ (IsPrefix(s, t) => IsPrefix(s, Append(t, e)))
<1>1. IsPrefix(s, s)
  BY LenProperties DEF IsPrefix
<1>2. ASSUME IsPrefix(s, t) PROVE IsPrefix(s, Append(t, e))
  <2>1. Len(s) \in Nat /\ Len(t) \in Nat /\ Len(s) <= Len(t)
    BY <1>2, LenProperties DEF IsPrefix
  <2>2. Append(t, e) \in Seq(S) /\ Len(Append(t, e)) = Len(t) + 1
        /\ \A i \in 1 .. Len(t) : Append(t, e)[i] = t[i]
    BY AppendProperties
  <2>3. \A i \in 1 .. Len(s) : t[i] \in S /\ Append(t, e)[i] \in S
    BY <2>1, <2>2, ElementOfSeq
  <2>4. /\ SubSeq(t, 1, Len(s)) \in Seq(S) /\ Len(SubSeq(t, 1, Len(s))) = Len(s)
        /\ \A i \in 1 .. Len(s) : SubSeq(t, 1, Len(s))[i] = t[i]
    BY <2>1, <2>3, SubSeqProperties
  <2>5. /\ SubSeq(Append(t, e), 1, Len(s)) \in Seq(S)
        /\ Len(SubSeq(Append(t, e), 1, Len(s))) = Len(s)
        /\ \A i \in 1 .. Len(s) : SubSeq(Append(t, e), 1, Len(s))[i] = Append(t, e)[i]
    BY <2>1, <2>3, SubSeqProperties
  <2>6. SubSeq(Append(t, e), 1, Len(s)) = SubSeq(t, 1, Len(s))
    BY <2>1, <2>2, <2>4, <2>5, SeqEqual
  <2> QED
    BY <1>2, <2>1, <2>2, <2>6 DEF IsPrefix
<1> QED
  BY <1>1, <1>2


-----------------------------------------------------------------------------
(* Types *)

\* A buffer that takes an entry keeps its capacity.
LEMMA PushFront ==
    ASSUME NEW b \in Seq(Entry), Len(b) <= MAX_LINES, NEW e \in Entry
    PROVE  /\ push_front(b, e) \in Seq(Entry) /\ Len(push_front(b, e)) <= MAX_LINES
           /\ Len(push_front(b, e)) = IF Len(b) < MAX_LINES THEN Len(b) + 1 ELSE MAX_LINES
           /\ push_front(b, e)[1] = e
           /\ \A i \in 2 .. Len(push_front(b, e)) : push_front(b, e)[i] = b[i - 1]
<1> DEFINE c == IF Len(b) < MAX_LINES THEN b ELSE Front(b)
<1>1. Len(b) \in Nat /\ MAX_LINES \in Nat \ {0} /\ <<e>> \in Seq(Entry) /\ Len(<<e>>) = 1
  BY CapacityAssumption, LenProperties
<1>2. /\ c \in Seq(Entry) /\ Len(c) = IF Len(b) < MAX_LINES THEN Len(b) ELSE MAX_LINES - 1
      /\ \A i \in 1 .. Len(c) : c[i] = b[i]
  <2>1. CASE Len(b) < MAX_LINES
    BY <2>1
  <2>2. CASE Len(b) = MAX_LINES
    <3>1. \A i \in 1 .. Len(b) - 1 : b[i] \in Entry
      BY <1>1, ElementOfSeq
    <3>2. Len(b) - 1 \in Int /\ 1 \in Int
      BY <1>1
    <3>3. /\ SubSeq(b, 1, Len(b) - 1) \in Seq(Entry)
          /\ Len(SubSeq(b, 1, Len(b) - 1)) =
                IF 1 <= Len(b) - 1 THEN (Len(b) - 1) - 1 + 1 ELSE 0
          /\ \A i \in 1 .. (Len(b) - 1) - 1 + 1 : SubSeq(b, 1, Len(b) - 1)[i] = b[1 + i - 1]
      BY <3>1, <3>2, SubSeqProperties
    <3>4. c = SubSeq(b, 1, Len(b) - 1)
      BY <2>2, <1>1 DEF Front
    <3>5. c \in Seq(Entry) /\ Len(c) = MAX_LINES - 1
      BY <2>2, <1>1, <3>3, <3>4
    <3>6. \A i \in 1 .. Len(b) - 1 : c[i] = b[i]
      BY <1>1, <3>3, <3>4
    <3> HIDE DEF c
    <3> QED
      BY <2>2, <3>5, <3>6, <1>1
  <2> QED
    BY <2>1, <2>2, <1>1
<1>3. push_front(b, e) = <<e>> \o c
  BY DEF push_front
<1> HIDE DEF c
<1>4. /\ <<e>> \o c \in Seq(Entry) /\ Len(<<e>> \o c) = 1 + Len(c)
      /\ \A i \in 1 .. 1 + Len(c) : (<<e>> \o c)[i] = IF i <= 1 THEN <<e>>[i] ELSE c[i - 1]
  BY <1>1, <1>2, ConcatProperties
<1>5. Len(push_front(b, e)) = IF Len(b) < MAX_LINES THEN Len(b) + 1 ELSE MAX_LINES
  BY <1>1, <1>2, <1>3, <1>4
<1>6. push_front(b, e)[1] = e
  BY <1>1, <1>2, <1>3, <1>4
<1>7. ASSUME NEW i \in 2 .. Len(push_front(b, e)) PROVE push_front(b, e)[i] = b[i - 1]
  BY <1>1, <1>2, <1>3, <1>4
<1> QED
  BY <1>1, <1>3, <1>4, <1>5, <1>6, <1>7

\* A copy of the buffer is a sequence of entries.
LEMMA CloneType ==
    ASSUME Typed
    PROVE  clone_buffer_with_state \in Seq(Entry)
<1>1. log_buffer \in Seq(Entry) /\ state \in Entry \cup {None}
  BY DEF Typed, TypeOK
<1>2. Reverse(log_buffer) \in Seq(Entry)
  <2>1. Len(log_buffer) \in Nat
    BY <1>1, LenProperties
  <2>2. \A i \in 1 .. Len(log_buffer) : log_buffer[(Len(log_buffer) - i) + 1] \in Entry
    BY <1>1, <2>1, ElementOfSeq
  <2> QED
    BY <2>1, <2>2, IsASeq DEF Reverse
<1>3. (IF state # None /\ state \notin ToSet(log_buffer) THEN <<state>> ELSE <<>>) \in Seq(Entry)
  BY <1>1
<1> QED
  BY <1>2, <1>3, ConcatProperties DEF clone_buffer_with_state

\* What the handler takes from the stream.
LEMMA HeadPacket ==
    ASSUME Typed, inbox # <<>>
    PROVE  /\ Head(inbox) \in Packet /\ Tail(inbox) \in Seq(Packet)
           /\ Head(inbox).kind \in {"log", "state"} => Head(inbox) \in Entry
<1>1. inbox \in Seq(Packet)
  BY DEF Typed, TypeOK
<1>2. Head(inbox) \in Packet /\ Tail(inbox) \in Seq(Packet)
  BY <1>1, HeadTailProperties
<1>3. \A p \in Packet : p.kind \in {"log", "state"} => p \in Entry
  BY DEF Packet, Entry
<1> QED
  BY <1>2, <1>3


\* push_log keeps the types.
LEMMA PushLogTyped ==
    ASSUME Typed, NEW e \in Entry, push_log(e)
    PROVE  /\ log_buffer' \in Seq(Entry) /\ Len(log_buffer') <= MAX_LINES
           /\ hist' \in Seq(Entry) /\ log_rx' \in [Reader -> Seq(Entry)]
           /\ \A r \in Reader : Len(log_rx'[r]) <= SubChan
           /\ log_subscribers' \subseteq Reader /\ lagged' \subseteq Reader
<1>1. /\ log_buffer \in Seq(Entry) /\ Len(log_buffer) <= MAX_LINES /\ hist \in Seq(Entry)
      /\ log_rx \in [Reader -> Seq(Entry)] /\ \A r \in Reader : Len(log_rx[r]) <= SubChan
      /\ log_subscribers \subseteq Reader /\ lagged \subseteq Reader
  BY DEF Typed, TypeOK
<1>2. log_buffer' \in Seq(Entry) /\ Len(log_buffer') <= MAX_LINES
  BY <1>1, PushFront DEF push_log
<1>3. hist' \in Seq(Entry)
  BY <1>1, AppendProperties DEF push_log
<1>4. ASSUME NEW r \in Reader
      PROVE  log_rx'[r] \in Seq(Entry) /\ Len(log_rx'[r]) <= SubChan
  <2>1. CASE r \in log_subscribers /\ ~Refuses(r)
    <3>1. log_rx'[r] = Append(log_rx[r], e)
      BY <2>1 DEF push_log
    <3>2. Len(log_rx[r]) < SubChan /\ log_rx[r] \in Seq(Entry) /\ Len(log_rx[r]) \in Nat
      BY <1>1, <2>1, CapacityAssumption, LenProperties DEF Refuses, Full
    <3> QED
      BY <3>1, <3>2, AppendProperties, CapacityAssumption
  <2>2. CASE ~(r \in log_subscribers /\ ~Refuses(r))
    BY <1>1, <2>2 DEF push_log
  <2> QED
    BY <2>1, <2>2
<1>5. log_rx' \in [Reader -> Seq(Entry)]
  BY <1>4 DEF push_log
<1>6. log_subscribers' \subseteq Reader /\ lagged' \subseteq Reader
  BY <1>1 DEF push_log
<1> QED
  BY <1>2, <1>3, <1>4, <1>5, <1>6

\* The handler keeps the types.
LEMMA HandlerTyped ==
    ASSUME Typed, HandlerStep
    PROVE  Typed'
<1>1. CASE handle_packet
  <2>1. /\ inbox # <<>> /\ inbox' = Tail(inbox)
        /\ UNCHANGED <<sent, eof, lock, machine, reader, client, logs, rpc_rx, snap, from, got>>
    BY <1>1 DEF handle_packet
  <2>2. inbox' \in Seq(Packet)
    BY <2>1, HeadPacket
  <2>3. CASE Head(inbox).kind \in {"log", "state"}
    <3>1. Head(inbox) \in Entry
      BY <2>1, <2>3, HeadPacket
    <3>2. push_log(Head(inbox)) /\ state' \in {state, Head(inbox)} /\ handler' = handler
      BY <1>1, <2>3 DEF handle_packet
    <3>3. /\ log_buffer' \in Seq(Entry) /\ Len(log_buffer') <= MAX_LINES
          /\ hist' \in Seq(Entry) /\ log_rx' \in [Reader -> Seq(Entry)]
          /\ \A r \in Reader : Len(log_rx'[r]) <= SubChan
          /\ log_subscribers' \subseteq Reader /\ lagged' \subseteq Reader
      BY <3>1, <3>2, PushLogTyped
    <3> QED
      BY <2>1, <2>2, <3>1, <3>2, <3>3 DEF Typed, TypeOK
  <2>4. CASE Head(inbox).kind \notin {"log", "state"}
    <3>1. /\ state' = None /\ handler' = "ending"
          /\ UNCHANGED <<log_buffer, hist, log_rx, log_subscribers, lagged>>
      BY <1>1, <2>4 DEF handle_packet
    <3> QED
      BY <2>1, <2>2, <3>1 DEF Typed, TypeOK
  <2> QED
    BY <2>3, <2>4
<1>2. CASE read_error
  <2>1. inbox' \in Seq(Packet)
    BY <1>2, HeadPacket DEF read_error, Typed, TypeOK
  <2> QED
    BY <1>2, <2>1 DEF read_error, buffer, streams, Typed, TypeOK
<1>3. CASE handler_ends
  BY <1>3 DEF handler_ends, guest, buffer, streams, Typed, TypeOK
<1> QED
  BY <1>1, <1>2, <1>3 DEF HandlerStep

\* So do the guest and the end of the machine.
LEMMA OutsideTyped ==
    ASSUME Typed,
           \/ \E kind \in {"log", "state", "exited", "malformed"} : guest_sends(kind)
           \/ guest_closes
           \/ \E graceful \in BOOLEAN : shutdown(graceful)
           \/ ShutdownStep \/ shutdown_cancelled \/ UNCHANGED vars
    PROVE  Typed'
<1>1. ASSUME NEW kind \in {"log", "state", "exited", "malformed"}, guest_sends(kind)
      PROVE  Typed'
  <2>1. sent' \in 0 .. MaxPackets /\ sent' \in 1 .. MaxPackets
    BY <1>1, CapacityAssumption DEF guest_sends, Typed, TypeOK
  <2>2. [kind |-> kind, id |-> sent'] \in Packet
    BY <2>1 DEF Packet
  <2>3. inbox' \in Seq(Packet)
    BY <1>1, <2>2, AppendProperties DEF guest_sends, Typed, TypeOK
  <2> QED
    BY <1>1, <2>1, <2>3 DEF guest_sends, buffer, streams, Typed, TypeOK
<1>2. CASE guest_closes
  BY <1>2 DEF guest_closes, buffer, streams, Typed, TypeOK
<1>3. ASSUME NEW graceful \in BOOLEAN, shutdown(graceful) PROVE Typed'
  <2>1. /\ machine' \in {"asking", "joining"} /\ lock' \in {lock, "shutdown"}
        /\ machine' = "asking" => lock' = "shutdown"
        /\ \A r \in Reader : reader[r] # "locked"
        /\ UNCHANGED <<guest, handler, buffer, log_subscribers, streams, lagged>>
    BY <1>3 DEF shutdown
  <2>2. \A r \in Reader : lock' # r
    BY <2>1, NoneAssumption DEF Typed, TypeOK
  <2> QED
    BY <2>1, <2>2 DEF guest, buffer, streams, Typed, TypeOK
<1>4. CASE shutdown_sent
  <2>1. \A r \in Reader : lock # r /\ None # r
    BY <1>4, NoneAssumption DEF shutdown_sent, Typed
  <2> QED
    BY <1>4, <2>1 DEF shutdown_sent, guest, buffer, streams, Typed, TypeOK
<1>5. CASE machine_dropped
  BY <1>5 DEF machine_dropped, buffer, streams, Typed, TypeOK
<1>6. CASE shutdown_cancelled
  <2>1. /\ machine' = "gone" /\ log_subscribers' \subseteq log_subscribers
        /\ UNCHANGED <<guest, handler, buffer, streams, lagged>>
        /\ lock' = IF machine = "asking" THEN None ELSE lock
    BY <1>6 DEF shutdown_cancelled
  <2>2. lock' \in Reader \cup {None, "shutdown"} /\ \A r \in Reader : (lock' = r) <=> (lock = r)
    BY <2>1, NoneAssumption DEF Typed, TypeOK
  <2> QED
    BY <2>1, <2>2 DEF guest, buffer, streams, Typed, TypeOK
<1>7. CASE UNCHANGED vars
  BY <1>7 DEF vars, guest, buffer, streams, Typed, TypeOK
<1> QED
  BY <1>1, <1>2, <1>3, <1>4, <1>5, <1>6, <1>7 DEF ShutdownStep

\* So do a reader and its client.
LEMMA ReaderTyped ==
    ASSUME Typed, NEW r \in Reader,
           stream_logs(r) \/ ReaderStep(r) \/ client_receives(r) \/ client_leaves(r)
    PROVE  Typed'
<1> USE DEF guest, buffer
<1>1. CASE stream_logs(r) \/ forward_ends(r) \/ client_leaves(r)
  <2>1. /\ UNCHANGED <<guest, handler, lock, buffer, log_subscribers, machine,
                       log_rx, logs, rpc_rx, snap, from, got, lagged>>
        /\ client' \in [Reader -> {"there", "gone"}]
        /\ reader' \in [Reader -> {"idle", "asked", "locked", "forward", "ended"}]
        /\ \A q \in Reader : reader'[q] = "locked" <=> reader[q] = "locked"
    BY <1>1 DEF stream_logs, forward_ends, client_leaves, Typed, TypeOK
  <2> QED
    BY <2>1 DEF Typed, TypeOK
<1>2. CASE lock_communicator(r)
  BY <1>2, NoneAssumption DEF lock_communicator, Typed, TypeOK
<1>3. CASE get_and_subscribe_to_logs(r)
  <2>1. clone_buffer_with_state \in Seq(Entry)
    BY CloneType
  <2>2. Len(hist) \in Nat
    BY LenProperties DEF Typed
  <2>3. /\ logs' \in [Reader -> Seq(Entry)] /\ snap' \in [Reader -> Seq(Entry)]
        /\ from' \in [Reader -> Nat] /\ log_subscribers' \subseteq Reader
    BY <1>3, <2>1, <2>2 DEF get_and_subscribe_to_logs, Typed, TypeOK
  <2>4. /\ lock = r /\ lock' = None /\ machine # "asking"
        /\ reader' = [reader EXCEPT ![r] = "forward"]
        /\ UNCHANGED <<guest, handler, buffer, machine, client, log_rx, rpc_rx, got, lagged>>
    BY <1>3, NoneAssumption DEF get_and_subscribe_to_logs, Typed, TypeOK
  <2>5. \A q \in Reader : (lock' = q) <=> (reader'[q] = "locked")
    BY <2>4, NoneAssumption DEF Typed, TypeOK
  <2> QED
    BY <2>3, <2>4, <2>5 DEF Typed, TypeOK
<1>4. CASE forward_send(r)
  <2>1. /\ Append(rpc_rx[r], Head(logs[r])) \in Seq(Entry) /\ Tail(logs[r]) \in Seq(Entry)
        /\ Len(Append(rpc_rx[r], Head(logs[r]))) <= RpcChan
    BY <1>4, HeadTailProperties, AppendProperties, LenProperties, CapacityAssumption
       DEF forward_send, Typed
  <2> QED
    BY <1>4, <2>1 DEF forward_send, Typed, TypeOK
<1>5. CASE forward_recv(r)
  <2>1. /\ <<Head(log_rx[r])>> \in Seq(Entry) /\ Tail(log_rx[r]) \in Seq(Entry)
        /\ Len(Tail(log_rx[r])) <= SubChan
    BY <1>5, HeadTailProperties, LenProperties, CapacityAssumption
       DEF forward_recv, Typed, TypeOK
  <2> QED
    BY <1>5, <2>1 DEF forward_recv, Typed, TypeOK
<1>6. CASE client_receives(r)
  <2>1. /\ Append(got[r], Head(rpc_rx[r])) \in Seq(Entry) /\ Tail(rpc_rx[r]) \in Seq(Entry)
        /\ Len(Tail(rpc_rx[r])) <= RpcChan
    BY <1>6, HeadTailProperties, AppendProperties, LenProperties, CapacityAssumption
       DEF client_receives, Typed, TypeOK
  <2> QED
    BY <1>6, <2>1 DEF client_receives, Typed, TypeOK
<1> QED
  BY <1>1, <1>2, <1>3, <1>4, <1>5, <1>6 DEF ReaderStep

-----------------------------------------------------------------------------
(* Streams *)

\* What is owed and what is under way are sequences of entries.
LEMMA StreamTypes ==
    ASSUME Typed, NEW r \in Reader, from[r] <= Len(hist)
    PROVE  /\ got[r] \in Seq(Entry) /\ rpc_rx[r] \in Seq(Entry) /\ logs[r] \in Seq(Entry)
           /\ log_rx[r] \in Seq(Entry) /\ snap[r] \in Seq(Entry)
           /\ got[r] \o rpc_rx[r] \in Seq(Entry)
           /\ (got[r] \o rpc_rx[r]) \o logs[r] \in Seq(Entry)
           /\ UnderWay(r) \in Seq(Entry) /\ Owed(r) \in Seq(Entry)
<1>1. /\ got[r] \in Seq(Entry) /\ rpc_rx[r] \in Seq(Entry) /\ logs[r] \in Seq(Entry)
      /\ log_rx[r] \in Seq(Entry) /\ snap[r] \in Seq(Entry) /\ hist \in Seq(Entry)
      /\ from[r] \in Nat
  BY DEF Typed
<1>2. got[r] \o rpc_rx[r] \in Seq(Entry)
  BY <1>1, ConcatProperties
<1>3. (got[r] \o rpc_rx[r]) \o logs[r] \in Seq(Entry)
  BY <1>1, <1>2, ConcatProperties
<1>4. UnderWay(r) \in Seq(Entry)
  BY <1>1, <1>3, ConcatProperties DEF UnderWay
<1>5. Len(hist) \in Nat /\ \A i \in from[r] + 1 .. Len(hist) : hist[i] \in Entry
  BY <1>1, LenProperties, ElementOfSeq
<1>6. SubSeq(hist, from[r] + 1, Len(hist)) \in Seq(Entry)
  BY <1>1, <1>5, SubSeqProperties
<1>7. Owed(r) \in Seq(Entry)
  BY <1>1, <1>6, ConcatProperties DEF Owed
<1> QED
  BY <1>1, <1>2, <1>3, <1>4, <1>7

\* An entry that is pushed is owed to every reader that has its copy.
LEMMA OwedGrows ==
    ASSUME Typed, NEW r \in Reader, from[r] <= Len(hist), NEW e \in Entry,
           hist' = Append(hist, e), from' = from, snap' = snap
    PROVE  Owed(r)' = Append(Owed(r), e) /\ from'[r] <= Len(hist')
<1>1. /\ hist \in Seq(Entry) /\ from[r] \in Nat /\ snap[r] \in Seq(Entry)
      /\ Len(hist) \in Nat
  BY LenProperties DEF Typed
<1> DEFINE h == Append(hist, e)
           n == Len(hist) + 1
           k == from[r] + 1
<1>2. /\ h \in Seq(Entry) /\ Len(h) = n /\ h[n] = e
      /\ \A i \in 1 .. Len(hist) : h[i] = hist[i]
  BY <1>1, AppendProperties
<1> HIDE DEF h
<1>3. /\ k \in 1 .. Len(h) + 1 /\ n - 1 \in k - 1 .. Len(h) /\ n \in n - 1 .. Len(h)
      /\ n \in 1 .. Len(h)
  BY <1>1, <1>2
<1>4. SubSeq(h, k, n) = SubSeq(h, k, n - 1) \o <<e>>
  <2>1. k \in 1 .. Len(h) /\ n \in k .. Len(h)
    BY <1>1, <1>2
  <2> QED
    BY <1>2, <2>1, SubSeqRecursiveSecond
<1>5. SubSeq(h, k, n - 1) = SubSeq(hist, k, Len(hist))
  <2>1. \A i \in k .. Len(hist) : hist[i] \in Entry /\ h[i] \in Entry /\ h[i] = hist[i]
    BY <1>1, <1>2, ElementOfSeq
  <2>2. /\ SubSeq(hist, k, Len(hist)) \in Seq(Entry)
        /\ Len(SubSeq(hist, k, Len(hist))) = IF k <= Len(hist) THEN Len(hist) - k + 1 ELSE 0
        /\ \A i \in 1 .. Len(hist) - k + 1 : SubSeq(hist, k, Len(hist))[i] = hist[k + i - 1]
    BY <1>1, <2>1, SubSeqProperties
  <2>3. /\ SubSeq(h, k, Len(hist)) \in Seq(Entry)
        /\ Len(SubSeq(h, k, Len(hist))) = IF k <= Len(hist) THEN Len(hist) - k + 1 ELSE 0
        /\ \A i \in 1 .. Len(hist) - k + 1 : SubSeq(h, k, Len(hist))[i] = h[k + i - 1]
    BY <1>1, <2>1, SubSeqProperties
  <2>4. \A i \in 1 .. Len(SubSeq(h, k, Len(hist))) :
           SubSeq(h, k, Len(hist))[i] = SubSeq(hist, k, Len(hist))[i]
    <3> SUFFICES ASSUME NEW i \in 1 .. Len(SubSeq(h, k, Len(hist)))
                 PROVE  SubSeq(h, k, Len(hist))[i] = SubSeq(hist, k, Len(hist))[i]
      OBVIOUS
    <3>1. i \in 1 .. Len(hist) - k + 1 /\ k + i - 1 \in k .. Len(hist)
      <4>1. PICK l : l = Len(SubSeq(h, k, Len(hist)))
        OBVIOUS
      <4>2. /\ l = IF k <= Len(hist) THEN Len(hist) - k + 1 ELSE 0
            /\ i \in 1 .. l /\ k \in Nat /\ Len(hist) \in Nat
        BY <1>1, <2>3, <4>1
      <4>3. k <= Len(hist) /\ l = Len(hist) - k + 1
        BY <4>2
      <4> QED
        BY <4>2, <4>3
    <3>2. h[k + i - 1] = hist[k + i - 1]
      BY <3>1, <2>1
    <3>3. SubSeq(h, k, Len(hist))[i] = h[k + i - 1]
      BY <3>1, <2>3
    <3>4. SubSeq(hist, k, Len(hist))[i] = hist[k + i - 1]
      BY <3>1, <2>2
    <3> QED
      BY <3>2, <3>3, <3>4
  <2>5. SubSeq(h, k, Len(hist)) = SubSeq(hist, k, Len(hist))
    BY <2>2, <2>3, <2>4, SeqEqual
  <2> QED
    BY <1>1, <2>5
<1>6. SubSeq(hist, k, Len(hist)) \in Seq(Entry)
  <2>1. \A i \in k .. Len(hist) : hist[i] \in Entry
    BY <1>1, ElementOfSeq
  <2> QED
    BY <1>1, <2>1, SubSeqProperties
<1>7. SubSeq(h, k, n) = Append(SubSeq(hist, k, Len(hist)), e)
  BY <1>4, <1>5, <1>6, AppendIsConcat
<1>8. snap[r] \o SubSeq(h, k, n) = Append(snap[r] \o SubSeq(hist, k, Len(hist)), e)
  <2>1. snap[r] \o Append(SubSeq(hist, k, Len(hist)), e)
           = Append(snap[r] \o SubSeq(hist, k, Len(hist)), e)
    <3>1. \A a, b \in Seq(Entry) : a \o Append(b, e) = Append(a \o b, e)
      BY ConcatAppend
    <3>2. PICK u \in Seq(Entry) : u = SubSeq(hist, k, Len(hist))
      BY <1>6
    <3>3. PICK a \in Seq(Entry) : a = snap[r]
      BY <1>1
    <3>4. a \o Append(u, e) = Append(a \o u, e)
      BY <3>1
    <3> QED
      BY <3>2, <3>3, <3>4, Zenon
  <2> QED
    BY <1>7, <2>1, Zenon
<1>9. hist' = h
  BY DEF h
<1>10. Owed(r)' = snap[r] \o SubSeq(h, k, n)
  BY <1>2, <1>9, Zenon DEF Owed
<1>11. Owed(r) = snap[r] \o SubSeq(hist, k, Len(hist))
  BY DEF Owed
<1>12. Owed(r)' = Append(Owed(r), e)
  BY <1>8, <1>10, <1>11, Zenon
<1>13. from'[r] <= Len(hist')
  BY <1>1, <1>2, <1>9
<1> QED
  BY <1>12, <1>13

\* A stream that a step does not touch keeps its worth, whatever happens to the
\* list of subscribers at the end of the handler.
LEMMA StreamStill ==
    ASSUME NEW r \in Reader, Stream(r), hist' = hist, from'[r] = from[r], snap'[r] = snap[r],
           got'[r] = got[r], rpc_rx'[r] = rpc_rx[r], logs'[r] = logs[r], log_rx'[r] = log_rx[r],
           reader'[r] = reader[r],
           client'[r] = client[r] \/ (client'[r] = "gone" /\ reader[r] # "ended"),
           r \in log_subscribers' => r \in log_subscribers,
           r \in log_subscribers => r \in log_subscribers' \/ handler' = "done",
           handler = "done" => handler' = "done", lagged' = lagged
    PROVE  Stream(r)'
<1>1. UnderWay(r)' = UnderWay(r) /\ Owed(r)' = Owed(r)
  BY DEF UnderWay, Owed
<1> QED
  BY <1>1 DEF Stream, Fresh

\* What push_log does to a stream: the entry is put under way as it becomes
\* owed, or the reader has lagged or left.
LEMMA StreamPushed ==
    ASSUME Typed, NEW r \in Reader, Stream(r), NEW e \in Entry, push_log(e), handler = "loop",
           handler' = handler, UNCHANGED <<reader, client, logs, rpc_rx, snap, from, got>>
    PROVE  Stream(r)'
<1>0. from[r] <= Len(hist)
  BY DEF Stream
<1>1. Owed(r)' = Append(Owed(r), e) /\ from'[r] <= Len(hist')
  BY <1>0, OwedGrows DEF push_log
<1>2. UnderWay(r) \in Seq(Entry) /\ Owed(r) \in Seq(Entry)
      /\ (got[r] \o rpc_rx[r]) \o logs[r] \in Seq(Entry) /\ log_rx[r] \in Seq(Entry)
  BY <1>0, StreamTypes
<1>3. CASE r \in log_subscribers /\ ~Refuses(r)
  <2>1. log_rx'[r] = Append(log_rx[r], e) /\ r \in log_subscribers' /\ reader[r] = "forward"
    BY <1>3 DEF push_log, Refuses, Stream, Fresh, Typed, TypeOK
  <2>2. UnderWay(r)' = Append(UnderWay(r), e)
    <3>1. ((got[r] \o rpc_rx[r]) \o logs[r]) \o Append(log_rx[r], e)
             = Append(((got[r] \o rpc_rx[r]) \o logs[r]) \o log_rx[r], e)
      <4>1. \A a, b \in Seq(Entry) : a \o Append(b, e) = Append(a \o b, e)
        BY ConcatAppend
      <4>2. PICK a \in Seq(Entry) : a = (got[r] \o rpc_rx[r]) \o logs[r]
        BY <1>2
      <4>3. a \o Append(log_rx[r], e) = Append(a \o log_rx[r], e)
        BY <1>2, <4>1
      <4> QED
        BY <4>2, <4>3, Zenon
    <3> QED
      BY <2>1, <3>1, Zenon DEF UnderWay
  <2>3. UnderWay(r)' = Owed(r)'
    BY <1>1, <2>1, <2>2, <1>3 DEF Stream
  <2>4. IsPrefix(UnderWay(r)', Owed(r)')
    <3>1. Owed(r)' \in Seq(Entry)
      BY <1>1, <1>2, AppendProperties
    <3> QED
      BY <2>3, <3>1, PrefixFacts
  <2> QED
    BY <1>1, <2>1, <2>3, <2>4 DEF Stream
<1>4. CASE ~(r \in log_subscribers /\ ~Refuses(r))
  <2>1. log_rx'[r] = log_rx[r] /\ r \notin log_subscribers'
    BY <1>4 DEF push_log
  <2>2. UnderWay(r)' = UnderWay(r)
    BY <2>1 DEF UnderWay
  <2>3. reader[r] \in {"forward", "ended"} => IsPrefix(UnderWay(r)', Owed(r)')
    BY <1>1, <1>2, <2>2, PrefixFacts DEF Stream
  <2>4. reader[r] = "forward" => r \in lagged'
    BY <1>4 DEF push_log, Refuses, Stream
  <2>5. ~(reader[r] = "ended" /\ client[r] = "there" /\ r \notin lagged)
    BY DEF Stream
  <2>6. lagged \subseteq lagged'
    BY DEF push_log
  <2> QED
    BY <1>1, <2>1, <2>2, <2>3, <2>4, <2>5, <2>6 DEF Stream, Fresh
<1> QED
  BY <1>3, <1>4

\* The handler keeps every stream.
LEMMA HandlerStreams ==
    ASSUME Typed, Streams, HandlerStep
    PROVE  Streams'
<1> SUFFICES ASSUME NEW r \in Reader PROVE Stream(r)'
  BY DEF Streams
<1>0. Stream(r)
  BY DEF Streams
<1>1. CASE handle_packet
  <2>1. /\ inbox # <<>> /\ handler = "loop"
        /\ UNCHANGED <<reader, client, logs, rpc_rx, snap, from, got>>
    BY <1>1 DEF handle_packet
  <2>2. CASE Head(inbox).kind \in {"log", "state"}
    <3>1. Head(inbox) \in Entry
      BY <2>1, <2>2, HeadPacket
    <3>2. push_log(Head(inbox)) /\ handler' = handler
      BY <1>1, <2>2 DEF handle_packet
    <3> QED
      BY <1>0, <2>1, <3>1, <3>2, StreamPushed
  <2>3. CASE Head(inbox).kind \notin {"log", "state"}
    <3>1. handler' = "ending" /\ UNCHANGED <<log_buffer, hist, log_rx, log_subscribers, lagged>>
      BY <1>1, <2>3 DEF handle_packet
    <3> QED
      BY <1>0, <2>1, <3>1, StreamStill
  <2> QED
    BY <2>2, <2>3
<1>2. CASE read_error
  BY <1>0, <1>2, StreamStill DEF read_error, buffer, streams
<1>3. CASE handler_ends
  BY <1>0, <1>3, StreamStill DEF handler_ends, buffer, streams
<1> QED
  BY <1>1, <1>2, <1>3 DEF HandlerStep

\* So do the guest and the end of the machine.
LEMMA OutsideStreams ==
    ASSUME Typed, Streams,
           \/ \E kind \in {"log", "state", "exited", "malformed"} : guest_sends(kind)
           \/ guest_closes
           \/ \E graceful \in BOOLEAN : shutdown(graceful)
           \/ ShutdownStep \/ shutdown_cancelled \/ UNCHANGED vars
    PROVE  Streams'
<1> SUFFICES ASSUME NEW r \in Reader PROVE Stream(r)'
  BY DEF Streams
<1>1. /\ UNCHANGED <<streams, hist, handler, lagged>> /\ log_subscribers' \subseteq log_subscribers
      /\ log_subscribers' = log_subscribers \/ handler = "done"
  BY DEF guest_sends, guest_closes, shutdown, ShutdownStep, shutdown_sent, machine_dropped,
         shutdown_cancelled, vars, buffer
<1>2. Stream(r)
  BY DEF Streams
<1> QED
  BY <1>1, <1>2, StreamStill DEF streams

\* A reader and its client do not touch the streams of the others.
LEMMA OtherStreams ==
    ASSUME Typed, Streams, NEW r \in Reader,
           stream_logs(r) \/ ReaderStep(r) \/ client_receives(r) \/ client_leaves(r),
           NEW q \in Reader \ {r}
    PROVE  Stream(q)'
<1>1. Stream(q)
  BY DEF Streams
<1>2. /\ hist' = hist /\ handler' = handler /\ lagged' = lagged
      /\ q \in log_subscribers' <=> q \in log_subscribers
  BY DEF stream_logs, ReaderStep, lock_communicator, get_and_subscribe_to_logs, forward_send,
         forward_recv, forward_ends, client_receives, client_leaves, buffer
<1>3. /\ from'[q] = from[q] /\ snap'[q] = snap[q] /\ got'[q] = got[q] /\ rpc_rx'[q] = rpc_rx[q]
      /\ logs'[q] = logs[q] /\ log_rx'[q] = log_rx[q] /\ reader'[q] = reader[q]
      /\ client'[q] = client[q]
  BY DEF stream_logs, ReaderStep, lock_communicator, get_and_subscribe_to_logs, forward_send,
         forward_recv, forward_ends, client_receives, client_leaves, Typed, TypeOK
<1> QED
  BY <1>1, <1>2, <1>3, StreamStill

\* The copy and the subscription are one step under the mutex: what is owed and
\* what is under way are both the copy.
LEMMA SubscribeStream ==
    ASSUME Typed, NEW r \in Reader, Stream(r), get_and_subscribe_to_logs(r)
    PROVE  Stream(r)'
<1> DEFINE c == clone_buffer_with_state
<1>1. c \in Seq(Entry)
  BY CloneType
<1> HIDE DEF c
<1>2. /\ logs'[r] = c /\ snap'[r] = c /\ from'[r] = Len(hist) /\ r \in log_subscribers'
      /\ reader'[r] = "forward" /\ hist' = hist
      /\ UNCHANGED <<client, log_rx, rpc_rx, got, lagged, handler>>
  BY DEF c, get_and_subscribe_to_logs, buffer, Typed, TypeOK
<1>3. Fresh(r)
  BY DEF Stream, get_and_subscribe_to_logs
<1>4. UnderWay(r)' = c
  <2>1. UnderWay(r)' = ((<<>> \o <<>>) \o c) \o <<>>
    BY <1>2, <1>3, Zenon DEF UnderWay, Fresh
  <2>2. <<>> \o <<>> = <<>> /\ <<>> \o c = c /\ c \o <<>> = c
    BY <1>1, ConcatEmptySeq
  <2> QED
    BY <2>1, <2>2, Zenon
<1>5. Len(hist) \in Nat
  BY LenProperties DEF Typed
<1>6. Owed(r)' = c
  <2>1. SubSeq(hist, Len(hist) + 1, Len(hist)) = <<>>
    BY <1>5, SubSeqEmpty
  <2>2. Owed(r)' = c \o SubSeq(hist, Len(hist) + 1, Len(hist))
    BY <1>2, Zenon DEF Owed
  <2>3. c \o <<>> = c
    BY <1>1, ConcatEmptySeq
  <2> QED
    BY <2>1, <2>2, <2>3, Zenon
<1>7. IsPrefix(UnderWay(r)', Owed(r)')
  BY <1>1, <1>4, <1>6 DEF IsPrefix
<1> QED
  BY <1>2, <1>4, <1>5, <1>6, <1>7 DEF Stream

\* Names for sequences of entries and their concatenation, which keep the
\* definitions from the provers where only the laws matter.
IsLog(s) == s \in Seq(Entry)
Cat(s, t) == s \o t

\* Concatenation of sequences of entries is associative.
LEMMA Associative ==
    ASSUME NEW a, NEW b, NEW c, IsLog(a), IsLog(b), IsLog(c)
    PROVE  Cat(Cat(a, b), c) = Cat(a, Cat(b, c))
BY ConcatAssociative DEF IsLog, Cat

\* An entry that moves on to the channel before.
LEMMA LogMoved ==
    ASSUME NEW a, NEW b, IsLog(a), IsLog(b), b # <<>>
    PROVE  /\ IsLog(Append(a, Head(b))) /\ IsLog(Tail(b))
           /\ Cat(Append(a, Head(b)), Tail(b)) = Cat(a, b)
BY Moved DEF IsLog, Cat

\* The same for the middle of a row of channels.
LEMMA RowMoved ==
    ASSUME NEW a, NEW b, NEW c, IsLog(a), IsLog(b), IsLog(c), c # <<>>
    PROVE  Cat(Cat(a, Append(b, Head(c))), Tail(c)) = Cat(Cat(a, b), c)
<1>1. PICK x : x = Append(b, Head(c))
  OBVIOUS
<1>2. PICK y : y = Tail(c)
  OBVIOUS
<1>3. IsLog(x) /\ IsLog(y) /\ Cat(x, y) = Cat(b, c)
  BY <1>1, <1>2, LogMoved
<1>4. Cat(Cat(a, x), y) = Cat(a, Cat(x, y))
  BY <1>3, Associative
<1>5. Cat(Cat(a, b), c) = Cat(a, Cat(b, c))
  BY Associative
<1> QED
  BY <1>1, <1>2, <1>3, <1>4, <1>5

\* The forwarding task takes one entry in hand.
LEMMA RowTaken ==
    ASSUME NEW a, NEW d, IsLog(a), IsLog(d), d # <<>>
    PROVE  Cat(Cat(a, <<Head(d)>>), Tail(d)) = Cat(Cat(a, <<>>), d)
<1>1. Append(a, Head(d)) = Cat(a, <<Head(d)>>)
  BY HeadTailProperties, AppendIsConcat DEF IsLog, Cat
<1>2. Cat(a, <<>>) = a
  BY ConcatEmptySeq DEF IsLog, Cat
<1>3. Cat(Append(a, Head(d)), Tail(d)) = Cat(a, d)
  BY LogMoved
<1> QED
  BY <1>1, <1>2, <1>3

\* A stream whose entries only move on keeps its worth.
LEMMA StreamMoves ==
    ASSUME NEW r \in Reader, Stream(r), UnderWay(r)' = UnderWay(r), Owed(r)' = Owed(r),
           hist' = hist, from' = from, reader'[r] = "forward", reader[r] = "forward",
           log_subscribers' = log_subscribers, lagged' = lagged, handler' = handler
    PROVE  Stream(r)'
BY DEF Stream

\* The forwarding task keeps its own stream.
LEMMA ForwardStream ==
    ASSUME Typed, NEW r \in Reader, Stream(r),
           forward_send(r) \/ forward_recv(r) \/ forward_ends(r)
    PROVE  Stream(r)'
<1>1. from[r] <= Len(hist)
  BY DEF Stream
<1>2. /\ got[r] \in Seq(Entry) /\ rpc_rx[r] \in Seq(Entry) /\ logs[r] \in Seq(Entry)
      /\ log_rx[r] \in Seq(Entry) /\ got[r] \o rpc_rx[r] \in Seq(Entry)
  BY <1>1, StreamTypes
<1>3. /\ hist' = hist /\ UNCHANGED <<from, snap, log_subscribers, lagged, handler, client, got>>
      /\ reader[r] = "forward"
  BY DEF forward_send, forward_recv, forward_ends, buffer
<1>4. Owed(r)' = Owed(r)
  BY <1>3 DEF Owed
<1>4a. /\ IsLog(got[r]) /\ IsLog(rpc_rx[r]) /\ IsLog(logs[r]) /\ IsLog(log_rx[r])
      /\ IsLog(Cat(got[r], rpc_rx[r]))
  BY <1>2 DEF IsLog, Cat
<1>5. CASE forward_send(r)
  <2>1. /\ rpc_rx'[r] = Append(rpc_rx[r], Head(logs[r])) /\ logs'[r] = Tail(logs[r])
        /\ log_rx' = log_rx /\ reader' = reader /\ logs[r] # <<>>
    BY <1>5 DEF forward_send, Typed
  <2>2. Cat(Cat(got[r], Append(rpc_rx[r], Head(logs[r]))), Tail(logs[r]))
           = Cat(Cat(got[r], rpc_rx[r]), logs[r])
    BY <1>4a, <2>1, RowMoved
  <2>3. UnderWay(r)' = UnderWay(r)
    BY <1>3, <2>1, <2>2, Zenon DEF UnderWay, Cat
  <2> QED
    BY <1>3, <1>4, <2>1, <2>3, StreamMoves
<1>6. CASE forward_recv(r)
  <2>1. /\ logs'[r] = <<Head(log_rx[r])>> /\ log_rx'[r] = Tail(log_rx[r])
        /\ rpc_rx' = rpc_rx /\ reader' = reader /\ logs[r] = <<>> /\ log_rx[r] # <<>>
    BY <1>6 DEF forward_recv, Typed
  <2>2. Cat(Cat(Cat(got[r], rpc_rx[r]), <<Head(log_rx[r])>>), Tail(log_rx[r]))
           = Cat(Cat(Cat(got[r], rpc_rx[r]), <<>>), log_rx[r])
    BY <1>4a, <2>1, RowTaken
  <2>3. UnderWay(r)' = UnderWay(r)
    BY <1>3, <2>1, <2>2, Zenon DEF UnderWay, Cat
  <2> QED
    BY <1>3, <1>4, <2>1, <2>3, StreamMoves
<1>7. CASE forward_ends(r)
  <2>1. /\ reader'[r] = "ended" /\ UNCHANGED <<log_rx, logs, rpc_rx>>
        /\ \/ logs[r] = <<>> /\ log_rx[r] = <<>> /\ r \notin log_subscribers
           \/ client[r] = "gone"
    BY <1>7 DEF forward_ends, Typed, TypeOK
  <2>2. UnderWay(r)' = UnderWay(r)
    BY <1>3, <2>1 DEF UnderWay
  <2>3. CASE client[r] = "gone"
    BY <1>3, <1>4, <2>1, <2>2, <2>3 DEF Stream
  <2>4. CASE logs[r] = <<>> /\ log_rx[r] = <<>> /\ r \notin log_subscribers
    <3>1. UnderWay(r) = got[r] \o rpc_rx[r]
      <4>1. PICK x \in Seq(Entry) : x = got[r] \o rpc_rx[r]
        BY <1>2
      <4>2. x \o <<>> = x
        BY ConcatEmptySeq
      <4> QED
        BY <2>4, <4>1, <4>2, Zenon DEF UnderWay
    <3>2. r \notin lagged => UnderWay(r) = Owed(r) /\ handler = "done"
      BY <1>3, <2>4 DEF Stream
    <3>3. r \notin lagged => got[r] \o rpc_rx[r] = Owed(r) /\ handler = "done"
      BY <3>1, <3>2, Zenon
    <3>4. got'[r] \o rpc_rx'[r] = got[r] \o rpc_rx[r]
      BY <1>3, <2>1
    <3> QED
      BY <1>3, <1>4, <2>1, <2>2, <3>3, <3>4 DEF Stream
  <2> QED
    BY <2>1, <2>3, <2>4
<1> QED
  BY <1>5, <1>6, <1>7

\* So do its client and the call before the subscription.
LEMMA ClientStream ==
    ASSUME Typed, NEW r \in Reader, Stream(r),
           \/ stream_logs(r) \/ lock_communicator(r)
           \/ client_receives(r) \/ client_leaves(r)
    PROVE  Stream(r)'
<1>1. from[r] <= Len(hist)
  BY DEF Stream
<1>2. /\ hist' = hist /\ UNCHANGED <<from, snap, log_subscribers, lagged, handler, log_rx, logs>>
  BY DEF stream_logs, lock_communicator, client_receives, client_leaves, buffer
<1>3. Owed(r)' = Owed(r)
  BY <1>2 DEF Owed
<1>4. CASE client_receives(r)
  <2>1. /\ got'[r] = Append(got[r], Head(rpc_rx[r])) /\ rpc_rx'[r] = Tail(rpc_rx[r])
        /\ UNCHANGED <<reader, client>> /\ rpc_rx[r] # <<>>
    BY <1>4 DEF client_receives, Typed
  <2>2. got[r] \in Seq(Entry) /\ rpc_rx[r] \in Seq(Entry)
    BY <1>1, StreamTypes
  <2>3. Append(got[r], Head(rpc_rx[r])) \o Tail(rpc_rx[r]) = got[r] \o rpc_rx[r]
    <3>1. PICK a \in Seq(Entry), s \in Seq(Entry) : a = got[r] /\ s = rpc_rx[r]
      BY <2>2
    <3>2. s # <<>>
      BY <2>1, <3>1
    <3>3. Append(a, Head(s)) \o Tail(s) = a \o s
      BY <3>2, Moved
    <3> QED
      BY <3>1, <3>3
  <2>4. got'[r] \o rpc_rx'[r] = got[r] \o rpc_rx[r]
    BY <2>1, <2>3, Zenon
  <2>5. UnderWay(r)' = UnderWay(r)
    BY <1>2, <2>4, Zenon DEF UnderWay
  <2>6. ~Fresh(r)
    BY <2>1 DEF Fresh
  <2> QED
    BY <1>2, <1>3, <2>1, <2>4, <2>5, <2>6 DEF Stream
<1>5. CASE stream_logs(r) \/ lock_communicator(r)
  <2>1. /\ UNCHANGED <<got, rpc_rx, client>> /\ reader[r] \in {"idle", "asked"}
        /\ reader'[r] \in {"asked", "locked"}
    BY <1>5 DEF stream_logs, lock_communicator, Typed, TypeOK
  <2> QED
    BY <1>2, <2>1 DEF Stream, Fresh
<1>6. CASE client_leaves(r)
  <2>1. /\ UNCHANGED <<got, rpc_rx>> /\ client'[r] = "gone"
        /\ reader'[r] = IF reader[r] = "asked" THEN "ended" ELSE reader[r]
        /\ reader[r] \in {"asked", "locked", "forward"}
    BY <1>6 DEF client_leaves, Typed, TypeOK
  <2>2. CASE reader[r] # "asked"
    BY <1>2, <2>1, <2>2, StreamStill DEF Stream
  <2>3. CASE reader[r] = "asked"
    <3>1. UnderWay(r)' = <<>>
      BY <1>2, <2>1, <2>3 DEF Stream, Fresh, UnderWay
    <3>2. Owed(r) \in Seq(Entry)
      BY <1>1, StreamTypes
    <3>3. IsPrefix(<<>>, Owed(r))
      BY <3>2, LenProperties DEF IsPrefix
    <3> QED
      BY <1>2, <1>3, <2>1, <2>3, <3>1, <3>3 DEF Stream
  <2> QED
    BY <2>2, <2>3
<1> QED
  BY <1>4, <1>5, <1>6

\* Every step keeps every stream.
LEMMA StreamsNext == Typed /\ Streams /\ [Next]_vars => Streams'
<1> SUFFICES ASSUME Typed, Streams, [Next]_vars PROVE Streams'
  OBVIOUS
<1>1. ASSUME NEW r \in Reader,
             stream_logs(r) \/ ReaderStep(r) \/ client_receives(r) \/ client_leaves(r)
      PROVE  Streams'
  <2>1. Stream(r)
    BY DEF Streams
  <2>2. Stream(r)'
    BY <1>1, <2>1, SubscribeStream, ForwardStream, ClientStream DEF ReaderStep
  <2>3. \A q \in Reader \ {r} : Stream(q)'
    BY <1>1, OtherStreams
  <2> QED
    BY <2>2, <2>3 DEF Streams
<1>2. CASE HandlerStep
  BY <1>2, HandlerStreams
<1>3. CASE \/ \E kind \in {"log", "state", "exited", "malformed"} : guest_sends(kind)
           \/ guest_closes
           \/ \E graceful \in BOOLEAN : shutdown(graceful)
           \/ ShutdownStep \/ shutdown_cancelled \/ UNCHANGED vars
  BY <1>3, OutsideStreams
<1>4. CASE Terminated
  BY <1>4, OutsideStreams DEF Terminated
<1> QED
  BY <1>1, <1>2, <1>3, <1>4 DEF Next

\* Every step keeps the types.
LEMMA TypedNext == Typed /\ [Next]_vars => Typed'
<1> SUFFICES ASSUME Typed, [Next]_vars PROVE Typed'
  OBVIOUS
<1>1. CASE \E r \in Reader :
              stream_logs(r) \/ ReaderStep(r) \/ client_receives(r) \/ client_leaves(r)
  BY <1>1, ReaderTyped
<1>2. CASE HandlerStep
  BY <1>2, HandlerTyped
<1>3. CASE \/ \E kind \in {"log", "state", "exited", "malformed"} : guest_sends(kind)
           \/ guest_closes
           \/ \E graceful \in BOOLEAN : shutdown(graceful)
           \/ ShutdownStep \/ shutdown_cancelled \/ UNCHANGED vars
  BY <1>3, OutsideTyped
<1>4. CASE Terminated
  BY <1>4, OutsideTyped DEF Terminated
<1> QED
  BY <1>1, <1>2, <1>3, <1>4 DEF Next

-----------------------------------------------------------------------------
(* The buffer and the numbers *)

\* A step that takes packets from the front of the stream, at most, and leaves
\* the log alone.
LEMMA LogStill ==
    ASSUME Typed, Log, UNCHANGED <<log_buffer, hist, sent>>, state' = state \/ state' = None,
           inbox' = inbox \/ (inbox # <<>> /\ inbox' = Tail(inbox))
    PROVE  Log'
<1>1. Recent' /\ StateLogged'
  BY DEF Log, Recent, StateLogged
<1>2. CASE inbox' = inbox
  BY <1>1, <1>2 DEF Log, Numbered
<1>3. CASE inbox # <<>> /\ inbox' = Tail(inbox)
  <2>1. /\ inbox \in Seq(Packet) /\ Len(inbox) \in Nat
        /\ Len(inbox') = Len(inbox) - 1
        /\ \A i \in 1 .. Len(inbox') : inbox'[i] = inbox[i + 1]
    BY <1>3, HeadTailProperties, LenProperties DEF Typed, TypeOK
  <2>2. \A i \in 1 .. Len(inbox') : i + 1 \in 1 .. Len(inbox)
    BY <2>1
  <2>3. \A i, j \in 1 .. Len(inbox') : i < j => inbox'[i].id < inbox'[j].id
    <3> SUFFICES ASSUME NEW i \in 1 .. Len(inbox'), NEW j \in 1 .. Len(inbox'), i < j
                 PROVE  inbox'[i].id < inbox'[j].id
      OBVIOUS
    <3>1. i + 1 \in 1 .. Len(inbox) /\ j + 1 \in 1 .. Len(inbox) /\ i + 1 < j + 1
      BY <2>2
    <3>2. inbox[i + 1].id < inbox[j + 1].id
      BY <3>1 DEF Log, Numbered
    <3> QED
      BY <2>1, <3>2
  <2>4. \A i \in 1 .. Len(hist), j \in 1 .. Len(inbox') : hist[i].id < inbox'[j].id
    BY <2>1, <2>2 DEF Log, Numbered
  <2>5. \A i \in 1 .. Len(inbox') : inbox'[i].id <= sent
    BY <2>1, <2>2 DEF Log, Numbered
  <2>6. Numbered'
    BY <2>3, <2>4, <2>5 DEF Log, Numbered
  <2> QED
    BY <1>1, <2>6 DEF Log
<1> QED
  BY <1>2, <1>3

\* The numbers are numbers.
LEMMA Numbers ==
    ASSUME Typed
    PROVE  /\ \A i \in 1 .. Len(hist) : hist[i].id \in Nat
           /\ \A i \in 1 .. Len(inbox) : inbox[i].id \in Nat
<1>1. hist \in Seq(Entry) /\ inbox \in Seq(Packet)
  BY DEF Typed, TypeOK
<1>2. \A i \in 1 .. Len(hist) : hist[i] \in Entry
  BY <1>1, ElementOfSeq
<1>3. \A i \in 1 .. Len(inbox) : inbox[i] \in Packet
  BY <1>1, ElementOfSeq
<1>4. \A n \in 1 .. MaxPackets : n \in Nat
  BY CapacityAssumption
<1> QED
  BY <1>2, <1>3, <1>4 DEF Entry, Packet

\* The guest numbers its packets.
LEMMA SendsLog ==
    ASSUME Typed, Log, NEW kind, guest_sends(kind)
    PROVE  Log'
<1>1. /\ inbox \in Seq(Packet) /\ Len(inbox) \in Nat /\ sent \in Nat /\ sent' = sent + 1
      /\ inbox' = Append(inbox, [kind |-> kind, id |-> sent'])
      /\ UNCHANGED <<log_buffer, hist, state>>
  BY LenProperties, CapacityAssumption DEF guest_sends, buffer, Typed, TypeOK
<1>2. Recent' /\ StateLogged'
  BY <1>1 DEF Log, Recent, StateLogged
<1>3. /\ Len(inbox') = Len(inbox) + 1
      /\ \A i \in 1 .. Len(inbox) : inbox'[i] = inbox[i]
      /\ inbox'[Len(inbox) + 1].id = sent + 1
  BY <1>1
<1>4. /\ \A i \in 1 .. Len(hist) : hist[i].id \in Nat
      /\ \A i \in 1 .. Len(inbox) : inbox[i].id \in Nat
  BY Numbers
<1>5. \A i, j \in 1 .. Len(inbox') : i < j => inbox'[i].id < inbox'[j].id
  <2> SUFFICES ASSUME NEW i \in 1 .. Len(inbox'), NEW j \in 1 .. Len(inbox'), i < j
               PROVE  inbox'[i].id < inbox'[j].id
    OBVIOUS
  <2>1. i \in 1 .. Len(inbox)
    BY <1>1, <1>3
  <2>2. CASE j = Len(inbox) + 1
    BY <2>1, <2>2, <1>1, <1>3, <1>4 DEF Log, Numbered
  <2>3. CASE j # Len(inbox) + 1
    <3>1. j \in 1 .. Len(inbox)
      <4>1. Len(inbox) \in Nat /\ j \in 1 .. Len(inbox) + 1
        BY <1>1, <1>3
      <4> QED
        BY <2>3, <4>1
    <3>2. \A m, n \in 1 .. Len(inbox) : m < n => inbox[m].id < inbox[n].id
      BY DEF Log, Numbered
    <3>3. inbox[i].id < inbox[j].id
      BY <2>1, <3>1, <3>2
    <3> QED
      BY <2>1, <3>1, <3>3, <1>3
  <2> QED
    BY <2>2, <2>3
<1>6. \A i \in 1 .. Len(hist), j \in 1 .. Len(inbox') : hist[i].id < inbox'[j].id
  <2> SUFFICES ASSUME NEW i \in 1 .. Len(hist), NEW j \in 1 .. Len(inbox')
               PROVE  hist[i].id < inbox'[j].id
    OBVIOUS
  <2>1. CASE j = Len(inbox) + 1
    BY <2>1, <1>1, <1>3, <1>4 DEF Log, Numbered
  <2>2. CASE j # Len(inbox) + 1
    BY <2>2, <1>1, <1>3 DEF Log, Numbered
  <2> QED
    BY <2>1, <2>2
<1>7. \A i \in 1 .. Len(hist) : hist[i].id <= sent'
  BY <1>1, <1>4 DEF Log, Numbered
<1>8. \A i \in 1 .. Len(inbox') : inbox'[i].id <= sent'
  <2> SUFFICES ASSUME NEW i \in 1 .. Len(inbox') PROVE inbox'[i].id <= sent'
    OBVIOUS
  <2>1. CASE i = Len(inbox) + 1
    BY <2>1, <1>1, <1>3
  <2>2. CASE i # Len(inbox) + 1
    BY <2>2, <1>1, <1>3, <1>4 DEF Log, Numbered
  <2> QED
    BY <2>1, <2>2
<1>9. Numbered'
  BY <1>1, <1>5, <1>6, <1>7, <1>8 DEF Log, Numbered
<1> QED
  BY <1>2, <1>9 DEF Log

\* The entry that push_log takes from the stream is newer than every other.
LEMMA PushedNumbers ==
    ASSUME Typed, Log, inbox # <<>>, Head(inbox) \in Entry, inbox' = Tail(inbox),
           sent' = sent, hist' = Append(hist, Head(inbox))
    PROVE  Numbered'
<1>1. /\ inbox \in Seq(Packet) /\ Len(inbox) \in Nat \ {0} /\ Head(inbox) = inbox[1]
      /\ Len(inbox') = Len(inbox) - 1
      /\ \A i \in 1 .. Len(inbox') : inbox'[i] = inbox[i + 1]
  BY HeadTailProperties, LenProperties, EmptySeq DEF Typed, TypeOK
<1>2. hist \in Seq(Entry) /\ Len(hist) \in Nat
  BY LenProperties DEF Typed
<1>3. /\ Len(hist') = Len(hist) + 1 /\ hist'[Len(hist) + 1] = inbox[1]
      /\ \A i \in 1 .. Len(hist) : hist'[i] = hist[i]
  BY <1>1, <1>2, AppendProperties
<1>4. /\ \A i \in 1 .. Len(hist) : hist[i].id \in Nat
      /\ \A i \in 1 .. Len(inbox) : inbox[i].id \in Nat
  BY Numbers
<1>5. /\ 1 \in 1 .. Len(inbox)
      /\ \A i \in 1 .. Len(inbox') : i + 1 \in 1 .. Len(inbox) /\ 1 < i + 1
  BY <1>1
<1>6. \A i, j \in 1 .. Len(inbox') : i < j => inbox'[i].id < inbox'[j].id
  BY <1>1, <1>5 DEF Log, Numbered
<1>7. \A i, j \in 1 .. Len(hist') : i < j => hist'[i].id < hist'[j].id
  <2> SUFFICES ASSUME NEW i \in 1 .. Len(hist'), NEW j \in 1 .. Len(hist'), i < j
               PROVE  hist'[i].id < hist'[j].id
    OBVIOUS
  <2>1. i \in 1 .. Len(hist)
    BY <1>2, <1>3
  <2>2. CASE j = Len(hist) + 1
    BY <2>1, <2>2, <1>3, <1>5 DEF Log, Numbered
  <2>3. CASE j # Len(hist) + 1
    BY <2>1, <2>3, <1>2, <1>3 DEF Log, Numbered
  <2> QED
    BY <2>2, <2>3
<1>8. \A i \in 1 .. Len(hist'), j \in 1 .. Len(inbox') : hist'[i].id < inbox'[j].id
  <2> SUFFICES ASSUME NEW i \in 1 .. Len(hist'), NEW j \in 1 .. Len(inbox')
               PROVE  hist'[i].id < inbox'[j].id
    OBVIOUS
  <2>1. inbox'[j] = inbox[j + 1] /\ j + 1 \in 1 .. Len(inbox) /\ 1 < j + 1
    BY <1>1, <1>5
  <2>2. CASE i = Len(hist) + 1
    BY <2>1, <2>2, <1>3, <1>5 DEF Log, Numbered
  <2>3. CASE i # Len(hist) + 1
    BY <2>1, <2>3, <1>2, <1>3 DEF Log, Numbered
  <2> QED
    BY <2>2, <2>3
<1>9. \A i \in 1 .. Len(hist') : hist'[i].id <= sent'
  <2> SUFFICES ASSUME NEW i \in 1 .. Len(hist') PROVE hist'[i].id <= sent'
    OBVIOUS
  <2>1. CASE i = Len(hist) + 1
    BY <2>1, <1>3, <1>5 DEF Log, Numbered
  <2>2. CASE i # Len(hist) + 1
    BY <2>2, <1>2, <1>3 DEF Log, Numbered
  <2> QED
    BY <2>1, <2>2
<1>10. \A i \in 1 .. Len(inbox') : inbox'[i].id <= sent'
  BY <1>1, <1>5 DEF Log, Numbered
<1> QED
  BY <1>6, <1>7, <1>8, <1>9, <1>10 DEF Numbered

\* push_log keeps the buffer the end of the history.
LEMMA PushedRecent ==
    ASSUME Typed, Log, NEW e \in Entry, push_log(e)
    PROVE  Recent'
<1>1. /\ log_buffer \in Seq(Entry) /\ Len(log_buffer) <= MAX_LINES /\ hist \in Seq(Entry)
      /\ Len(hist) \in Nat /\ MAX_LINES \in Nat /\ Len(log_buffer) \in Nat
  BY LenProperties, CapacityAssumption DEF Typed, TypeOK
<1>2. /\ Len(log_buffer') = IF Len(log_buffer) < MAX_LINES THEN Len(log_buffer) + 1 ELSE MAX_LINES
      /\ log_buffer'[1] = e
      /\ \A i \in 2 .. Len(log_buffer') : log_buffer'[i] = log_buffer[i - 1]
  BY <1>1, PushFront DEF push_log
<1>3. /\ Len(hist') = Len(hist) + 1 /\ hist'[Len(hist) + 1] = e
      /\ \A i \in 1 .. Len(hist) : hist'[i] = hist[i]
  BY <1>1, AppendProperties DEF push_log
<1>4. /\ Len(log_buffer) = IF Len(hist) <= MAX_LINES THEN Len(hist) ELSE MAX_LINES
      /\ \A i \in 1 .. Len(log_buffer) : log_buffer[i] = hist[Len(hist) + 1 - i]
  BY DEF Log, Recent
<1>5. Len(log_buffer') = IF Len(hist') <= MAX_LINES THEN Len(hist') ELSE MAX_LINES
  BY <1>1, <1>2, <1>3, <1>4
<1>6. ASSUME NEW i \in 1 .. Len(log_buffer')
      PROVE  log_buffer'[i] = hist'[Len(hist') + 1 - i]
  <2>1. CASE i = 1
    <3>1. Len(hist') + 1 - i = Len(hist) + 1
      BY <2>1, <1>1, <1>3
    <3> QED
      BY <2>1, <3>1, <1>2, <1>3
  <2>2. CASE i # 1
    <3>1. /\ i - 1 \in 1 .. Len(log_buffer) /\ i \in 2 .. Len(log_buffer')
          /\ Len(hist') + 1 - i = Len(hist) + 1 - (i - 1)
          /\ Len(hist) + 1 - (i - 1) \in 1 .. Len(hist)
      BY <2>2, <1>1, <1>2, <1>3, <1>4
    <3>2. log_buffer'[i] = log_buffer[i - 1]
      BY <3>1, <1>2
    <3>3. log_buffer[i - 1] = hist[Len(hist) + 1 - (i - 1)]
      BY <3>1, <1>4
    <3>4. hist'[Len(hist) + 1 - (i - 1)] = hist[Len(hist) + 1 - (i - 1)]
      BY <3>1, <1>3
    <3> QED
      BY <3>1, <3>2, <3>3, <3>4
  <2> QED
    BY <2>1, <2>2
<1> QED
  BY <1>5, <1>6 DEF Recent

\* Every step keeps the buffer, the numbers and the state.
LEMMA LogNext == Typed /\ Log /\ [Next]_vars => Log'
<1> SUFFICES ASSUME Typed, Log, [Next]_vars PROVE Log'
  OBVIOUS
<1>1. CASE handle_packet
  <2>1. inbox # <<>> /\ inbox' = Tail(inbox) /\ sent' = sent
    BY <1>1 DEF handle_packet
  <2>2. CASE Head(inbox).kind \in {"log", "state"}
    <3>1. Head(inbox) \in Entry
      BY <2>1, <2>2, HeadPacket
    <3>2. push_log(Head(inbox)) /\ state' \in {state, Head(inbox)}
      BY <1>1, <2>2 DEF handle_packet
    <3>3. Numbered'
      BY <2>1, <3>1, <3>2, PushedNumbers DEF push_log
    <3>4. Recent'
      BY <3>1, <3>2, PushedRecent
    <3>5. hist \in Seq(Entry) /\ Len(hist) \in Nat
      BY LenProperties DEF Typed
    <3>6. /\ Len(hist') = Len(hist) + 1 /\ hist'[Len(hist) + 1] = Head(inbox)
          /\ \A i \in 1 .. Len(hist) : hist'[i] = hist[i]
      BY <3>1, <3>2, <3>5, AppendProperties DEF push_log
    <3>7. StateLogged'
      <4>1. CASE state' = state
        BY <3>5, <3>6, <4>1 DEF Log, StateLogged
      <4>2. CASE state' = Head(inbox)
        <5>1. Len(hist) + 1 \in 1 .. Len(hist')
          BY <3>5, <3>6
        <5> QED
          BY <3>6, <4>2, <5>1 DEF StateLogged
      <4> QED
        BY <3>2, <4>1, <4>2
    <3> QED
      BY <3>3, <3>4, <3>7 DEF Log
  <2>3. CASE Head(inbox).kind \notin {"log", "state"}
    <3>1. state' = None /\ UNCHANGED <<log_buffer, hist>>
      BY <1>1, <2>3 DEF handle_packet
    <3> QED
      BY <2>1, <3>1, LogStill
  <2> QED
    BY <2>2, <2>3
<1>2. ASSUME NEW kind \in {"log", "state", "exited", "malformed"}, guest_sends(kind)
      PROVE  Log'
  BY <1>2, SendsLog
<1>3. CASE \/ read_error \/ handler_ends \/ guest_closes
           \/ \E graceful \in BOOLEAN : shutdown(graceful)
           \/ ShutdownStep \/ shutdown_cancelled \/ Terminated \/ UNCHANGED vars
  <2>1. /\ UNCHANGED <<log_buffer, hist, sent, state>>
        /\ inbox' = inbox \/ (inbox # <<>> /\ inbox' = Tail(inbox))
    BY <1>3 DEF read_error, handler_ends, guest_closes, shutdown, ShutdownStep, shutdown_sent,
                machine_dropped, shutdown_cancelled, Terminated, vars, guest, buffer
  <2> QED
    BY <2>1, LogStill
<1>4. CASE \E r \in Reader :
              stream_logs(r) \/ ReaderStep(r) \/ client_receives(r) \/ client_leaves(r)
  <2>1. UNCHANGED <<log_buffer, hist, sent, state, inbox>>
    BY <1>4 DEF stream_logs, ReaderStep, lock_communicator, get_and_subscribe_to_logs,
                forward_send, forward_recv, forward_ends, client_receives, client_leaves,
                guest, buffer
  <2> QED
    BY <2>1, LogStill
<1> QED
  BY <1>1, <1>2, <1>3, <1>4 DEF Next, HandlerStep

-----------------------------------------------------------------------------
(* Copies of the buffer *)

\* Where the copy begins.
Oldest == Len(hist) - Len(log_buffer)

\* The buffer read from its back is the end of the history.
LEMMA ReverseFacts ==
    ASSUME Typed, Log
    PROVE  /\ Len(hist) \in Nat /\ Len(log_buffer) \in Nat /\ Len(log_buffer) <= Len(hist)
           /\ Reverse(log_buffer) \in Seq(Entry)
           /\ Len(Reverse(log_buffer)) = Len(log_buffer)
           /\ \A i \in 1 .. Len(log_buffer) :
                 Oldest + i \in 1 .. Len(hist) /\ Reverse(log_buffer)[i] = hist[Oldest + i]
<1>1. /\ log_buffer \in Seq(Entry) /\ hist \in Seq(Entry) /\ MAX_LINES \in Nat
      /\ Len(hist) \in Nat /\ Len(log_buffer) \in Nat
  BY LenProperties, CapacityAssumption DEF Typed, TypeOK
<1>2. /\ Len(log_buffer) <= Len(hist)
      /\ \A i \in 1 .. Len(log_buffer) : log_buffer[i] = hist[Len(hist) + 1 - i]
  BY <1>1 DEF Log, Recent
<1>3. Reverse(log_buffer) \in Seq(Entry)
  <2>1. \A i \in 1 .. Len(log_buffer) : log_buffer[(Len(log_buffer) - i) + 1] \in Entry
    BY <1>1, ElementOfSeq
  <2> QED
    BY <1>1, <2>1, IsASeq DEF Reverse
<1>4. DOMAIN Reverse(log_buffer) = 1 .. Len(log_buffer)
  BY DEF Reverse
<1>5. Len(Reverse(log_buffer)) = Len(log_buffer)
  BY <1>1, <1>3, <1>4, LenProperties
<1>6. ASSUME NEW i \in 1 .. Len(log_buffer)
      PROVE  Oldest + i \in 1 .. Len(hist) /\ Reverse(log_buffer)[i] = hist[Oldest + i]
  <2>1. Reverse(log_buffer)[i] = log_buffer[(Len(log_buffer) - i) + 1]
    BY DEF Reverse
  <2>2. /\ (Len(log_buffer) - i) + 1 \in 1 .. Len(log_buffer)
        /\ Len(hist) + 1 - ((Len(log_buffer) - i) + 1) = Oldest + i
        /\ Oldest + i \in 1 .. Len(hist)
    BY <1>1, <1>2 DEF Oldest
  <2>3. log_buffer[(Len(log_buffer) - i) + 1]
           = hist[Len(hist) + 1 - ((Len(log_buffer) - i) + 1)]
    BY <2>2, <1>2
  <2> QED
    BY <2>1, <2>2, <2>3
<1> QED
  BY <1>1, <1>2, <1>3, <1>5, <1>6

\* The lines that a copy holds, as SnapshotFaithful writes them.
LEMMA LinesFacts ==
    ASSUME Typed, Log
    PROVE  SubSeq(hist, Max({1, Len(hist) - MAX_LINES + 1}), Len(hist)) = Reverse(log_buffer)
<1>1. /\ Len(hist) \in Nat /\ Len(log_buffer) \in Nat /\ Len(log_buffer) <= Len(hist)
      /\ Reverse(log_buffer) \in Seq(Entry) /\ Len(Reverse(log_buffer)) = Len(log_buffer)
      /\ \A i \in 1 .. Len(log_buffer) :
            Oldest + i \in 1 .. Len(hist) /\ Reverse(log_buffer)[i] = hist[Oldest + i]
  BY ReverseFacts
<1>2. MAX_LINES \in Nat
  BY CapacityAssumption
<1>3. Max({1, Len(hist) - MAX_LINES + 1}) = Oldest + 1
  <2>1. \A x, y \in Int : Max({x, y}) = IF x >= y THEN x ELSE y
    BY DEF Max
  <2>2. Max({1, Len(hist) - MAX_LINES + 1})
           = IF 1 >= Len(hist) - MAX_LINES + 1 THEN 1 ELSE Len(hist) - MAX_LINES + 1
    BY <1>1, <1>2, <2>1
  <2>3. Len(log_buffer) = IF Len(hist) <= MAX_LINES THEN Len(hist) ELSE MAX_LINES
    BY DEF Log, Recent
  <2>4. CASE Len(hist) <= MAX_LINES
    <3>1. 1 >= Len(hist) - MAX_LINES + 1 /\ Oldest = 0
      BY <1>1, <1>2, <2>3, <2>4 DEF Oldest
    <3> QED
      BY <2>2, <3>1
  <2>5. CASE ~(Len(hist) <= MAX_LINES)
    <3>1. ~(1 >= Len(hist) - MAX_LINES + 1) /\ Oldest + 1 = Len(hist) - MAX_LINES + 1
      BY <1>1, <1>2, <2>3, <2>5 DEF Oldest
    <3> QED
      BY <2>2, <3>1
  <2> QED
    BY <2>4, <2>5
<1>4. \A i \in Oldest + 1 .. Len(hist) : hist[i] \in Entry
  BY <1>1, ElementOfSeq DEF Oldest, Typed
<1>5. /\ SubSeq(hist, Oldest + 1, Len(hist)) \in Seq(Entry)
      /\ Len(SubSeq(hist, Oldest + 1, Len(hist))) =
            IF Oldest + 1 <= Len(hist) THEN Len(hist) - (Oldest + 1) + 1 ELSE 0
      /\ \A i \in 1 .. Len(hist) - (Oldest + 1) + 1 :
            SubSeq(hist, Oldest + 1, Len(hist))[i] = hist[(Oldest + 1) + i - 1]
  <2>1. Oldest + 1 \in Int /\ Len(hist) \in Int
    BY <1>1 DEF Oldest
  <2> QED
    BY <1>4, <2>1, SubSeqProperties
<1> DEFINE L == SubSeq(hist, Oldest + 1, Len(hist))
<1>6. Len(L) = Len(log_buffer)
  BY <1>1, <1>5 DEF Oldest
<1>7. ASSUME NEW i \in 1 .. Len(L) PROVE L[i] = Reverse(log_buffer)[i]
  <2>1. i \in 1 .. Len(log_buffer) /\ i \in 1 .. Len(hist) - (Oldest + 1) + 1
        /\ (Oldest + 1) + i - 1 = Oldest + i
    BY <1>1, <1>6 DEF Oldest
  <2>2. L[i] = hist[(Oldest + 1) + i - 1]
    BY <1>5, <2>1
  <2> QED
    BY <1>1, <2>1, <2>2
<1>8. L = Reverse(log_buffer)
  BY <1>1, <1>5, <1>6, <1>7, SeqEqual
<1> QED
  BY <1>3, <1>8

\* The tail that clone_buffer_with_state adds.
Chained == IF state # None /\ state \notin ToSet(log_buffer) THEN <<state>> ELSE <<>>

\* A copy is the newest lines, and then the state if they have lost it.
LEMMA CloneFacts ==
    ASSUME Typed, Log
    PROVE  LET c == clone_buffer_with_state
               m == Len(log_buffer)
           IN  /\ c \in Seq(Entry) /\ m \in Nat /\ Len(c) = m + Len(Chained)
               /\ \A i \in 1 .. m : c[i] = Reverse(log_buffer)[i]
               /\ Len(Chained) = 1 => c[m + 1] = state
               /\ Len(Chained) \in {0, 1}
               /\ Len(Chained) = 1 <=> (state # None /\ state \notin ToSet(log_buffer))
<1>1. /\ Len(log_buffer) \in Nat
      /\ Reverse(log_buffer) \in Seq(Entry) /\ Len(Reverse(log_buffer)) = Len(log_buffer)
  BY ReverseFacts
<1>2. /\ Chained \in Seq(Entry) /\ Len(Chained) \in {0, 1}
      /\ Len(Chained) = 1 <=> (state # None /\ state \notin ToSet(log_buffer))
      /\ Len(Chained) = 1 => Chained[1] = state
  <2>1. state \in Entry \cup {None}
    BY DEF Typed, TypeOK
  <2>2. CASE state # None /\ state \notin ToSet(log_buffer)
    <3>1. Chained = <<state>> /\ state \in Entry
      BY <2>1, <2>2 DEF Chained
    <3>2. <<state>> \in Seq(Entry) /\ Len(<<state>>) = 1 /\ <<state>>[1] = state
      BY <3>1
    <3> QED
      BY <2>2, <3>1, <3>2
  <2>3. CASE ~(state # None /\ state \notin ToSet(log_buffer))
    <3>1. Chained = <<>>
      BY <2>3 DEF Chained
    <3> QED
      BY <2>3, <3>1
  <2> QED
    BY <2>2, <2>3
<1>3. clone_buffer_with_state = Reverse(log_buffer) \o Chained
  BY DEF clone_buffer_with_state, Chained
<1>4. PICK R \in Seq(Entry) : R = Reverse(log_buffer)
  BY <1>1
<1>5. PICK T \in Seq(Entry) : T = Chained
  BY <1>2
<1>6. /\ R \o T \in Seq(Entry) /\ Len(R \o T) = Len(R) + Len(T)
      /\ \A i \in 1 .. Len(R) + Len(T) : (R \o T)[i] = IF i <= Len(R) THEN R[i] ELSE T[i - Len(R)]
  BY ConcatProperties
<1>7. clone_buffer_with_state = R \o T
  BY <1>3, <1>4, <1>5
<1>8. Len(R) = Len(log_buffer) /\ Len(T) \in {0, 1} /\ (Len(T) = 1 => T[1] = state)
  BY <1>1, <1>2, <1>4, <1>5
<1>9. \A i \in 1 .. Len(R) : (R \o T)[i] = R[i]
  BY <1>1, <1>6, <1>8
<1>10. Len(T) = 1 => (R \o T)[Len(R) + 1] = state
  BY <1>1, <1>6, <1>8
<1> QED
  BY <1>1, <1>2, <1>4, <1>5, <1>6, <1>7, <1>8, <1>9, <1>10

\* No entry is twice in the history, so the state is once in a copy.
LEMMA StateOnce ==
    ASSUME Typed, Log, state # None
    PROVE  \E k : {i \in DOMAIN clone_buffer_with_state :
                      clone_buffer_with_state[i] = state} = {k}
<1> DEFINE c == clone_buffer_with_state
           m == Len(log_buffer)
<1>1. /\ c \in Seq(Entry) /\ m \in Nat /\ Len(c) = m + Len(Chained)
      /\ \A i \in 1 .. m : c[i] = Reverse(log_buffer)[i]
      /\ Len(Chained) = 1 => c[m + 1] = state
      /\ Len(Chained) \in {0, 1}
      /\ Len(Chained) = 1 <=> state \notin ToSet(log_buffer)
  BY CloneFacts
<1>2. DOMAIN c = 1 .. Len(c)
  BY <1>1, LenProperties
<1>3. /\ Len(hist) \in Nat /\ m <= Len(hist)
      /\ \A i \in 1 .. m : Oldest + i \in 1 .. Len(hist) /\ Reverse(log_buffer)[i] = hist[Oldest + i]
  BY ReverseFacts
<1> HIDE DEF c
<1>4. \A i \in 1 .. m : c[i] = hist[Oldest + i] /\ Oldest + i \in 1 .. Len(hist)
  BY <1>1, <1>3
<1>5. Oldest \in Int
  BY <1>1, <1>3 DEF Oldest
<1>6. ASSUME NEW i \in 1 .. m, NEW j \in 1 .. m, c[i] = state, c[j] = state
      PROVE  i = j
  <2>1. hist[Oldest + i] = hist[Oldest + j]
    BY <1>4, <1>6
  <2>2. \A a, b \in 1 .. Len(hist) : a < b => hist[a].id < hist[b].id
    BY DEF Log, Numbered
  <2>3. hist[Oldest + i].id \in Nat /\ hist[Oldest + j].id \in Nat
    BY <1>4, Numbers
  <2>4. ~(Oldest + i < Oldest + j) /\ ~(Oldest + j < Oldest + i)
    BY <1>4, <2>1, <2>2, <2>3
  <2> QED
    BY <1>1, <1>5, <2>4
<1>7. (\E i \in 1 .. m : c[i] = state) <=> state \in ToSet(log_buffer)
  <2>1. log_buffer \in Seq(Entry) /\ DOMAIN log_buffer = 1 .. m
    BY LenProperties DEF Typed, TypeOK
  <2>2. \A i \in 1 .. m : c[i] = log_buffer[(m - i) + 1]
    BY <1>1 DEF Reverse
  <2>3. ASSUME NEW i \in 1 .. m, c[i] = state PROVE state \in ToSet(log_buffer)
    <3>1. (m - i) + 1 \in DOMAIN log_buffer
      BY <1>1, <2>1
    <3> QED
      BY <2>2, <2>3, <3>1 DEF ToSet
  <2>4. ASSUME state \in ToSet(log_buffer) PROVE \E i \in 1 .. m : c[i] = state
    <3>1. PICK j \in 1 .. m : log_buffer[j] = state
      BY <2>1, <2>4 DEF ToSet
    <3>2. (m - j) + 1 \in 1 .. m /\ (m - ((m - j) + 1)) + 1 = j
      BY <1>1
    <3>3. c[(m - j) + 1] = log_buffer[(m - ((m - j) + 1)) + 1]
      BY <2>2, <3>2
    <3> QED
      BY <3>1, <3>2, <3>3
  <2> QED
    BY <2>3, <2>4
<1>8. CASE state \in ToSet(log_buffer)
  <2>1. PICK k \in 1 .. m : c[k] = state
    BY <1>7, <1>8
  <2>2. Len(c) = m
    BY <1>1, <1>8
  <2>3. {i \in DOMAIN c : c[i] = state} = {k}
    BY <1>2, <1>6, <2>1, <2>2
  <2> QED
    BY <2>3 DEF c
<1>9. CASE state \notin ToSet(log_buffer)
  <2>1. Len(c) = m + 1 /\ c[m + 1] = state /\ \A i \in 1 .. m : c[i] # state
    BY <1>1, <1>7, <1>9
  <2>2. {i \in DOMAIN c : c[i] = state} = {m + 1}
    <3>1. \A i \in DOMAIN c : i \in 1 .. m \/ i = m + 1
      BY <1>1, <1>2, <2>1
    <3>2. m + 1 \in DOMAIN c
      BY <1>1, <1>2, <2>1
    <3> QED
      BY <2>1, <3>1, <3>2
  <2> QED
    BY <2>2 DEF c
<1> QED
  BY <1>8, <1>9

\* The invariants give what SnapshotFaithful says of a copy.
LEMMA SnapshotState == Typed /\ Log => SnapshotFaithful
<1> SUFFICES ASSUME Typed, Log PROVE SnapshotFaithful
  OBVIOUS
<1> DEFINE n == Len(hist)
           lines == SubSeq(hist, Max({1, n - MAX_LINES + 1}), n)
           c == clone_buffer_with_state
           m == Len(log_buffer)
<1>1. lines = Reverse(log_buffer)
  BY LinesFacts
<1>2. Reverse(log_buffer) \in Seq(Entry) /\ Len(Reverse(log_buffer)) = m
  BY ReverseFacts
<1>3. /\ c \in Seq(Entry) /\ m \in Nat /\ Len(c) = m + Len(Chained) /\ Len(Chained) \in {0, 1}
      /\ \A i \in 1 .. m : c[i] = Reverse(log_buffer)[i]
  BY CloneFacts
<1>4. state # None => Cardinality({i \in DOMAIN c : c[i] = state}) = 1
  BY StateOnce, FS_Singleton
<1> HIDE DEF lines, c
<1>5. Len(lines) = m /\ lines \in Seq(Entry) /\ \A i \in 1 .. m : c[i] = lines[i]
  BY <1>1, <1>2, <1>3
<1>6. Len(c) <= Len(lines) + 1
  <2>1. CASE Len(Chained) = 0
    BY <2>1, <1>3, <1>5
  <2>2. CASE Len(Chained) = 1
    BY <2>2, <1>3, <1>5
  <2> QED
    BY <2>1, <2>2, <1>3
<1>7. IsPrefix(lines, c)
  <2>1. /\ \A i \in 1 .. m : c[i] \in Entry
        /\ \A i \in 1 .. m : lines[i] \in Entry
    BY <1>3, <1>5, ElementOfSeq
  <2>2. /\ SubSeq(c, 1, m) \in Seq(Entry) /\ Len(SubSeq(c, 1, m)) = m
        /\ \A i \in 1 .. m : SubSeq(c, 1, m)[i] = c[i]
    BY <1>3, <2>1, SubSeqProperties
  <2>3. SubSeq(c, 1, m) = lines
    BY <1>5, <2>2, SeqEqual
  <2>4. SubSeq(lines, 1, m) = lines
    BY <1>5, SubSeqFull
  <2> QED
    BY <1>3, <1>5, <2>3, <2>4 DEF IsPrefix
<1> QED
  BY <1>4, <1>6, <1>7 DEF SnapshotFaithful, lines, c

-----------------------------------------------------------------------------
(* Theorems *)

\* The initial states satisfy the invariants.
LEMMA InitInv == Init => Typed /\ Streams /\ Log
<1> SUFFICES ASSUME Init PROVE Typed /\ Streams /\ Log
  OBVIOUS
<1> USE DEF Init
<1>1. Typed
  <2>1. /\ log_rx \in [Reader -> Seq(Entry)] /\ rpc_rx \in [Reader -> Seq(Entry)]
        /\ logs \in [Reader -> Seq(Entry)] /\ got \in [Reader -> Seq(Entry)]
        /\ snap \in [Reader -> Seq(Entry)] /\ from \in [Reader -> Nat]
    OBVIOUS
  <2>2. \A r \in Reader : Len(log_rx[r]) <= SubChan /\ Len(rpc_rx[r]) <= RpcChan
    BY CapacityAssumption
  <2>3. /\ inbox \in Seq(Packet) /\ hist \in Seq(Entry) /\ sent \in 0 .. MaxPackets
        /\ log_buffer \in Seq(Entry) /\ Len(log_buffer) <= MAX_LINES
    BY CapacityAssumption
  <2>4. \A r \in Reader : (lock = r) <=> (reader[r] = "locked")
    BY NoneAssumption
  <2>5. /\ reader \in [Reader -> {"idle", "asked", "locked", "forward", "ended"}]
        /\ client \in [Reader -> {"there", "gone"}] /\ eof \in BOOLEAN
        /\ handler \in {"loop", "ending", "done"} /\ lock \in Reader \cup {None, "shutdown"}
        /\ state \in Entry \cup {None} /\ log_subscribers \subseteq Reader
        /\ lagged \subseteq Reader /\ machine = "mapped"
    OBVIOUS
  <2> QED
    BY <2>1, <2>2, <2>3, <2>4, <2>5 DEF Typed, TypeOK
<1>2. ASSUME NEW r \in Reader PROVE Stream(r)
  BY <1>2 DEF Stream, Fresh
<1>3. Recent
  BY CapacityAssumption DEF Recent
<1>4. Numbered /\ StateLogged
  BY DEF Numbered, StateLogged
<1> QED
  BY <1>2, <1>1, <1>3, <1>4 DEF Streams, Log

\* The inductive invariant holds throughout.
THEOREM Invariance == Spec => [](Typed /\ Streams /\ Log)
<1>1. Init => Typed /\ Streams /\ Log
  BY InitInv
<1>2. Typed /\ Streams /\ Log /\ [Next]_vars => (Typed /\ Streams /\ Log)'
  BY TypedNext, StreamsNext, LogNext
<1> QED
  BY <1>1, <1>2, PTL DEF Spec

\* TypeOK: no channel and no buffer outgrows its capacity, and the mutex has the
\* holder that the readers' states say, whatever handler, readers, clients and
\* shutdown do.
THEOREM TypeCorrect == Spec => []TypeOK
<1>1. Typed => TypeOK
  BY DEF Typed
<1> QED
  BY <1>1, Invariance, PTL

\* NoGap: the copy of get_and_subscribe_to_logs and the channel of push_log join
\* without a gap or a repetition.
THEOREM StreamSafety == Spec => []NoGap
<1>1. Streams => NoGap
  BY DEF Streams, Stream, NoGap
<1> QED
  BY <1>1, Invariance, PTL

\* CompleteUnlessLagged: a stream that ended by itself, to a client that kept
\* up, was complete.
THEOREM Completeness == Spec => []CompleteUnlessLagged
<1>1. Streams => CompleteUnlessLagged
  BY DEF Streams, Stream, CompleteUnlessLagged
<1> QED
  BY <1>1, Invariance, PTL

\* SnapshotFaithful: clone_buffer_with_state gives the newest entries in order
\* and the current state exactly once.
THEOREM CopySafety == Spec => []SnapshotFaithful
BY SnapshotState, Invariance, PTL
=============================================================================
