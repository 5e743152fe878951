------------------------------ MODULE PipeToLog ------------------------------
(***************************************************************************)
(* spawn_pipe_to_log of instance/src/host.rs: a thread reads one pipe of   *)
(* the container into a buffer and sends a packet for each line.           *)
(*                                                                         *)
(* A byte of the container's output is its position, 1 .. Size; the ones   *)
(* in newlines are line ends.  Zero is a byte of the buffer that was never *)
(* written, Mark a byte of the text put in place of what a long line loses.*)
(* A read returns any number of bytes that are there and fit.              *)
(***************************************************************************)
EXTENDS Integers, Sequences, FiniteSets

CONSTANTS BUFFER_SIZE,  \* 2048 in the code
          Extra,        \* 1024: room behind it, and the part of it kept free
          MarkLen,      \* length of OVERFLOW, 9 in the code
          Size          \* bound: bytes the container writes

ASSUME SizeAssumption ==
    /\ BUFFER_SIZE \in Nat /\ Extra \in Nat \ {0} /\ Extra < BUFFER_SIZE
    /\ MarkLen \in 1 .. Extra
    /\ Size \in Nat

VARIABLES
    newlines,  \* the container's line ends
    taken,     \* bytes read from the pipe so far
    buf, pos,  \* the buffer, and how much of it is filled
    sent,      \* lines sent to the host
    thread,    \* "run", "done" or "failed"
    crossed    \* history: a read went on behind a line end

vars == <<newlines, taken, buf, pos, sent, thread, crossed>>

Mark == -1
Cell == 0 .. BUFFER_SIZE + Extra - 1
Byte == {Mark} \cup 0 .. Size
Limit == BUFFER_SIZE - Extra

\* pos.min(BUFFER_SIZE): where the next read begins.
start == IF pos < BUFFER_SIZE THEN pos ELSE BUFFER_SIZE

\* What fits behind start, of what is left.
Reads == {n \in 1 .. Size - taken : start + n <= BUFFER_SIZE + Extra}

\* The buffer after a read of n bytes.
filled(n) ==
    [c \in Cell |-> IF c \in start .. start + n - 1 THEN taken + 1 + (c - start) ELSE buf[c]]

\* The first k bytes of a buffer.
slice(b, k) == [i \in 1 .. k |-> b[i - 1]]

\* Line ends within the next n bytes, counted from 0.
newline_indexes(n) == {k \in 0 .. n - 1 : taken + 1 + k \in newlines}
First(S) == CHOOSE k \in S : \A j \in S : k <= j

-----------------------------------------------------------------------------
\* Faulty variant: what follows the line stays where it was.
ReadLineWithoutMove(n) ==
    /\ thread = "run" /\ n \in Reads /\ newline_indexes(n) # {}
    /\ LET newline_index == First(newline_indexes(n))
           index == start + newline_index
           next_line_buffered == n - newline_index - 1
       IN /\ sent' = Append(sent, slice(filled(n), index))
          /\ buf' = filled(n)
          /\ pos' = index + 1 + next_line_buffered
          /\ crossed' = (crossed \/ next_line_buffered > 0)
    /\ taken' = taken + n
    /\ UNCHANGED <<newlines, thread>>

\* Faulty variant: the line keeps its end.
ReadLineWithEnd(n) ==
    /\ thread = "run" /\ n \in Reads /\ newline_indexes(n) # {}
    /\ LET newline_index == First(newline_indexes(n))
           index == start + newline_index
           next_line_buffered == n - newline_index - 1
       IN /\ sent' = Append(sent, slice(filled(n), index + 1))
          /\ buf' = [c \in Cell |-> IF c < next_line_buffered - 1
                                    THEN filled(n)[index + 1 + c] ELSE filled(n)[c]]
          /\ pos' = next_line_buffered
          /\ crossed' = (crossed \/ next_line_buffered > 0)
    /\ taken' = taken + n
    /\ UNCHANGED <<newlines, thread>>

\* A read with a line end: the line up to the first one is sent and what
\* follows it moved to the front, all but its last byte.  The other line ends
\* of the same read are not looked for.
read_line(n) ==
    /\ thread = "run" /\ n \in Reads /\ newline_indexes(n) # {}
    /\ LET newline_index == First(newline_indexes(n))
           index == start + newline_index
           next_line_buffered == n - newline_index - 1
       IN /\ sent' = Append(sent, slice(filled(n), index))
          /\ buf' = [c \in Cell |-> IF c < next_line_buffered - 1
                                    THEN filled(n)[index + 1 + c] ELSE filled(n)[c]]
          /\ pos' = next_line_buffered
          /\ crossed' = (crossed \/ next_line_buffered > 0)
    /\ taken' = taken + n
    /\ UNCHANGED <<newlines, thread>>

\* Faulty variant: the mark is put at the end of the buffer.
ReadPartMarksEnd(n) ==
    /\ thread = "run" /\ n \in Reads /\ newline_indexes(n) = {}
    /\ IF start + n >= Limit
       THEN /\ pos' = BUFFER_SIZE + MarkLen
            /\ buf' = [c \in Cell |-> IF c \in BUFFER_SIZE .. BUFFER_SIZE + MarkLen - 1
                                      THEN Mark ELSE filled(n)[c]]
       ELSE pos' = start + n /\ buf' = filled(n)
    /\ taken' = taken + n
    /\ UNCHANGED <<newlines, sent, thread, crossed>>

\* A read without one: a line that comes near the end of the buffer keeps its
\* first Limit bytes and gets the mark.
read_part(n) ==
    /\ thread = "run" /\ n \in Reads /\ newline_indexes(n) = {}
    /\ IF start + n >= Limit
       THEN /\ pos' = Limit + MarkLen
            /\ buf' = [c \in Cell |-> IF c \in Limit .. Limit + MarkLen - 1
                                      THEN Mark ELSE filled(n)[c]]
       ELSE pos' = start + n /\ buf' = filled(n)
    /\ taken' = taken + n
    /\ UNCHANGED <<newlines, sent, thread, crossed>>

\* The pipe is closed: what is left is the last line.
read_end ==
    /\ thread = "run" /\ taken = Size
    /\ sent' = IF start > 0 THEN Append(sent, slice(buf, start)) ELSE sent
    /\ pos' = start
    /\ thread' = "done"
    /\ UNCHANGED <<newlines, taken, buf, crossed>>

\* Reading fails: the thread ends and what it has buffered is lost.
read_error ==
    /\ thread = "run"
    /\ pos' = start
    /\ thread' = "failed"
    /\ UNCHANGED <<newlines, taken, buf, sent, crossed>>

Terminated == thread # "run" /\ UNCHANGED vars

Init ==
    /\ newlines \in SUBSET (1 .. Size)
    /\ taken = 0 /\ buf = [c \in Cell |-> 0] /\ pos = 0
    /\ sent = <<>> /\ thread = "run" /\ crossed = FALSE

Next ==
    \/ \E n \in 1 .. Size : read_line(n) \/ read_part(n)
    \/ read_end
    \/ read_error
    \/ Terminated

Spec == Init /\ [][Next]_vars

-----------------------------------------------------------------------------
(* Properties *)

\* Every variable holds a value of its type, and the filled part never reaches
\* the end of the buffer: a read into no room returns 0 bytes, which the thread
\* takes for the end of the pipe, and a slice out of range is a panic that
\* reboots the machine.
TypeOK ==
    /\ newlines \subseteq 1 .. Size
    /\ taken \in 0 .. Size
    /\ buf \in [Cell -> Byte] /\ pos \in Cell
    /\ \A k \in 1 .. Len(sent) : Len(sent[k]) \in Cell
    /\ thread \in {"run", "done", "failed"} /\ crossed \in BOOLEAN

\* Every byte of a line is one the container wrote at some time, or of the mark:
\* the part of the buffer below pos was filled by reads, whatever was moved or
\* cut.  (It may be an old byte in the wrong place: OutputFaithful.)
OnlyOutput ==
    \A k \in 1 .. Len(sent) : \A i \in 1 .. Len(sent[k]) : sent[k][i] # 0

\* Line k of the output: the bytes between two line ends, or what follows the
\* last one.
LineEnd(k) ==
    IF k = 0 THEN 0
    ELSE IF k > Cardinality(newlines) THEN Size + 1
    ELSE CHOOSE e \in newlines : Cardinality({m \in newlines : m <= e}) = k
Line(k) == [i \in 1 .. LineEnd(k) - LineEnd(k - 1) - 1 |-> LineEnd(k - 1) + i]

\* The beginning of a line, the mark, and an end of the line.
Shortened(l, line) ==
    /\ Len(line) >= Limit /\ Len(l) >= Limit + MarkLen
    /\ \A i \in 1 .. Limit : l[i] = line[i]
    /\ \A i \in Limit + 1 .. Limit + MarkLen : l[i] = Mark
    /\ LET rest == Len(l) - Limit - MarkLen IN
       /\ rest <= Len(line) - Limit
       /\ \A i \in 1 .. rest : l[Limit + MarkLen + i] = line[Len(line) - rest + i]

\* As long as every read stops at a line end, the packets are the container's
\* lines in order, each whole or with the mark where a long one was cut, and at
\* the end none is missing.
LossMarked ==
    ~crossed =>
        /\ \A k \in 1 .. Len(sent) : sent[k] = Line(k) \/ Shortened(sent[k], Line(k))
        /\ Len(sent) >= Cardinality(newlines \cap 1 .. taken)
        /\ thread = "done" /\ Len(sent) <= Cardinality(newlines) =>
               Line(Cardinality(newlines) + 1) = <<>>

\* The packets of a log are the container's output ("Standard output from the
\* container", vmproto/src/guest.rs:30), however the reads cut it.
OutputFaithful ==
    \A k \in 1 .. Len(sent) : sent[k] = Line(k) \/ Shortened(sent[k], Line(k))
=============================================================================
