--------------------------- MODULE PipeToLog_proofs ---------------------------
(***************************************************************************)
(* Proofs about PipeToLog, for every size of the buffer and the mark, every *)
(* length of the output and every choice of its line ends.                 *)
(***************************************************************************)
EXTENDS PipeToLog, FiniteSetTheorems, SequenceTheorems, WellFoundedInduction, TLAPS

-----------------------------------------------------------------------------
(* The inductive invariant *)

\* Types, and the filled part of the buffer has only bytes that were read.
Typed ==
    /\ newlines \subseteq 1 .. Size /\ taken \in 0 .. Size
    /\ buf \in [Cell -> Byte] /\ pos \in Cell
    /\ sent \in Seq(Seq(Byte)) /\ thread \in {"run", "done", "failed"} /\ crossed \in BOOLEAN
Full == \A c \in Cell : c < pos => buf[c] # 0

\* The lines that were sent fit the buffer and have only such bytes.
Clean ==
    \A k \in 1 .. Len(sent) :
        Len(sent[k]) \in Cell /\ \A i \in 1 .. Len(sent[k]) : sent[k][i] # 0

\* While no read went on behind a line end: the lines sent are the ones that
\* ended, and the buffer has the current line, which began behind e, whole or
\* cut at Limit with the mark behind it.
Whole(e) ==
    /\ pos = taken - e /\ pos < Limit
    /\ \A c \in Cell : c < pos => buf[c] = e + 1 + c
Cut(e) ==
    /\ pos = Limit + MarkLen /\ taken - e >= Limit
    /\ \A c \in Cell : c < Limit => buf[c] = e + 1 + c
    /\ \A c \in Cell : Limit <= c /\ c < pos => buf[c] = Mark
Current ==
    \E e \in 0 .. taken :
        /\ e = LineEnd(Len(sent)) /\ newlines \cap (e + 1 .. taken) = {}
        /\ Len(sent) = Cardinality(newlines \cap 1 .. taken)
        /\ Whole(e) \/ Cut(e)

Ordered ==
    ~crossed =>
        /\ LossMarked
        /\ thread = "run" => Current

Inv == Typed /\ Full /\ Clean /\ Ordered

-----------------------------------------------------------------------------
(* Reads *)

\* Cells, bytes and limits.
LEMMA Sizes ==
    /\ BUFFER_SIZE \in Nat /\ Extra \in Nat /\ MarkLen \in Nat /\ Limit \in Nat /\ Size \in Nat
    /\ Limit > 0 /\ MarkLen > 0 /\ Limit + MarkLen <= BUFFER_SIZE /\ Extra > 0
    /\ Limit = BUFFER_SIZE - Extra
    /\ \A c : c \in Cell <=> c \in Nat /\ c < BUFFER_SIZE + Extra
    /\ \A b : b \in Byte <=> b = Mark \/ (b \in Nat /\ b <= Size)
BY SizeAssumption DEF Limit, Cell, Byte

\* Where the next read begins.
LEMMA Start ==
    ASSUME Typed
    PROVE  start \in Cell /\ start <= pos /\ start <= BUFFER_SIZE
BY Sizes DEF Typed, start

\* What a read leaves in the buffer.
LEMMA Filled ==
    ASSUME Typed, Full, NEW n \in Reads
    PROVE  /\ n \in Nat /\ n > 0 /\ taken + n \in 0 .. Size /\ start + n <= BUFFER_SIZE + Extra
           /\ filled(n) \in [Cell -> Byte]
           /\ \A c \in Cell : c < start => filled(n)[c] = buf[c]
           /\ \A c \in Cell : start <= c /\ c < start + n => filled(n)[c] = taken + 1 + (c - start)
           /\ \A c \in Cell : c < start + n => filled(n)[c] # 0
<1>1. n \in Nat /\ n > 0 /\ taken + n \in 0 .. Size /\ start + n <= BUFFER_SIZE + Extra /\ taken \in Nat
  BY Sizes DEF Reads, Typed
<1>2. start \in Nat /\ start <= pos
  BY Start, Sizes
<1>3. ASSUME NEW c \in Cell, c < start PROVE filled(n)[c] = buf[c]
  BY <1>1, <1>2, <1>3, Sizes DEF filled
<1>4. ASSUME NEW c \in Cell, start <= c, c < start + n
      PROVE  filled(n)[c] = taken + 1 + (c - start) /\ taken + 1 + (c - start) \in 1 .. Size
  BY <1>1, <1>2, <1>4, Sizes DEF filled
<1>5. ASSUME NEW c \in Cell, start + n <= c PROVE filled(n)[c] = buf[c]
  BY <1>1, <1>2, <1>5, Sizes DEF filled
<1>6. ASSUME NEW c \in Cell PROVE filled(n)[c] \in Byte
  <2>1. buf[c] \in Byte
    BY DEF Typed
  <2> QED BY <1>1, <1>2, <1>3, <1>4, <1>5, <2>1, Sizes
<1>7. filled(n) \in [Cell -> Byte]
  <2>1. filled(n) = [c \in Cell |-> filled(n)[c]]
    BY DEF filled
  <2> QED BY <1>6, <2>1
<1>8. ASSUME NEW c \in Cell, c < start + n PROVE filled(n)[c] # 0
  <2>1. CASE c < start
    BY <1>2, <1>3, <2>1, Sizes DEF Full, Typed
  <2>2. CASE ~(c < start)
    BY <1>1, <1>2, <1>4, <1>8, <2>2, Sizes
  <2> QED BY <2>1, <2>2
<1> QED BY <1>1, <1>3, <1>4, <1>7, <1>8

\* A set of numbers has a smallest one: the intervals below them are finite
\* sets, which inclusion orders well.
LEMMA Smallest ==
    ASSUME NEW S, S \subseteq Nat, S # {}
    PROVE  \E k \in S : \A j \in S : k <= j
<1> DEFINE T == {0 .. k : k \in S}
<1>1. T \subseteq FiniteSubsetsOf(Nat) /\ T # {}
  <2>1. ASSUME NEW k \in S PROVE 0 .. k \in FiniteSubsetsOf(Nat)
    <3>1. 0 .. k \in SUBSET Nat
      OBVIOUS
    <3>2. IsFiniteSet(0 .. k)
      BY FS_Interval
    <3> QED BY <3>1, <3>2 DEF FiniteSubsetsOf
  <2> QED BY <2>1
<1>2. PICK X \in T : \A Y \in T : ~(<<Y, X>> \in StrictSubsetOrdering(Nat))
  BY <1>1, FS_StrictSubsetOrderingWellFounded, WFMin
<1>3. PICK k \in S : X = 0 .. k
  OBVIOUS
<1>4. ASSUME NEW j \in S PROVE k <= j
  <2>1. SUFFICES ASSUME j < k PROVE FALSE
    OBVIOUS
  <2>2. 0 .. j \in SUBSET Nat /\ 0 .. k \in SUBSET Nat /\ 0 .. j \subseteq 0 .. k
    BY <2>1
  <2>3. k \in 0 .. k /\ k \notin 0 .. j
    BY <2>1
  <2>4. <<0 .. j, 0 .. k>> \in StrictSubsetOrdering(Nat)
    BY <2>2, <2>3 DEF StrictSubsetOrdering
  <2> QED BY <1>2, <1>3, <2>4
<1> QED BY <1>4

\* The first line end of a read.
LEMMA FirstNewline ==
    ASSUME Typed, NEW n \in Nat, newline_indexes(n) # {}
    PROVE  /\ First(newline_indexes(n)) \in 0 .. n - 1
           /\ taken + 1 + First(newline_indexes(n)) \in newlines
           /\ \A k \in 0 .. First(newline_indexes(n)) - 1 : taken + 1 + k \notin newlines
<1>1. newline_indexes(n) \subseteq Nat
  BY DEF newline_indexes
<1>2. PICK S : S = newline_indexes(n)
  OBVIOUS
<1>3. \E k \in S : \A j \in S : k <= j
  BY <1>1, <1>2, Smallest
<1>4. First(S) \in S /\ \A j \in S : First(S) <= j
  BY <1>3 DEF First
<1>5. First(S) \in 0 .. n - 1 /\ taken + 1 + First(S) \in newlines
  BY <1>2, <1>4 DEF newline_indexes
<1>6. ASSUME NEW k \in 0 .. First(S) - 1 PROVE taken + 1 + k \notin newlines
  <2>1. k \in 0 .. n - 1 /\ k \notin S
    BY <1>4, <1>5
  <2> QED BY <1>2, <2>1 DEF newline_indexes
<1> QED BY <1>2, <1>5, <1>6

\* The beginning of a buffer is a line of its bytes.
LEMMA Slice ==
    ASSUME NEW b \in [Cell -> Byte], NEW k \in Nat, k <= BUFFER_SIZE + Extra
    PROVE  /\ slice(b, k) \in Seq(Byte) /\ Len(slice(b, k)) = k
           /\ \A i \in 1 .. k : slice(b, k)[i] = b[i - 1]
<1>1. \A i \in 1 .. k : i - 1 \in Cell
  BY Sizes
<1>2. slice(b, k) \in [1 .. k -> Byte]
  BY <1>1 DEF slice
<1> QED BY <1>2 DEF slice

-----------------------------------------------------------------------------
(* Types and bytes *)

\* A line more in what was sent.
LEMMA Sends ==
    ASSUME Typed, Clean, NEW l \in Seq(Byte), Len(l) \in Cell, sent' = Append(sent, l),
           \A i \in 1 .. Len(l) : l[i] # 0
    PROVE  /\ sent' \in Seq(Seq(Byte)) /\ Len(sent) \in Nat /\ Len(sent') = Len(sent) + 1
           /\ \A k \in 1 .. Len(sent) : sent'[k] = sent[k]
           /\ sent'[Len(sent) + 1] = l
           /\ Clean'
<1>1. sent \in Seq(Seq(Byte)) /\ Len(sent) \in Nat
  BY DEF Typed
<1>2. /\ sent' \in Seq(Seq(Byte)) /\ Len(sent') = Len(sent) + 1
      /\ \A k \in 1 .. Len(sent) : sent'[k] = sent[k]
      /\ sent'[Len(sent) + 1] = l
  BY <1>1
<1>3. ASSUME NEW k \in 1 .. Len(sent')
      PROVE  Len(sent'[k]) \in Cell /\ \A i \in 1 .. Len(sent'[k]) : sent'[k][i] # 0
  <2>1. CASE k = Len(sent) + 1
    BY <1>2, <2>1
  <2>2. CASE k # Len(sent) + 1
    <3>1. k \in 1 .. Len(sent) /\ sent'[k] = sent[k]
      BY <1>1, <1>2, <2>2
    <3> QED BY <3>1 DEF Clean
  <2> QED BY <2>1, <2>2
<1>4. Clean'
  BY <1>3 DEF Clean, Cell
<1> QED BY <1>1, <1>2, <1>4

\* A read with a line end, step by step.
LEMMA LineStep ==
    ASSUME Typed, Full, NEW n, read_line(n)
    PROVE  \E x \in 0 .. n - 1 :
              /\ n \in Reads /\ taken + 1 + x \in newlines
              /\ \A k \in 0 .. x - 1 : taken + 1 + k \notin newlines
              /\ sent' = Append(sent, slice(filled(n), start + x))
              /\ buf' = [c \in Cell |-> IF c < n - x - 2 THEN filled(n)[start + x + 1 + c]
                                                           ELSE filled(n)[c]]
              /\ pos' = n - x - 1 /\ taken' = taken + n
              /\ crossed' = (crossed \/ n - x - 1 > 0)
              /\ UNCHANGED <<newlines, thread>> /\ thread = "run"
<1>1. n \in Reads /\ newline_indexes(n) # {} /\ n \in Nat
  BY Filled DEF read_line
<1>2. PICK x : x = First(newline_indexes(n))
  OBVIOUS
<1>3. /\ x \in 0 .. n - 1 /\ taken + 1 + x \in newlines
      /\ \A k \in 0 .. x - 1 : taken + 1 + k \notin newlines
  BY <1>1, <1>2, FirstNewline
<1>4. /\ sent' = Append(sent, slice(filled(n), start + x))
      /\ buf' = [c \in Cell |-> IF c < n - x - 1 - 1 THEN filled(n)[start + x + 1 + c]
                                                       ELSE filled(n)[c]]
      /\ pos' = n - x - 1 /\ taken' = taken + n
      /\ crossed' = (crossed \/ n - x - 1 > 0)
      /\ UNCHANGED <<newlines, thread>> /\ thread = "run"
  BY <1>2 DEF read_line
<1>5. n - x - 1 - 1 = n - x - 2
  BY <1>1, <1>3
<1> QED BY <1>1, <1>3, <1>4, <1>5

\* The line that it sends fits and has only bytes that were read.
LEMMA SentLine ==
    ASSUME Typed, Full, NEW n \in Reads, NEW x \in 0 .. n - 1
    PROVE  /\ slice(filled(n), start + x) \in Seq(Byte)
           /\ Len(slice(filled(n), start + x)) = start + x /\ start + x \in Cell
           /\ \A i \in 1 .. start + x :
                 slice(filled(n), start + x)[i] = filled(n)[i - 1] /\ i - 1 \in Cell
                    /\ filled(n)[i - 1] # 0
<1>1. /\ n \in Nat /\ start + n <= BUFFER_SIZE + Extra /\ filled(n) \in [Cell -> Byte]
      /\ \A c \in Cell : c < start + n => filled(n)[c] # 0
  BY Filled
<1>2. start \in Nat /\ start + x \in Cell
  BY <1>1, Start, Sizes
<1>3. \A i \in 1 .. start + x : i - 1 \in Cell /\ i - 1 < start + n
  BY <1>1, <1>2, Sizes
<1>4. /\ slice(filled(n), start + x) \in Seq(Byte) /\ Len(slice(filled(n), start + x)) = start + x
      /\ \A i \in 1 .. start + x : slice(filled(n), start + x)[i] = filled(n)[i - 1]
  <2>1. start + x \in Nat /\ start + x <= BUFFER_SIZE + Extra
    BY <1>2, Sizes
  <2> QED BY <1>1, <2>1, Slice
<1> QED BY <1>1, <1>2, <1>3, <1>4

\* A read with a line end stays within the buffer.
LEMMA LineTyped ==
    ASSUME Typed, Full, Clean, NEW n, read_line(n)
    PROVE  Typed' /\ Full' /\ Clean'
<1>1. PICK x \in 0 .. n - 1 :
         /\ n \in Reads
         /\ sent' = Append(sent, slice(filled(n), start + x))
         /\ buf' = [c \in Cell |-> IF c < n - x - 2 THEN filled(n)[start + x + 1 + c]
                                                      ELSE filled(n)[c]]
         /\ pos' = n - x - 1 /\ taken' = taken + n
         /\ crossed' = (crossed \/ n - x - 1 > 0)
         /\ UNCHANGED <<newlines, thread>>
  BY LineStep
<1>2. /\ n \in Nat /\ n > 0 /\ taken + n \in 0 .. Size /\ start + n <= BUFFER_SIZE + Extra
      /\ filled(n) \in [Cell -> Byte] /\ \A c \in Cell : c < start + n => filled(n)[c] # 0
  BY <1>1, Filled
<1>3. start \in Nat
  BY Start, Sizes
<1>4. sent' \in Seq(Seq(Byte)) /\ Clean'
  <2>1. PICK l : l = slice(filled(n), start + x)
    OBVIOUS
  <2>2. l \in Seq(Byte) /\ Len(l) \in Cell /\ \A i \in 1 .. Len(l) : l[i] # 0
    BY <1>1, <2>1, SentLine
  <2> QED BY <1>1, <2>1, <2>2, Sends
<1>5. ASSUME NEW c \in Cell
      PROVE  buf'[c] \in Byte /\ (c < pos' => buf'[c] # 0)
  <2>1. CASE c < n - x - 2
    <3>1. start + x + 1 + c \in Cell /\ start + x + 1 + c < start + n
      BY <1>2, <1>3, <2>1, Sizes
    <3>2. buf'[c] = filled(n)[start + x + 1 + c]
      BY <1>1, <2>1
    <3> QED BY <1>2, <3>1, <3>2
  <2>2. CASE ~(c < n - x - 2)
    <3>1. buf'[c] = filled(n)[c]
      BY <1>1, <2>2
    <3>2. c < pos' => c < start + n
      BY <1>1, <1>2, <1>3, Sizes
    <3> QED BY <1>2, <3>1, <3>2
  <2> QED BY <2>1, <2>2
<1>6. buf' \in [Cell -> Byte]
  <2>1. buf' = [c \in Cell |-> buf'[c]]
    BY <1>1
  <2> QED BY <1>5, <2>1
<1>7. pos' \in Cell
  BY <1>1, <1>2, <1>3, Sizes
<1>8. crossed' \in BOOLEAN
  BY <1>1 DEF Typed
<1>9. Typed'
  BY <1>1, <1>2, <1>4, <1>6, <1>7, <1>8 DEF Typed, Cell, Byte, Mark
<1> QED BY <1>4, <1>5, <1>9 DEF Full, Cell

\* So does a read without one.
LEMMA PartTyped ==
    ASSUME Typed, Full, Clean, NEW n, read_part(n)
    PROVE  Typed' /\ Full' /\ Clean'
<1>1. /\ n \in Reads /\ taken' = taken + n /\ UNCHANGED <<newlines, sent, thread, crossed>>
  BY DEF read_part
<1>2. /\ n \in Nat /\ n > 0 /\ taken + n \in 0 .. Size /\ start + n <= BUFFER_SIZE + Extra
      /\ filled(n) \in [Cell -> Byte] /\ \A c \in Cell : c < start + n => filled(n)[c] # 0
  BY <1>1, Filled
<1>3. start \in Nat
  BY Start, Sizes
<1>4. buf' \in [Cell -> Byte] /\ pos' \in Cell /\ \A c \in Cell : c < pos' => buf'[c] # 0
  <2>1. CASE start + n >= Limit
    <3>1. /\ pos' = Limit + MarkLen
          /\ buf' = [c \in Cell |-> IF c \in Limit .. Limit + MarkLen - 1
                                    THEN Mark ELSE filled(n)[c]]
      BY <2>1 DEF read_part
    <3>2. pos' \in Cell
      BY <3>1, Sizes
    <3>3. ASSUME NEW c \in Cell PROVE buf'[c] \in Byte /\ (c < pos' => buf'[c] # 0)
      <4>1. CASE c \in Limit .. Limit + MarkLen - 1
        BY <3>1, <4>1, Sizes DEF Mark
      <4>2. CASE c \notin Limit .. Limit + MarkLen - 1
        <5>1. buf'[c] = filled(n)[c]
          BY <3>1, <4>2
        <5>2. c < pos' => c < start + n
          BY <1>2, <1>3, <2>1, <3>1, <4>2, Sizes
        <5> QED BY <1>2, <5>1, <5>2
      <4> QED BY <4>1, <4>2
    <3>4. buf' = [c \in Cell |-> buf'[c]]
      BY <3>1
    <3> QED BY <3>2, <3>3, <3>4
  <2>2. CASE ~(start + n >= Limit)
    <3>1. pos' = start + n /\ buf' = filled(n)
      BY <2>2 DEF read_part
    <3>2. pos' \in Cell
      BY <1>2, <1>3, <2>2, <3>1, Sizes
    <3> QED BY <1>2, <3>1, <3>2
  <2> QED BY <2>1, <2>2
<1>5. Typed'
  BY <1>1, <1>2, <1>4 DEF Typed, Cell, Byte, Mark
<1>6. Clean'
  BY <1>1 DEF Clean, Cell
<1> QED BY <1>4, <1>5, <1>6 DEF Full, Cell

\* The last line, and the end of the thread.
LEMMA EndTyped ==
    ASSUME Typed, Full, Clean, read_end \/ read_error \/ UNCHANGED vars
    PROVE  Typed' /\ Full' /\ Clean'
<1>1. start \in Cell /\ start <= pos /\ start \in Nat /\ pos \in Nat
  BY Start, Sizes DEF Typed
<1>2. /\ UNCHANGED <<newlines, taken, buf, crossed>> /\ pos' \in {start, pos}
      /\ thread' \in {"run", "done", "failed"}
  BY DEF read_end, read_error, vars, Typed
<1>3. pos' \in Cell /\ Full'
  BY <1>1, <1>2, Sizes DEF Full, Cell, Typed
<1>4. sent' \in Seq(Seq(Byte)) /\ Clean'
  <2>1. CASE sent' = sent
    BY <2>1 DEF Clean, Cell, Typed
  <2>2. CASE sent' = Append(sent, slice(buf, start))
    <3>1. PICK l : l = slice(buf, start)
      OBVIOUS
    <3>2. /\ l \in Seq(Byte) /\ Len(l) = start
          /\ \A i \in 1 .. start : l[i] = buf[i - 1]
      <4>1. buf \in [Cell -> Byte] /\ start <= BUFFER_SIZE + Extra
        BY <1>1, Sizes DEF Typed
      <4> QED BY <1>1, <3>1, <4>1, Slice
    <3>3. ASSUME NEW i \in 1 .. Len(l) PROVE l[i] # 0
      <4>1. i - 1 \in Cell /\ i - 1 < pos
        BY <1>1, <3>2, Sizes
      <4> QED BY <3>2, <4>1 DEF Full
    <3> QED BY <1>1, <2>2, <3>1, <3>2, <3>3, Sends
  <2> QED BY <2>1, <2>2 DEF read_end, read_error, vars
<1> QED BY <1>2, <1>3, <1>4 DEF Typed, Cell, Byte, Mark

-----------------------------------------------------------------------------
(* Lines *)

\* The lines that end within the first k bytes.
Ended(k) == newlines \cap 1 .. k

\* They are finitely many.
LEMMA Count ==
    ASSUME newlines \subseteq 1 .. Size
    PROVE  /\ IsFiniteSet(newlines) /\ Cardinality(newlines) \in Nat
           /\ \A k : Cardinality(Ended(k)) \in Nat /\ Cardinality(Ended(k)) <= Cardinality(newlines)
                        /\ IsFiniteSet(Ended(k))
<1>1. IsFiniteSet(1 .. Size)
  BY FS_Interval, Sizes
<1>2. IsFiniteSet(newlines) /\ Cardinality(newlines) \in Nat
  BY <1>1, FS_Subset, FS_CardinalityType
<1>3. ASSUME NEW k
      PROVE  Cardinality(Ended(k)) \in Nat /\ Cardinality(Ended(k)) <= Cardinality(newlines)
                /\ IsFiniteSet(Ended(k))
  <2>1. Ended(k) \in SUBSET newlines
    BY DEF Ended
  <2> QED BY <1>2, <2>1, FS_Subset, FS_CardinalityType
<1> QED BY <1>2, <1>3

\* The end of a line is the place of its line end.
LEMMA EndOfLine ==
    ASSUME newlines \subseteq 1 .. Size, NEW e \in newlines
    PROVE  LineEnd(Cardinality(Ended(e))) = e
<1> DEFINE upto(f) == {m \in newlines : m <= f}
<1>1. ASSUME NEW f \in newlines PROVE upto(f) = Ended(f) /\ f \in Nat
  <2>1. f \in Nat /\ \A m \in newlines : m \in Nat /\ m >= 1
    BY Sizes
  <2>2. \A m \in newlines : m <= f <=> m \in 1 .. f
    BY <2>1
  <2> QED BY <2>1, <2>2 DEF Ended
<1>2. /\ Cardinality(Ended(e)) \in Nat /\ Cardinality(Ended(e)) <= Cardinality(newlines)
      /\ Cardinality(newlines) \in Nat
  BY Count
<1>3. Cardinality(Ended(e)) # 0
  <2>1. e \in Ended(e)
    BY Sizes DEF Ended
  <2> QED BY <2>1, Count, FS_EmptySet
<1>4. ASSUME NEW f \in newlines, NEW g \in newlines, f < g
      PROVE  Cardinality(Ended(f)) # Cardinality(Ended(g))
  <2>1. Ended(f) \in SUBSET Ended(g) /\ g \in Ended(g) /\ g \notin Ended(f)
    BY <1>4, Sizes DEF Ended
  <2> QED BY <2>1, Count, FS_Subset
<1>5. ASSUME NEW f \in newlines, Cardinality(upto(f)) = Cardinality(Ended(e)) PROVE f = e
  <2>1. Cardinality(Ended(f)) = Cardinality(Ended(e))
    BY <1>1, <1>5
  <2>2. ~(f < e) /\ ~(e < f)
    BY <1>4, <2>1
  <2> QED BY <1>1, <2>2
<1>6. Cardinality(upto(e)) = Cardinality(Ended(e))
  BY <1>1
<1>7. (CHOOSE f \in newlines : Cardinality({m \in newlines : m <= f}) = Cardinality(Ended(e))) = e
  BY <1>5, <1>6
<1> QED BY <1>2, <1>3, <1>7 DEF LineEnd

\* What the buffer has of the current line, and x bytes read behind it, are
\* that line, or its beginning, the mark and its end.
LEMMA BufferedLine ==
    ASSUME Typed, NEW e \in 0 .. taken, Whole(e) \/ Cut(e),
           NEW b \in [Cell -> Byte], NEW x \in Nat, pos + x <= BUFFER_SIZE + Extra,
           \A c \in Cell : c < pos => b[c] = buf[c],
           \A c \in Cell : pos <= c /\ c < pos + x => b[c] = taken + 1 + (c - pos),
           NEW line, line = [i \in 1 .. taken + x - e |-> e + i]
    PROVE  slice(b, pos + x) = line \/ Shortened(slice(b, pos + x), line)
<1>1. taken \in Nat /\ pos \in Nat /\ e \in Nat /\ e <= taken
  BY Sizes DEF Typed
<1>2. PICK l : l = slice(b, pos + x)
  OBVIOUS
<1>3. /\ Len(l) = pos + x /\ l = [i \in 1 .. pos + x |-> l[i]]
      /\ \A i \in 1 .. pos + x : l[i] = b[i - 1]
  BY <1>1, <1>2, Slice DEF slice
<1>4. \A i \in 1 .. pos + x : i - 1 \in Cell
  BY <1>1, Sizes
<1>5. CASE Whole(e)
  <2>1. pos = taken - e /\ pos + x = taken + x - e
    BY <1>1, <1>5 DEF Whole
  <2>2. ASSUME NEW i \in 1 .. pos + x PROVE l[i] = e + i
    <3>1. CASE i <= pos
      <4>1. i - 1 \in Cell /\ i - 1 < pos
        BY <1>1, <1>4, <3>1
      <4>2. l[i] = e + 1 + (i - 1)
        BY <1>3, <1>5, <4>1 DEF Whole
      <4> QED BY <1>1, <4>2
    <3>2. CASE ~(i <= pos)
      <4>1. i - 1 \in Cell /\ pos <= i - 1 /\ i - 1 < pos + x
        BY <1>1, <1>4, <3>2
      <4>2. l[i] = taken + 1 + (i - 1 - pos)
        BY <1>3, <4>1
      <4> QED BY <1>1, <2>1, <4>2
    <3> QED BY <3>1, <3>2
  <2>3. l = line
    BY <1>3, <2>1, <2>2
  <2> QED BY <1>2, <2>3
<1>6. CASE Cut(e)
  <2>1. pos = Limit + MarkLen /\ taken - e >= Limit
    BY <1>6 DEF Cut
  <2>2. taken + x - e \in Nat
    BY <1>1
  <2>3. Len(line) = taken + x - e /\ \A i \in 1 .. taken + x - e : line[i] = e + i
    BY <2>2
  <2>4. Len(line) >= Limit /\ Len(l) >= Limit + MarkLen
    <3>1. taken + x - e >= Limit /\ pos + x >= Limit + MarkLen
      BY <1>1, <2>1, Sizes
    <3>2. Len(line) = taken + x - e /\ Len(l) = pos + x
      BY <1>3, <2>3
    <3> QED BY <3>1, <3>2
  <2>5. ASSUME NEW i \in 1 .. Limit PROVE l[i] = line[i]
    <3>1. i - 1 \in Cell /\ i - 1 < Limit /\ i - 1 < pos /\ i \in 1 .. pos + x
      BY <1>1, <2>1, Sizes
    <3>2. l[i] = e + 1 + (i - 1)
      BY <1>3, <1>6, <3>1 DEF Cut
    <3>3. i \in 1 .. taken + x - e
      BY <1>1, <2>1, Sizes
    <3> QED BY <1>1, <2>3, <3>2, <3>3
  <2>6. ASSUME NEW i \in Limit + 1 .. Limit + MarkLen PROVE l[i] = Mark
    <3>1. i - 1 \in Cell /\ Limit <= i - 1 /\ i - 1 < pos /\ i \in 1 .. pos + x
      BY <1>1, <2>1, Sizes
    <3> QED BY <1>3, <1>6, <3>1 DEF Cut
  <2>7. Len(l) - Limit - MarkLen = x
    <3>1. Limit \in Nat /\ MarkLen \in Nat /\ Len(l) = Limit + MarkLen + x
      BY <1>3, <2>1, Sizes
    <3> QED BY <3>1
  <2>8. x <= Len(line) - Limit
    BY <1>1, <2>1, <2>3, Sizes
  <2>9. ASSUME NEW i \in 1 .. x PROVE l[Limit + MarkLen + i] = line[Len(line) - x + i]
    <3> DEFINE j == pos + i
    <3>1. j \in 1 .. pos + x /\ pos <= j - 1 /\ j - 1 < pos + x /\ j - 1 - pos = i - 1
      BY <1>1
    <3>2. j - 1 \in Cell
      BY <1>4, <3>1
    <3> HIDE DEF j
    <3>3. l[j] = taken + 1 + (i - 1)
      BY <1>3, <3>1, <3>2
    <3>4. Len(line) - x + i \in 1 .. taken + x - e /\ Len(line) - x + i = taken - e + i
      BY <1>1, <2>3
    <3>5. line[Len(line) - x + i] = e + (taken - e + i)
      BY <2>3, <3>4
    <3>6. taken + 1 + (i - 1) = e + (taken - e + i)
      BY <1>1
    <3>7. Limit + MarkLen + i = j
      BY <2>1 DEF j
    <3> QED BY <3>3, <3>5, <3>6, <3>7
  <2>10. Shortened(l, line)
    BY <2>4, <2>5, <2>6, <2>7, <2>8, <2>9 DEF Shortened
  <2> QED BY <1>2, <2>10
<1> QED BY <1>5, <1>6

\* The next read goes on where the current line ends.
LEMMA StartsBehind ==
    ASSUME Typed, NEW e, Whole(e) \/ Cut(e)
    PROVE  start = pos
BY Sizes DEF Typed, Whole, Cut, start

\* One more line of the output was sent.
LEMMA OneMore ==
    ASSUME Typed, LossMarked, ~crossed, NEW l, sent' = Append(sent, l), newlines' = newlines,
           l = Line(Len(sent) + 1) \/ Shortened(l, Line(Len(sent) + 1))
    PROVE  /\ Len(sent) \in Nat /\ Len(sent') = Len(sent) + 1
           /\ \A k \in 1 .. Len(sent') : sent'[k] = Line(k)' \/ Shortened(sent'[k], Line(k)')
<1>1. sent \in Seq(Seq(Byte)) /\ Len(sent) \in Nat
  BY DEF Typed
<1>2. /\ Len(sent') = Len(sent) + 1 /\ sent'[Len(sent) + 1] = l
      /\ \A k \in 1 .. Len(sent) : sent'[k] = sent[k]
  BY <1>1
<1>3. ASSUME NEW k PROVE LineEnd(k)' = LineEnd(k)
  BY DEF LineEnd
<1>4. ASSUME NEW k PROVE Line(k)' = Line(k)
  BY <1>3 DEF Line
<1>5. ASSUME NEW k \in 1 .. Len(sent') PROVE sent'[k] = Line(k) \/ Shortened(sent'[k], Line(k))
  <2>1. CASE k = Len(sent) + 1
    BY <1>2, <2>1
  <2>2. CASE k # Len(sent) + 1
    <3>1. k \in 1 .. Len(sent)
      BY <1>1, <1>2, <2>2
    <3> QED BY <1>2, <3>1 DEF LossMarked
  <2> QED BY <2>1, <2>2
<1> QED BY <1>1, <1>2, <1>4, <1>5

\* A read that stops at the end of a line sends this line.
LEMMA LineOrdered ==
    ASSUME Inv, NEW n, read_line(n)
    PROVE  Ordered'
<1> SUFFICES ASSUME ~crossed' PROVE LossMarked' /\ Current'
  BY DEF Ordered
<1> USE DEF Inv
<1>1. PICK x \in 0 .. n - 1 :
         /\ n \in Reads /\ taken + 1 + x \in newlines
         /\ \A k \in 0 .. x - 1 : taken + 1 + k \notin newlines
         /\ sent' = Append(sent, slice(filled(n), start + x))
         /\ pos' = n - x - 1 /\ taken' = taken + n
         /\ crossed' = (crossed \/ n - x - 1 > 0)
         /\ UNCHANGED <<newlines, thread>> /\ thread = "run"
  BY LineStep
<1>2. /\ n \in Nat /\ n > 0 /\ taken + n \in 0 .. Size /\ start + n <= BUFFER_SIZE + Extra
      /\ filled(n) \in [Cell -> Byte]
      /\ \A c \in Cell : c < start => filled(n)[c] = buf[c]
      /\ \A c \in Cell : start <= c /\ c < start + n => filled(n)[c] = taken + 1 + (c - start)
  BY <1>1, Filled
<1>3. ~crossed /\ x = n - 1 /\ LossMarked /\ Current
  <2>1. ~crossed /\ ~(n - x - 1 > 0)
    BY <1>1, Zenon
  <2>2. x = n - 1
    BY <1>2, <2>1
  <2> QED BY <1>1, <2>1, <2>2 DEF Ordered
<1>4. PICK e \in 0 .. taken :
         /\ e = LineEnd(Len(sent)) /\ newlines \cap (e + 1 .. taken) = {}
         /\ Len(sent) = Cardinality(newlines \cap 1 .. taken)
         /\ Whole(e) \/ Cut(e)
  BY <1>3 DEF Current
<1>5. taken \in Nat /\ pos \in Nat /\ Len(sent) \in Nat /\ newlines \subseteq 1 .. Size
  BY Sizes DEF Typed
<1>6. PICK z : z = taken + n
  OBVIOUS
<1>7. z \in newlines /\ z \in Nat /\ Ended(z) = Ended(taken) \cup {z} /\ z \notin Ended(taken)
  <2>1. z \in newlines /\ z \in Nat /\ z > taken
    BY <1>1, <1>2, <1>3, <1>5, <1>6
  <2>2. ASSUME NEW m \in newlines, m \in taken + 1 .. z PROVE m = z
    <3>1. m - taken - 1 \in 0 .. n - 1 /\ taken + 1 + (m - taken - 1) = m
      BY <1>2, <1>5, <1>6, <2>2
    <3>2. m - taken - 1 \notin 0 .. x - 1
      BY <1>1, <3>1
    <3> QED BY <1>2, <1>3, <1>5, <1>6, <3>1, <3>2
  <2>3. \A m \in newlines : m \in Nat
    BY <1>5, Sizes
  <2>4. ASSUME NEW m \in newlines
        PROVE  m \in 1 .. z <=> m \in 1 .. taken \/ m = z
    BY <1>5, <2>1, <2>2, <2>3
  <2> QED BY <1>5, <2>1, <2>4 DEF Ended
<1>8. Cardinality(Ended(z)) = Len(sent) + 1
  <2>1. IsFiniteSet(Ended(taken)) /\ Len(sent) = Cardinality(Ended(taken))
    BY <1>4, <1>5, Count DEF Ended
  <2>2. Cardinality(Ended(taken) \cup {z}) =
           IF z \in Ended(taken) THEN Cardinality(Ended(taken)) ELSE Cardinality(Ended(taken)) + 1
    BY <2>1, FS_AddElement
  <2> QED BY <1>7, <2>1, <2>2
<1>9. LineEnd(Len(sent) + 1) = z
  BY <1>5, <1>7, <1>8, EndOfLine
<1>10. PICK l : l = slice(filled(n), start + x)
  OBVIOUS
<1>11. l = Line(Len(sent) + 1) \/ Shortened(l, Line(Len(sent) + 1))
  <2>1. start = pos
    BY <1>4, StartsBehind
  <2>2. Len(sent) + 1 - 1 = Len(sent) /\ z - e - 1 = taken + x - e /\ x \in Nat
    BY <1>2, <1>3, <1>5, <1>6
  <2>3. Line(Len(sent) + 1) = [i \in 1 .. taken + x - e |-> e + i]
    <3>1. Line(Len(sent) + 1) =
             [i \in 1 .. z - LineEnd(Len(sent) + 1 - 1) - 1 |-> LineEnd(Len(sent) + 1 - 1) + i]
      BY <1>9 DEF Line
    <3>2. LineEnd(Len(sent) + 1 - 1) = e
      BY <1>4, <2>2
    <3> QED BY <2>2, <3>1, <3>2
  <2>4. pos + x <= BUFFER_SIZE + Extra /\ \A c \in Cell : c < pos + x => c < start + n
    BY <1>2, <1>3, <1>5, <2>1, Sizes
  <2>5. \A c \in Cell : pos <= c /\ c < pos + x => filled(n)[c] = taken + 1 + (c - pos)
    BY <1>2, <2>1, <2>4
  <2> QED BY <1>2, <1>4, <1>10, <2>1, <2>2, <2>3, <2>4, <2>5, BufferedLine
<1>12. /\ Len(sent') = Len(sent) + 1
       /\ \A k \in 1 .. Len(sent') : sent'[k] = Line(k)' \/ Shortened(sent'[k], Line(k)')
  BY <1>1, <1>3, <1>10, <1>11, OneMore
<1>13. Cardinality(newlines' \cap 1 .. taken') = Len(sent')
  BY <1>1, <1>6, <1>8, <1>12 DEF Ended
<1>14. LossMarked'
  <2>1. thread' # "done"
    BY <1>1
  <2>2. Len(sent') >= Cardinality(newlines' \cap 1 .. taken')
    BY <1>5, <1>12, <1>13
  <2> QED BY <1>12, <2>1, <2>2 DEF LossMarked, Shortened
<1>15. Current'
  <2>1. pos' = 0 /\ taken' = z /\ z \in 0 .. taken'
    BY <1>1, <1>2, <1>3, <1>6, <1>7
  <2>2. z = LineEnd(Len(sent))'
    <3>1. PICK q : q = Len(sent) + 1
      OBVIOUS
    <3>2. LineEnd(q) = z /\ Len(sent') = q /\ newlines' = newlines
      BY <1>1, <1>9, <1>12, <3>1
    <3> QED BY <3>2 DEF LineEnd
  <2>3. newlines' \cap (z + 1 .. taken') = {}
    BY <1>7, <2>1
  <2>4. Whole(z)'
    BY <1>7, <2>1, Sizes DEF Whole, Cell, Limit
  <2> QED BY <1>13, <2>1, <2>2, <2>3, <2>4 DEF Current
<1> QED BY <1>14, <1>15

\* What was sent stays right when nothing more is sent and no line ends.
LEMMA SameLines ==
    ASSUME LossMarked, ~crossed, UNCHANGED <<newlines, sent>>,
           newlines \cap 1 .. taken' = newlines \cap 1 .. taken,
           thread' = "done" => thread = "done"
    PROVE  LossMarked'
<1>1. ASSUME NEW k PROVE LineEnd(k)' = LineEnd(k)
  BY DEF LineEnd
<1>2. ASSUME NEW k PROVE Line(k)' = Line(k)
  BY <1>1 DEF Line
<1>3. ASSUME NEW l, NEW k PROVE Shortened(l, Line(k))' <=> Shortened(l, Line(k))
  BY <1>2 DEF Shortened
<1>4. \A k \in 1 .. Len(sent) : sent[k] = Line(k) \/ Shortened(sent[k], Line(k))
  BY DEF LossMarked
<1>5. \A k \in 1 .. Len(sent') : sent'[k] = Line(k)' \/ Shortened(sent'[k], Line(k)')
  BY <1>2, <1>4
<1>6. thread = "done" /\ Len(sent) <= Cardinality(newlines) => Line(Cardinality(newlines) + 1) = <<>>
  BY DEF LossMarked
<1>7. thread' = "done" /\ Len(sent') <= Cardinality(newlines') =>
         Line(Cardinality(newlines) + 1)' = <<>>
  BY <1>2, <1>6
<1>8. Len(sent') >= Cardinality(newlines' \cap 1 .. taken')
  BY DEF LossMarked
<1> QED BY <1>5, <1>7, <1>8 DEF LossMarked, Shortened

\* A read without a line end belongs to the current line.
LEMMA PartOrdered ==
    ASSUME Inv, NEW n, read_part(n)
    PROVE  Ordered'
<1> SUFFICES ASSUME ~crossed' PROVE LossMarked' /\ Current'
  BY DEF Ordered
<1> USE DEF Inv
<1>1. /\ n \in Reads /\ newline_indexes(n) = {} /\ taken' = taken + n /\ thread = "run"
      /\ UNCHANGED <<newlines, sent, thread, crossed>>
  BY DEF read_part
<1>2. /\ n \in Nat /\ n > 0 /\ taken + n \in 0 .. Size /\ start + n <= BUFFER_SIZE + Extra
      /\ \A c \in Cell : c < start => filled(n)[c] = buf[c]
      /\ \A c \in Cell : start <= c /\ c < start + n => filled(n)[c] = taken + 1 + (c - start)
  BY <1>1, Filled
<1>3. LossMarked /\ Current /\ ~crossed
  BY <1>1 DEF Ordered
<1>4. PICK e \in 0 .. taken :
         /\ e = LineEnd(Len(sent)) /\ newlines \cap (e + 1 .. taken) = {}
         /\ Len(sent) = Cardinality(newlines \cap 1 .. taken)
         /\ Whole(e) \/ Cut(e)
  BY <1>3 DEF Current
<1>5. /\ taken \in Nat /\ pos \in Nat /\ newlines \subseteq 1 .. Size
      /\ e \in Nat /\ e <= taken /\ \A m \in newlines : m \in Nat
  BY Sizes DEF Typed
<1>6. ASSUME NEW m \in newlines PROVE m \notin taken + 1 .. taken + n
  <2>1. SUFFICES ASSUME m \in taken + 1 .. taken + n PROVE FALSE
    OBVIOUS
  <2>2. m - taken - 1 \in 0 .. n - 1 /\ taken + 1 + (m - taken - 1) = m
    BY <1>2, <1>5, <2>1
  <2> QED BY <1>1, <2>2 DEF newline_indexes
<1>7. newlines \cap 1 .. taken' = newlines \cap 1 .. taken
  <2>1. \A m \in newlines : m \in 1 .. taken + n <=> m \in 1 .. taken
    BY <1>2, <1>5, <1>6
  <2> QED BY <1>1, <2>1
<1>8. newlines \cap (e + 1 .. taken') = {}
  <2>1. \A m \in newlines : m \in e + 1 .. taken + n => m \in e + 1 .. taken
    BY <1>2, <1>5, <1>6
  <2> QED BY <1>1, <1>4, <2>1
<1>9. LossMarked'
  BY <1>1, <1>3, <1>7, SameLines
<1>10. start = pos
  BY <1>4, StartsBehind
<1>11. Whole(e)' \/ Cut(e)'
  <2>1. CASE ~(start + n >= Limit)
    <3>1. pos' = pos + n /\ buf' = filled(n) /\ pos + n < Limit
      BY <1>2, <1>5, <1>10, <2>1, Sizes DEF read_part
    <3>2. Whole(e)
      BY <1>2, <1>4, <1>5, <3>1, Sizes DEF Cut
    <3>3. ASSUME NEW c \in Cell, c < pos + n PROVE buf'[c] = e + 1 + c
      <4>1. CASE c < pos
        BY <1>2, <1>10, <3>1, <3>2, <4>1 DEF Whole
      <4>2. CASE ~(c < pos)
        <5>1. buf'[c] = taken + 1 + (c - pos)
          BY <1>2, <1>5, <1>10, <3>1, <3>3, <4>2, Sizes
        <5>2. pos = taken - e
          BY <3>2 DEF Whole
        <5> QED BY <1>5, <5>1, <5>2, Sizes
      <4> QED BY <4>1, <4>2
    <3>4. pos' = taken' - e
      BY <1>1, <1>2, <1>5, <3>1, <3>2 DEF Whole
    <3> QED BY <3>1, <3>3, <3>4 DEF Whole, Cell, Limit
  <2>2. CASE start + n >= Limit
    <3>1. /\ pos' = Limit + MarkLen
          /\ buf' = [c \in Cell |-> IF c \in Limit .. Limit + MarkLen - 1
                                    THEN Mark ELSE filled(n)[c]]
      BY <2>2 DEF read_part
    <3>2. taken' - e >= Limit
      BY <1>1, <1>2, <1>4, <1>5, <1>10, <2>2, Sizes DEF Whole, Cut
    <3>3. ASSUME NEW c \in Cell, c < Limit PROVE buf'[c] = e + 1 + c
      <4>1. buf'[c] = filled(n)[c]
        BY <3>1, <3>3, Sizes
      <4>2. CASE c < pos
        <5>1. filled(n)[c] = buf[c]
          BY <1>2, <1>10, <4>2
        <5> QED BY <1>4, <3>3, <4>1, <4>2, <5>1 DEF Whole, Cut
      <4>3. CASE ~(c < pos)
        <5>1. pos = taken - e
          BY <1>4, <1>5, <3>3, <4>3, Sizes DEF Whole, Cut
        <5>2. filled(n)[c] = taken + 1 + (c - pos)
          BY <1>2, <1>5, <1>10, <2>2, <3>3, <4>3, Sizes
        <5> QED BY <1>5, <4>1, <5>1, <5>2, Sizes
      <4> QED BY <4>2, <4>3
    <3>4. ASSUME NEW c \in Cell, Limit <= c, c < pos' PROVE buf'[c] = Mark
      <4>1. c \in Limit .. Limit + MarkLen - 1
        BY <3>1, <3>4, Sizes
      <4> QED BY <3>1, <4>1
    <3> QED BY <3>1, <3>2, <3>3, <3>4 DEF Cut, Cell, Limit, Mark
  <2> QED BY <2>1, <2>2
<1>12. Current'
  <2>1. LineEnd(Len(sent))' = LineEnd(Len(sent))
    BY <1>1 DEF LineEnd
  <2>2. e \in 0 .. taken'
    BY <1>1, <1>2, <1>5
  <2> QED BY <1>1, <1>4, <1>7, <1>8, <1>11, <2>1, <2>2 DEF Current
<1> QED BY <1>9, <1>12

\* At the end of the pipe the last line is sent, unless it is empty.
LEMMA EndOrdered ==
    ASSUME Inv, read_end
    PROVE  Ordered'
<1> SUFFICES ASSUME ~crossed' PROVE LossMarked'
  BY DEF Ordered, read_end
<1> USE DEF Inv
<1>1. /\ thread = "run" /\ thread' = "done" /\ taken = Size
      /\ sent' = IF start > 0 THEN Append(sent, slice(buf, start)) ELSE sent
      /\ UNCHANGED <<newlines, taken, buf, crossed>>
  BY DEF read_end
<1>2. LossMarked /\ Current /\ ~crossed
  BY <1>1 DEF Ordered
<1>3. PICK e \in 0 .. taken :
         /\ e = LineEnd(Len(sent)) /\ Len(sent) = Cardinality(newlines \cap 1 .. taken)
         /\ Whole(e) \/ Cut(e)
  BY <1>2 DEF Current
<1>4. /\ taken \in Nat /\ pos \in Nat /\ e \in Nat /\ e <= taken /\ Len(sent) \in Nat
      /\ newlines \subseteq 1 .. Size /\ buf \in [Cell -> Byte] /\ start = pos
  BY <1>3, StartsBehind, Sizes DEF Typed
<1>5. newlines \cap 1 .. taken = newlines /\ Len(sent) = Cardinality(newlines)
  BY <1>1, <1>3, <1>4
<1>6. LineEnd(Len(sent) + 1) = Size + 1
  <2>1. Len(sent) + 1 # 0 /\ Len(sent) + 1 > Cardinality(newlines)
    BY <1>4, <1>5
  <2> QED BY <2>1 DEF LineEnd
<1>7. Line(Len(sent) + 1) = [i \in 1 .. taken + 0 - e |-> e + i]
  <2>1. PICK z : z = Size + 1
    OBVIOUS
  <2>2. Line(Len(sent) + 1) =
           [i \in 1 .. z - LineEnd(Len(sent) + 1 - 1) - 1 |-> LineEnd(Len(sent) + 1 - 1) + i]
    BY <1>6, <2>1 DEF Line
  <2>3. Len(sent) + 1 - 1 = Len(sent) /\ z - e - 1 = taken + 0 - e
    BY <1>1, <1>4, <2>1
  <2>4. LineEnd(Len(sent) + 1 - 1) = e
    BY <1>3, <2>3
  <2> QED BY <2>2, <2>3, <2>4
<1>8. CASE start > 0
  <2>1. PICK l : l = slice(buf, start)
    OBVIOUS
  <2>2. pos + 0 <= BUFFER_SIZE + Extra /\ pos + 0 = pos
        /\ \A c \in Cell : pos <= c /\ c < pos + 0 => FALSE
    BY <1>4, Sizes DEF Typed
  <2>3. l = Line(Len(sent) + 1) \/ Shortened(l, Line(Len(sent) + 1))
    <3>1. PICK x \in Nat : x = 0
      OBVIOUS
    <3>2. /\ slice(buf, pos + x) = l /\ pos + x <= BUFFER_SIZE + Extra
          /\ \A c \in Cell : ~(pos <= c /\ c < pos + x)
      BY <1>4, <2>1, <2>2, <3>1
    <3>3. Line(Len(sent) + 1) = [i \in 1 .. taken + x - e |-> e + i]
      BY <1>7, <3>1
    <3>4. PICK line : line = Line(Len(sent) + 1)
      OBVIOUS
    <3>5. slice(buf, pos + x) = line \/ Shortened(slice(buf, pos + x), line)
      BY <1>3, <1>4, <3>2, <3>3, <3>4, BufferedLine
    <3> QED BY <3>2, <3>4, <3>5
  <2>4. /\ Len(sent') = Len(sent) + 1
        /\ \A k \in 1 .. Len(sent') : sent'[k] = Line(k)' \/ Shortened(sent'[k], Line(k)')
    BY <1>1, <1>2, <1>8, <2>1, <2>3, OneMore
  <2>5. /\ Len(sent') >= Cardinality(newlines' \cap 1 .. taken')
        /\ ~(Len(sent') <= Cardinality(newlines'))
    <3>1. newlines' \cap 1 .. taken' = newlines \cap 1 .. taken /\ newlines' = newlines
      BY <1>1
    <3>2. /\ Cardinality(newlines' \cap 1 .. taken') = Len(sent)
          /\ Cardinality(newlines') = Len(sent)
      BY <1>5, <3>1
    <3> QED BY <1>4, <2>4, <3>2
  <2> QED BY <2>4, <2>5 DEF LossMarked, Shortened
<1>9. CASE ~(start > 0)
  <2>1. pos = 0 /\ sent' = sent /\ taken = e
    BY <1>1, <1>3, <1>4, <1>9, Sizes DEF Whole, Cut
  <2>2. Line(Len(sent) + 1) = <<>>
    BY <1>4, <1>7, <2>1
  <2>3. ASSUME NEW k PROVE LineEnd(k)' = LineEnd(k)
    BY <1>1 DEF LineEnd
  <2>4. ASSUME NEW k PROVE Line(k)' = Line(k)
    BY <2>3 DEF Line
  <2>5. \A k \in 1 .. Len(sent') : sent'[k] = Line(k)' \/ Shortened(sent'[k], Line(k)')
    BY <1>2, <2>1, <2>4 DEF LossMarked
  <2>6. Line(Cardinality(newlines) + 1)' = <<>>
    BY <1>1, <1>5, <2>2, <2>4
  <2>7. Len(sent') >= Cardinality(newlines' \cap 1 .. taken')
    <3>1. newlines' \cap 1 .. taken' = newlines \cap 1 .. taken
      BY <1>1
    <3>2. Cardinality(newlines' \cap 1 .. taken') = Len(sent)
      BY <1>5, <3>1
    <3> QED BY <1>4, <2>1, <3>2
  <2> QED BY <2>5, <2>6, <2>7 DEF LossMarked, Shortened
<1> QED BY <1>8, <1>9

-----------------------------------------------------------------------------
(* Theorems *)

\* The invariant holds at the start.
LEMMA InitInv == Init => Inv
<1> SUFFICES ASSUME Init PROVE Inv
  OBVIOUS
<1>1. /\ sent = <<>> /\ Len(sent) = 0 /\ taken = 0 /\ pos = 0 /\ thread = "run" /\ ~crossed
      /\ newlines \subseteq 1 .. Size /\ buf = [c \in Cell |-> 0]
  BY DEF Init
<1>2. Typed
  <2>1. 0 \in Cell /\ 0 \in Byte /\ 0 \in 0 .. Size
    BY Sizes
  <2>2. buf \in [Cell -> Byte] /\ sent \in Seq(Seq(Byte))
    BY <1>1, <2>1
  <2> QED BY <1>1, <2>1, <2>2 DEF Typed
<1>3. Full /\ Clean
  BY <1>1, Sizes DEF Full, Clean
<1>4. Cardinality(newlines \cap 1 .. taken) = 0
  <2>1. newlines \cap 1 .. taken = {}
    BY <1>1
  <2> QED BY <2>1, FS_EmptySet
<1>5. LossMarked
  BY <1>1, <1>4 DEF LossMarked
<1>6. Current
  <2>1. 0 \in 0 .. taken /\ LineEnd(Len(sent)) = 0
    BY <1>1 DEF LineEnd
  <2>2. Whole(0)
    BY <1>1, Sizes DEF Whole
  <2>3. newlines \cap (0 + 1 .. taken) = {}
    BY <1>1
  <2> QED BY <1>1, <1>4, <2>1, <2>2, <2>3 DEF Current
<1> QED BY <1>2, <1>3, <1>5, <1>6 DEF Inv, Ordered

\* And every step keeps it.
LEMMA NextInv == Inv /\ [Next]_vars => Inv'
<1> SUFFICES ASSUME Inv, [Next]_vars PROVE Inv'
  OBVIOUS
<1>1. ASSUME NEW n \in 1 .. Size, read_line(n) PROVE Inv'
  BY <1>1, LineTyped, LineOrdered DEF Inv
<1>2. ASSUME NEW n \in 1 .. Size, read_part(n) PROVE Inv'
  BY <1>2, PartTyped, PartOrdered DEF Inv
<1>3. CASE read_end
  BY <1>3, EndTyped, EndOrdered DEF Inv
<1>4. CASE read_error
  <2>1. UNCHANGED <<newlines, taken, sent, crossed>> /\ thread' = "failed"
    BY <1>4 DEF read_error
  <2>2. Ordered'
    BY <2>1, SameLines DEF Inv, Ordered
  <2> QED BY <1>4, <2>2, EndTyped DEF Inv
<1>5. CASE UNCHANGED vars
  <2>1. UNCHANGED <<newlines, taken, buf, pos, sent, thread, crossed>>
    BY <1>5 DEF vars
  <2>2. LineEnd(Len(sent))' = LineEnd(Len(sent))
    BY <2>1 DEF LineEnd
  <2>3. Current => Current'
    BY <2>1, <2>2 DEF Current, Whole, Cut, Cell, Limit, Mark
  <2>4. Ordered'
    BY <2>1, <2>3, SameLines DEF Inv, Ordered
  <2> QED BY <1>5, <2>4, EndTyped DEF Inv
<1> QED BY <1>1, <1>2, <1>3, <1>4, <1>5 DEF Next, Terminated

\* The invariant of buffer and lines.
THEOREM Invariance == Spec => []Inv
BY InitInv, NextInv, PTL DEF Spec

\* No read, move or cut leaves the buffer, whatever its size: spawn_pipe_to_log
\* neither panics on a slice nor ends on a read into no room.
THEOREM TypeCorrect == Spec => []TypeOK
<1>1. Inv => TypeOK
  BY DEF Inv, Typed, Clean, TypeOK
<1> QED BY <1>1, Invariance, PTL

\* No line has a byte that was never written into the buffer: zeros of its
\* initial contents are not sent.  It may have old bytes, which were.
THEOREM OutputSafety == Spec => []OnlyOutput
<1>1. Inv => OnlyOutput
  BY DEF Inv, Clean, OnlyOutput
<1> QED BY <1>1, Invariance, PTL

\* Where reads stop at line ends, the packets are the container's lines, cut
\* ones with the mark, and none is missing at the end.
THEOREM LossSafety == Spec => []LossMarked
<1>1. Inv => LossMarked
  BY DEF Inv, Ordered, LossMarked
<1> QED BY <1>1, Invariance, PTL
=============================================================================
