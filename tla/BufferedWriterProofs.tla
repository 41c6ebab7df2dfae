------------------------ MODULE BufferedWriterProofs ------------------------
(***************************************************************************)
(* As long as no call returned an error, what stdio took, what is buffered *)
(* and what the call under way still has to buffer are consecutive runs of *)
(* the bytes that were written.  The log and its sizes follow from that.   *)
(***************************************************************************)
EXTENDS BufferedWriter, SequenceTheorems, TLAPS

\* The bytes behind the first a, in order.
Run(s, a) == \A k \in 1..Len(s) : s[k] = a + k

SeqsOK ==
  /\ buffer \in Seq(Nat) /\ file \in Seq(Nat) /\ data \in Seq(Nat)
  /\ total_written \in Nat /\ given \in Nat /\ Len(buffer) <= BufferSize
  /\ state \in {"open", "closed"}

RunsOK ==
  ~failed =>
    /\ Run(file, 0) /\ Run(buffer, Len(file)) /\ Run(data, Len(file) + Len(buffer))
    /\ total_written = Len(file)
    /\ given = Len(file) + Len(buffer) + Len(data) /\ given <= MaxBytes

ClosedOK ==
  ~failed /\ state = "closed" => disk = file /\ buffer = << >> /\ data = << >>

IInv == SeqsOK /\ RunsOK /\ ClosedOK /\ failed \in BOOLEAN

(***************************************************************************)
(* Sequences                                                               *)
(***************************************************************************)
\* The constants the arithmetic is about.
LEMMA Constants == BufferSize \in Nat \ {0} /\ MaxBytes \in Nat /\ Lengths \subseteq Nat \ {0}
BY WriterAssumption

\* Two consecutive runs are one.
LEMMA Joined ==
  ASSUME NEW s \in Seq(Nat), NEW t \in Seq(Nat), NEW a \in Nat
  PROVE  /\ s \o t \in Seq(Nat) /\ Len(s \o t) = Len(s) + Len(t)
         /\ Run(s, a) /\ Run(t, a + Len(s)) => Run(s \o t, a)
<1>1. /\ s \o t \in Seq(Nat) /\ Len(s \o t) = Len(s) + Len(t)
      /\ \A i \in 1 .. Len(s) + Len(t) : (s \o t)[i] =
            IF i <= Len(s) THEN s[i] ELSE t[i - Len(s)]
  BY ConcatProperties
<1>2. Len(s) \in Nat /\ Len(t) \in Nat
  OBVIOUS
<1>3. ASSUME Run(s, a), Run(t, a + Len(s)), NEW i \in 1..Len(s \o t)
      PROVE  (s \o t)[i] = a + i
  <2>1. i \in 1..(Len(s) + Len(t)) /\ i \in Nat
    BY <1>1, <1>2
  <2>2. CASE i <= Len(s)
    BY <1>1, <1>2, <1>3, <2>1, <2>2 DEF Run
  <2>3. CASE ~(i <= Len(s))
    <3>1. i - Len(s) \in 1..Len(t)
      BY <1>2, <2>1, <2>3
    <3>2. t[i - Len(s)] = (a + Len(s)) + (i - Len(s))
      BY <1>3, <3>1 DEF Run
    <3> QED
      BY <1>1, <1>2, <2>1, <2>3, <3>2
  <2> QED
    BY <2>2, <2>3
<1> QED
  BY <1>1, <1>3 DEF Run

\* A run splits into two.
LEMMA Split ==
  ASSUME NEW s \in Seq(Nat), NEW n \in 0..Len(s), NEW a \in Nat
  PROVE  LET head == SubSeq(s, 1, n)
             tail == SubSeq(s, n + 1, Len(s))
         IN /\ head \in Seq(Nat) /\ Len(head) = n
            /\ tail \in Seq(Nat) /\ Len(tail) = Len(s) - n
            /\ Run(s, a) => Run(head, a) /\ Run(tail, a + n)
<1> DEFINE head == SubSeq(s, 1, n)
           tail == SubSeq(s, n + 1, Len(s))
<1>1. Len(s) \in Nat /\ n \in Nat /\ n <= Len(s)
  OBVIOUS
<1>2. head \in Seq(Nat) /\ Len(head) = n /\ \A k \in 1..n : head[k] = s[k]
  BY <1>1
<1>3. /\ tail \in Seq(Nat) /\ Len(tail) = Len(s) - n
      /\ \A k \in 1..(Len(s) - n) : tail[k] = s[n + k]
  <2>1. \A k \in (n + 1)..Len(s) : s[k] \in Nat
    BY <1>1
  <2>2. /\ tail \in Seq(Nat)
        /\ Len(tail) = IF n + 1 <= Len(s) THEN Len(s) - (n + 1) + 1 ELSE 0
        /\ \A k \in 1..(Len(s) - (n + 1) + 1) : tail[k] = s[(n + 1) + k - 1]
    BY <1>1, <2>1, SubSeqProperties
  <2> HIDE DEF tail
  <2> QED
    BY <1>1, <2>2
<1> HIDE DEF head, tail
<1>4. ASSUME Run(s, a) PROVE Run(head, a) /\ Run(tail, a + n)
  <2>1. \A k \in 1..n : k \in 1..Len(s)
    BY <1>1
  <2>2. \A k \in 1..(Len(s) - n) : n + k \in 1..Len(s) /\ a + (n + k) = (a + n) + k
    BY <1>1
  <2>3. Run(head, a)
    BY <1>2, <1>4, <2>1 DEF Run
  <2>4. Run(tail, a + n)
    BY <1>3, <1>4, <2>2 DEF Run
  <2> QED
    BY <2>3, <2>4
<1> QED
  BY <1>2, <1>3, <1>4 DEF head, tail

\* A run from the first byte is that many bytes, numbered.
LEMMA RunIsNumbered ==
  ASSUME NEW s \in Seq(Nat), Run(s, 0)
  PROVE  s = [k \in 1..Len(s) |-> k] /\ s = Log!Numbered(0, Len(s))
<1>1. Len(s) \in Nat /\ DOMAIN s = 1..Len(s) /\ s = [k \in 1..Len(s) |-> s[k]]
  OBVIOUS
<1>2. \A k \in 1..Len(s) : s[k] = k /\ s[k] = 0 + k
  BY DEF Run
<1>3. Len(s) - 0 = Len(s)
  BY <1>1
<1> QED
  BY <1>1, <1>2, <1>3 DEF Log!Numbered

(***************************************************************************)
(* Steps                                                                   *)
(***************************************************************************)
\* What a step that succeeds does to the log: it grows, and so does what
\* stdio took of it, or the writer is closed with all of it.
Grown ==
  /\ state = "open" /\ state' = "open"
  /\ Len(file) <= Len(file') /\ Len(file) + Len(buffer) <= Len(file') + Len(buffer')

Closed ==
  /\ state = "open" /\ state' = "closed"
  /\ file' = file \o buffer /\ buffer' = << >> /\ disk' = file'

Effect == IInv' /\ (failed => failed') /\ (failed' \/ Grown \/ Closed)

\* The lengths of the sequences, as numbers.
LEMMA SequenceLengths ==
  ASSUME IInv
  PROVE  /\ Len(buffer) \in Nat /\ Len(file) \in Nat /\ Len(data) \in Nat
         /\ space \in Nat /\ space = BufferSize - Len(buffer)
BY Constants DEF IInv, SeqsOK, space

\* An error is returned: only the shape of the sequences is left.
LEMMA ErrorKeeps ==
  ASSUME IInv, Returns("IO"), SeqsOK'
  PROVE  Effect
<1>1. failed' = TRUE
  BY DEF Returns
<1> QED
  BY <1>1 DEF Effect, IInv, RunsOK, ClosedOK

\* A failing flush takes some of the bytes.
LEMMA FlushFailsTypes ==
  ASSUME NEW b \in Seq(Nat), file \in Seq(Nat), total_written \in Nat, flush_fails(b)
  PROVE  file' \in Seq(Nat) /\ buffer' = b /\ total_written' \in Nat
<1>1. PICK taken \in Partly(b) : file' = file \o taken
  BY DEF flush_fails
<1>2. PICK k \in 0..Len(b) - 1 : taken = SubSeq(b, 1, k)
  BY <1>1 DEF Partly
<1>3. k \in 0..Len(b)
  BY <1>2
<1>4. taken \in Seq(Nat)
  BY <1>2, <1>3, Split, 0 \in Nat
<1> QED
  BY <1>1, <1>4, ConcatProperties DEF flush_fails

\* What is buffered when the buffer is filled up.
LEMMA FilledBuffer ==
  ASSUME IInv, Len(data) > space
  PROVE  /\ Filled \in Seq(Nat) /\ Len(Filled) = BufferSize
         /\ SubSeq(data, space + 1, Len(data)) \in Seq(Nat)
         /\ Len(SubSeq(data, space + 1, Len(data))) = Len(data) - space
         /\ ~failed => /\ Run(Filled, Len(file))
                       /\ Run(SubSeq(data, space + 1, Len(data)), Len(file) + BufferSize)
<1>1. /\ Len(buffer) \in Nat /\ Len(file) \in Nat /\ Len(data) \in Nat
      /\ space \in Nat /\ space = BufferSize - Len(buffer) /\ BufferSize \in Nat
  BY SequenceLengths, Constants
<1>2. buffer \in Seq(Nat) /\ data \in Seq(Nat)
  BY DEF IInv, SeqsOK
<1>3. space \in 0..Len(data)
  BY <1>1
<1> DEFINE h == SubSeq(data, 1, space)
           t == SubSeq(data, space + 1, Len(data))
           a == Len(file) + Len(buffer)
<1>4. a \in Nat /\ a + space = Len(file) + BufferSize
  BY <1>1
<1>5. /\ h \in Seq(Nat) /\ Len(h) = space /\ t \in Seq(Nat) /\ Len(t) = Len(data) - space
      /\ Run(data, a) => Run(h, a) /\ Run(t, a + space)
  BY <1>2, <1>3, <1>4, Split
<1> HIDE DEF h, t
<1>6. /\ buffer \o h \in Seq(Nat) /\ Len(buffer \o h) = Len(buffer) + Len(h)
      /\ Run(buffer, Len(file)) /\ Run(h, a) => Run(buffer \o h, Len(file))
  BY <1>1, <1>2, <1>5, Joined
<1>7. Len(buffer) + Len(h) = BufferSize
  BY <1>1, <1>5
<1>8. ~failed => Run(buffer, Len(file)) /\ Run(data, a)
  BY DEF IInv, RunsOK
<1> QED
  BY <1>4, <1>5, <1>6, <1>7, <1>8 DEF Filled, h, t

\* A flush that succeeds moves a run from the buffer to the file.
LEMMA Flushed ==
  ASSUME IInv, NEW b \in Seq(Nat), flush(b)
  PROVE  /\ file' \in Seq(Nat) /\ Len(file') = Len(file) + Len(b) /\ Len(file') \in Nat
         /\ buffer' = << >> /\ buffer' \in Seq(Nat) /\ Len(buffer') = 0
         /\ total_written' \in Nat
         /\ ~failed => total_written' = Len(file')
         /\ ~failed /\ Run(b, Len(file)) => Run(file', 0)
<1>1. file \in Seq(Nat) /\ total_written \in Nat /\ Len(b) \in Nat /\ Len(file) \in Nat
  BY DEF IInv, SeqsOK
<1>2. file' = file \o b /\ total_written' = total_written + Len(b) /\ buffer' = << >>
  BY DEF flush
<1>3. 0 + Len(file) = Len(file)
  BY <1>1
<1>4. /\ file \o b \in Seq(Nat) /\ Len(file \o b) = Len(file) + Len(b)
      /\ Run(file, 0) /\ Run(b, Len(file)) => Run(file \o b, 0)
  BY <1>1, <1>3, Joined, 0 \in Nat
<1>5. ~failed => Run(file, 0) /\ total_written = Len(file)
  BY DEF IInv, RunsOK
<1>6. /\ file' \in Seq(Nat) /\ Len(file') = Len(file) + Len(b) /\ Len(file') \in Nat
      /\ buffer' = << >> /\ buffer' \in Seq(Nat) /\ Len(buffer') = 0
      /\ total_written' \in Nat
  BY <1>1, <1>2, <1>4
<1>7. ~failed => total_written' = Len(file')
  BY <1>1, <1>2, <1>5, <1>6
<1>8. ~failed /\ Run(b, Len(file)) => Run(file', 0)
  BY <1>2, <1>4, <1>5, Zenon
<1> QED
  BY <1>6, <1>7, <1>8, Zenon

\* Nothing is a run.
LEMMA EmptyRun == ASSUME NEW a PROVE Run(<< >>, a)
BY DEF Run

\* A call begins.
LEMMA WriteKeeps == ASSUME IInv, NEW n \in Lengths, Write(n) PROVE Effect
<1>1. /\ state = "open" /\ data = << >> /\ n \in Nat /\ given + n <= MaxBytes
      /\ data' = [k \in 1..n |-> given + k] /\ given' = given + n
      /\ UNCHANGED <<buffer, total_written, file, disk, state, failed>>
  BY Constants DEF Write, Idle
<1>2. /\ given \in Nat /\ Len(buffer) \in Nat /\ Len(file) \in Nat /\ Len(data) = 0
  BY <1>1, SequenceLengths DEF IInv, SeqsOK
<1>3. data' \in Seq(Nat) /\ Len(data') = n /\ Run(data', given)
  BY <1>1, <1>2 DEF Run
<1>4. SeqsOK'
  BY <1>1, <1>2, <1>3 DEF IInv, SeqsOK
<1>5. ~failed => given = Len(file) + Len(buffer)
  BY <1>2 DEF IInv, RunsOK
<1>6. RunsOK'
  BY <1>1, <1>2, <1>3, <1>5 DEF IInv, RunsOK
<1> QED
  BY <1>1, <1>2, <1>4, <1>6 DEF Effect, IInv, ClosedOK, Grown

\* The rest of the data fits.
LEMMA WriteFitsKeeps == ASSUME IInv, WriteFits PROVE Effect
<1>1. /\ data # << >> /\ Len(data) <= space /\ buffer' = buffer \o data /\ data' = << >>
      /\ UNCHANGED <<total_written, file, disk, given, state>>
  BY DEF WriteFits
<1>2. failed' = failed
  BY Zenon DEF WriteFits, Returns, IInv
<1>3. /\ Len(buffer) \in Nat /\ Len(file) \in Nat /\ Len(data) \in Nat
      /\ space = BufferSize - Len(buffer) /\ BufferSize \in Nat
  BY SequenceLengths, Constants
<1>4. /\ buffer' \in Seq(Nat) /\ Len(buffer') = Len(buffer) + Len(data)
      /\ ~failed => Run(buffer', Len(file))
  BY <1>1, <1>3, Joined DEF IInv, SeqsOK, RunsOK
<1>5. data' \in Seq(Nat) /\ Len(data') = 0 /\ Run(data', Len(file') + Len(buffer'))
  BY <1>1 DEF Run
<1>6. SeqsOK'
  BY <1>1, <1>3, <1>4, <1>5 DEF IInv, SeqsOK
<1>7. RunsOK'
  BY <1>1, <1>2, <1>3, <1>4, <1>5 DEF IInv, RunsOK
<1>8. ~failed => state = "open"
  BY <1>1 DEF IInv, ClosedOK, SeqsOK
<1>9. ClosedOK'
  BY <1>1, <1>2, <1>8 DEF ClosedOK
<1>10. ~failed => Grown
  BY <1>1, <1>3, <1>4, <1>8 DEF Grown
<1> QED
  BY <1>2, <1>6, <1>7, <1>9, <1>10 DEF Effect, IInv

\* The buffer is filled up and flushed.
LEMMA WriteFillsKeeps == ASSUME IInv, WriteFills PROVE Effect
<1> DEFINE t == SubSeq(data, space + 1, Len(data))
<1>1. /\ Len(data) > space /\ flush(Filled) /\ data' = t
      /\ UNCHANGED <<disk, given, state, failed>>
  BY DEF WriteFills
<1>2. /\ Len(buffer) \in Nat /\ Len(file) \in Nat /\ Len(data) \in Nat /\ space \in Nat
      /\ space = BufferSize - Len(buffer) /\ BufferSize \in Nat
  BY SequenceLengths, Constants
<1>3. /\ Filled \in Seq(Nat) /\ Len(Filled) = BufferSize
      /\ t \in Seq(Nat) /\ Len(t) = Len(data) - space
      /\ ~failed => Run(Filled, Len(file)) /\ Run(t, Len(file) + BufferSize)
  BY <1>1, FilledBuffer
<1> HIDE DEF t
<1>4. /\ file' \in Seq(Nat) /\ Len(file') = Len(file) + BufferSize /\ Len(file') \in Nat
      /\ buffer' = << >> /\ buffer' \in Seq(Nat) /\ Len(buffer') = 0
      /\ total_written' \in Nat
      /\ ~failed => total_written' = Len(file') /\ Run(file', 0)
  BY <1>1, <1>3, Flushed
<1>5. SeqsOK'
  BY <1>1, <1>2, <1>3, <1>4 DEF IInv, SeqsOK
<1>6. ASSUME ~failed
      PROVE  /\ Run(buffer', Len(file')) /\ Run(data', Len(file') + Len(buffer'))
             /\ given' = Len(file') + Len(buffer') + Len(data') /\ given' <= MaxBytes
  <2>1. given = Len(file) + Len(buffer) + Len(data) /\ given <= MaxBytes
    BY <1>6 DEF IInv, RunsOK
  <2>2. Len(file') + Len(buffer') = Len(file) + BufferSize
    BY <1>2, <1>4
  <2> QED
    BY <1>1, <1>2, <1>3, <1>4, <1>6, <2>1, <2>2, EmptyRun
<1>7. RunsOK'
  BY <1>1, <1>4, <1>6 DEF RunsOK
<1>8. ~failed => state = "open"
  <2>1. data # << >>
    BY <1>1, <1>2
  <2> QED
    BY <2>1 DEF IInv, ClosedOK, SeqsOK
<1>9. ClosedOK'
  BY <1>1, <1>8 DEF ClosedOK
<1>10. ~failed => Grown
  BY <1>1, <1>2, <1>4, <1>8 DEF Grown, IInv, SeqsOK
<1> QED
  BY <1>1, <1>5, <1>7, <1>9, <1>10 DEF Effect, IInv

\* The flush in the middle of a call fails.
LEMMA WriteFailsKeeps == ASSUME IInv, WriteFails PROVE Effect
<1>1. /\ Len(data) > space /\ flush_fails(Filled) /\ data' = << >> /\ Returns("IO")
      /\ UNCHANGED <<given, state>>
  BY DEF WriteFails
<1>2. Filled \in Seq(Nat) /\ Len(Filled) = BufferSize
  BY <1>1, FilledBuffer
<1>3. file' \in Seq(Nat) /\ buffer' = Filled /\ total_written' \in Nat
  BY <1>1, <1>2, FlushFailsTypes DEF IInv, SeqsOK
<1>4. SeqsOK'
  BY <1>1, <1>2, <1>3, Constants DEF IInv, SeqsOK
<1> QED
  BY <1>1, <1>4, ErrorKeeps

\* One byte is buffered, behind a flush when the buffer is full.
LEMMA WriteByteKeeps == ASSUME IInv, WriteByte PROVE Effect
<1>1. /\ state = "open" /\ data = << >> /\ given < MaxBytes /\ given' = given + 1
      /\ UNCHANGED <<disk, data, state>>
  BY DEF WriteByte, Idle
<1>2. failed' = failed
  BY Zenon DEF WriteByte, Returns, IInv
<1>3. /\ Len(buffer) \in Nat /\ Len(file) \in Nat /\ Len(data) = 0 /\ given \in Nat
      /\ space = BufferSize - Len(buffer) /\ BufferSize \in Nat \ {0}
      /\ buffer \in Seq(Nat) /\ file \in Seq(Nat) /\ total_written \in Nat
      /\ given + 1 \in Nat /\ Len(buffer) <= BufferSize
  BY <1>1, SequenceLengths, Constants DEF IInv, SeqsOK
<1>4. ~failed => given = Len(file) + Len(buffer) /\ MaxBytes \in Nat
  BY <1>3, Constants DEF IInv, RunsOK
<1> DEFINE one == <<given + 1>>
<1>5. one \in Seq(Nat) /\ Len(one) = 1 /\ Run(one, given)
  BY <1>3 DEF Run
<1>6. /\ file' \in Seq(Nat) /\ buffer' \in Seq(Nat) /\ total_written' \in Nat
      /\ Len(file') \in Nat /\ Len(buffer') \in Nat /\ Len(buffer') <= BufferSize
      /\ Len(file) <= Len(file')
      /\ Len(file') + Len(buffer') = Len(file) + Len(buffer) + 1
      /\ ~failed => /\ Run(file', 0) /\ Run(buffer', Len(file'))
                    /\ total_written' = Len(file')
  <2>1. CASE space > 0
    <3>1. buffer' = buffer \o one /\ file' = file /\ total_written' = total_written
      <4>1. Append(buffer, given + 1) = buffer \o one
        BY <1>3, AppendIsConcat
      <4> QED
        BY <2>1, <4>1 DEF WriteByte
    <3> HIDE DEF one
    <3>2. /\ buffer \o one \in Seq(Nat) /\ Len(buffer \o one) = Len(buffer) + Len(one)
          /\ Run(buffer, Len(file)) /\ Run(one, Len(file) + Len(buffer))
             => Run(buffer \o one, Len(file))
      BY <1>3, <1>5, Joined
    <3>3. ~failed => Run(buffer', Len(file'))
      BY <1>4, <1>5, <3>1, <3>2, Zenon DEF IInv, RunsOK
    <3>4. ~failed => Run(file', 0) /\ total_written' = Len(file')
      BY <3>1, Zenon DEF IInv, RunsOK
    <3> QED
      BY <1>3, <1>5, <2>1, <3>1, <3>2, <3>3, <3>4
  <2>2. CASE ~(space > 0)
    <3>1. buffer' = one /\ file' = file \o buffer /\ total_written' = total_written + Len(buffer)
      BY <2>2 DEF WriteByte
    <3> HIDE DEF one
    <3>2. 0 + Len(file) = Len(file) /\ 0 \in Nat
      BY <1>3
    <3>3. /\ file \o buffer \in Seq(Nat) /\ Len(file \o buffer) = Len(file) + Len(buffer)
          /\ Run(file, 0) /\ Run(buffer, Len(file)) => Run(file \o buffer, 0)
      BY <1>3, <3>2, Joined
    <3>4. ~failed => Run(file', 0)
      BY <3>1, <3>3, Zenon DEF IInv, RunsOK
    <3>5. ~failed => total_written' = Len(file')
      BY <1>3, <3>1, <3>3 DEF IInv, RunsOK
    <3>6. ~failed => Run(buffer', Len(file'))
      BY <1>4, <1>5, <3>1, <3>3, Zenon
    <3>7. /\ file' \in Seq(Nat) /\ buffer' \in Seq(Nat) /\ total_written' \in Nat
          /\ Len(file') \in Nat /\ Len(buffer') \in Nat /\ Len(buffer') <= BufferSize
          /\ Len(file) <= Len(file')
          /\ Len(file') + Len(buffer') = Len(file) + Len(buffer) + 1
      <4>1. file' \in Seq(Nat) /\ Len(file') = Len(file) + Len(buffer)
        BY <3>1, <3>3, Zenon
      <4>2. buffer' \in Seq(Nat) /\ Len(buffer') = 1
        BY <1>5, <3>1, Zenon
      <4>3. total_written' \in Nat
        BY <1>3, <3>1
      <4> QED
        BY <1>3, <4>1, <4>2, <4>3
    <3> QED
      BY <3>4, <3>5, <3>6, <3>7, Zenon
  <2> QED
    BY <2>1, <2>2
<1>7. SeqsOK'
  BY <1>1, <1>3, <1>6 DEF IInv, SeqsOK
<1>8. RunsOK'
  <2>1. Run(data', Len(file') + Len(buffer'))
    BY <1>1, EmptyRun
  <2>2. Len(data') = 0
    BY <1>1, <1>3
  <2>3. ~failed => given' = Len(file') + Len(buffer') + Len(data') /\ given' <= MaxBytes
    BY <1>1, <1>3, <1>4, <1>6, <2>2
  <2> QED
    BY <1>2, <1>6, <2>1, <2>3, Zenon DEF RunsOK
<1>9. ClosedOK' /\ Grown
  BY <1>1, <1>3, <1>6 DEF ClosedOK, Grown
<1> QED
  BY <1>2, <1>7, <1>8, <1>9 DEF Effect, IInv

\* The flush before one byte fails, or a flush called by itself does.
LEMMA FlushFailsKeeps == ASSUME IInv, WriteByteFails \/ FlushFails \/ CloseFails PROVE Effect
<1>1. /\ flush_fails(buffer) /\ Returns("IO") /\ data' = data /\ given' \in {given, given + 1}
      /\ state' \in {"open", "closed"}
  BY DEF WriteByteFails, FlushFails, CloseFails, Idle
<1>2. file' \in Seq(Nat) /\ buffer' = buffer /\ total_written' \in Nat
  BY <1>1, FlushFailsTypes DEF IInv, SeqsOK
<1>3. SeqsOK'
  BY <1>1, <1>2 DEF IInv, SeqsOK
<1> QED
  BY <1>1, <1>3, ErrorKeeps

\* What a flush by itself, or the one of close, leaves.
LEMMA FlushKeeps ==
  ASSUME IInv, Idle, flush(buffer), UNCHANGED <<data, given>>, state' \in {"open", "closed"}
  PROVE  /\ SeqsOK' /\ Len(file) <= Len(file')
         /\ Len(file') + Len(buffer') = Len(file) + Len(buffer)
         /\ failed' = failed => RunsOK'
         /\ data' = << >> /\ buffer' = << >> /\ file' = file \o buffer
<1>1. buffer \in Seq(Nat) /\ data = << >> /\ data' = << >>
  BY DEF IInv, SeqsOK, Idle
<1>2. Len(buffer) \in Nat /\ Len(file) \in Nat /\ BufferSize \in Nat /\ given \in Nat
  BY SequenceLengths, Constants DEF IInv, SeqsOK
<1>3. /\ file' \in Seq(Nat) /\ Len(file') = Len(file) + Len(buffer) /\ Len(file') \in Nat
      /\ buffer' = << >> /\ buffer' \in Seq(Nat) /\ Len(buffer') = 0
      /\ total_written' \in Nat
      /\ ~failed => total_written' = Len(file')
      /\ ~failed /\ Run(buffer, Len(file)) => Run(file', 0)
  BY <1>1, Flushed
<1>4. SeqsOK'
  BY <1>1, <1>2, <1>3 DEF IInv, SeqsOK
<1>5. ~failed => Run(file', 0)
  BY <1>3, Zenon DEF IInv, RunsOK
<1>6. Run(buffer', Len(file')) /\ Run(data', Len(file') + Len(buffer'))
  BY <1>1, <1>3, EmptyRun
<1>7. ~failed => given' = Len(file') + Len(buffer') + Len(data') /\ given' <= MaxBytes
  BY <1>1, <1>2, <1>3 DEF IInv, RunsOK
<1>8. ASSUME failed' = failed PROVE RunsOK'
  <2> SUFFICES ASSUME ~failed'
               PROVE  /\ Run(file', 0) /\ Run(buffer', Len(file'))
                      /\ Run(data', Len(file') + Len(buffer'))
                      /\ total_written' = Len(file')
                      /\ given' = Len(file') + Len(buffer') + Len(data') /\ given' <= MaxBytes
    BY DEF RunsOK
  <2>1. ~failed
    BY <1>8, Zenon
  <2> QED
    BY <1>3, <1>5, <1>6, <1>7, <2>1, Zenon
<1> QED
  BY <1>1, <1>2, <1>3, <1>4, <1>8 DEF flush

\* Flushing and closing with success.
LEMMA FlushCloseKeeps == ASSUME IInv, Flush \/ Close PROVE Effect
<1>1. /\ Idle /\ flush(buffer) /\ UNCHANGED <<data, given>> /\ state' \in {"open", "closed"}
      /\ Returns("SUCCESS") /\ state = "open"
      /\ state' = "closed" => disk' = file'
  BY DEF Flush, Close, Idle
<1>2. failed' = failed
  BY <1>1, Zenon DEF Returns, IInv
<1>3. /\ SeqsOK' /\ RunsOK' /\ Len(file) <= Len(file')
      /\ Len(file') + Len(buffer') = Len(file) + Len(buffer)
      /\ data' = << >> /\ buffer' = << >> /\ file' = file \o buffer
  BY <1>1, <1>2, FlushKeeps
<1>4. Len(file) + Len(buffer) \in Nat
  BY SequenceLengths
<1>5. ClosedOK' /\ (Grown \/ Closed)
  BY <1>1, <1>3, <1>4 DEF ClosedOK, Grown, Closed
<1> QED
  BY <1>2, <1>3, <1>5 DEF Effect, IInv

\* Closing whose fflush or fclose fails.
LEMMA CloseFlushFailsKeeps == ASSUME IInv, CloseFlushFails PROVE Effect
<1>1. /\ Idle /\ flush(buffer) /\ UNCHANGED <<data, given>> /\ state' \in {"open", "closed"}
      /\ Returns("IO")
  BY DEF CloseFlushFails
<1> QED
  BY <1>1, FlushKeeps, ErrorKeeps

\* Every step keeps the invariant and does to the log what a log allows.
LEMMA StepKeeps == ASSUME IInv, Next PROVE Effect
BY WriteKeeps, WriteFitsKeeps, WriteFillsKeeps, WriteFailsKeeps, WriteByteKeeps,
   FlushFailsKeeps, FlushCloseKeeps, CloseFlushFailsKeeps DEF Next

\* The invariant holds in every reachable state of the writer.
THEOREM InvariantHolds == Spec => []IInv
<1>1. Init => IInv
  <2> SUFFICES ASSUME Init PROVE IInv
    OBVIOUS
  <2>1. /\ buffer = << >> /\ file = << >> /\ data = << >> /\ total_written = 0 /\ given = 0
        /\ state = "open" /\ failed = FALSE
    BY DEF Init
  <2>2. SeqsOK /\ ClosedOK
    BY <2>1, Constants DEF SeqsOK, ClosedOK
  <2>3. RunsOK
    BY <2>1, Constants DEF RunsOK, Run
  <2> QED
    BY <2>1, <2>2, <2>3, Zenon DEF IInv
<1>2. IInv /\ [Next]_vars => IInv'
  <2> SUFFICES ASSUME IInv, [Next]_vars PROVE IInv'
    OBVIOUS
  <2>1. CASE UNCHANGED vars
    BY <2>1 DEF vars, IInv, SeqsOK, RunsOK, ClosedOK, Run
  <2> QED
    BY <2>1, StepKeeps DEF Effect
<1> QED
  BY <1>1, <1>2, PTL DEF Spec

\* A close after which the file does not hold every byte written, once each,
\* comes with an error from that close or from an earlier call.
THEOREM NoSilentLoss == Spec => []LossIsReported
<1>1. IInv => LossIsReported
  <2> SUFFICES ASSUME IInv, state = "closed", ~failed PROVE disk = [k \in 1..given |-> k]
    BY DEF LossIsReported
  <2>1. /\ disk = file /\ buffer = << >> /\ data = << >> /\ Run(file, 0)
        /\ given = Len(file) + Len(buffer) + Len(data) /\ file \in Seq(Nat)
    BY DEF IInv, ClosedOK, RunsOK, SeqsOK
  <2>2. given = Len(file)
    BY <2>1
  <2>3. file = [k \in 1..Len(file) |-> k]
    BY <2>1, RunIsNumbered
  <2> QED
    BY <2>1, <2>2, <2>3
<1> QED
  BY <1>1, InvariantHolds, PTL

(***************************************************************************)
(* Refinement                                                              *)
(***************************************************************************)
\* What the log and its prefix in the file hold.
Numbering ==
  /\ file = Log!Numbered(0, Len(file))
  /\ file \o buffer = Log!Numbered(0, Len(file) + Len(buffer))
  /\ Len(file \o buffer) = Len(file) + Len(buffer)
  /\ bytes_written = Len(file) + Len(buffer)
  /\ Len(file) + Len(buffer) <= MaxBytes
  /\ Len(file) \in Nat /\ Len(buffer) \in Nat

\* What was taken is numbered from the first byte.
LEMMA LogNumbered == IInv /\ ~failed => Numbering
<1> SUFFICES ASSUME IInv, ~failed PROVE Numbering
  OBVIOUS
<1>1. /\ file \in Seq(Nat) /\ buffer \in Seq(Nat) /\ Run(file, 0) /\ Run(buffer, Len(file))
      /\ total_written = Len(file)
      /\ given = Len(file) + Len(buffer) + Len(data) /\ given <= MaxBytes
  BY DEF IInv, SeqsOK, RunsOK
<1>2. Len(file) \in Nat /\ Len(buffer) \in Nat /\ Len(data) \in Nat /\ 0 + Len(file) = Len(file)
  BY SequenceLengths
<1>3. /\ file \o buffer \in Seq(Nat) /\ Len(file \o buffer) = Len(file) + Len(buffer)
      /\ Run(file \o buffer, 0)
  BY <1>1, <1>2, Joined, 0 \in Nat
<1>4. file = Log!Numbered(0, Len(file))
  BY <1>1, RunIsNumbered
<1>5. file \o buffer = Log!Numbered(0, Len(file \o buffer))
  BY <1>3, RunIsNumbered
<1> QED
  BY <1>1, <1>2, <1>3, <1>4, <1>5, Constants DEF bytes_written, Numbering

\* The same in the next state.
LEMMA LogNumberedNext == IInv' /\ ~failed' => Numbering'
BY LogNumbered, PTL

\* A step that succeeds and leaves the writer open is a Take of the log.
LEMMA GrownTakes == ASSUME IInv, IInv', ~failed, ~failed', Grown PROVE Log!Take
<1> DEFINE n == Len(file') + Len(buffer')
           d == Len(file')
<1>1. Numbering /\ Numbering'
  BY LogNumbered, LogNumberedNext
<1>2. n \in Nat /\ n \in Len(file \o buffer)..MaxBytes /\ d \in Len(file)..MaxBytes /\ d <= n
  BY <1>1, Constants DEF Grown, Numbering
<1>3. file' = Log!Numbered(0, d) /\ (file \o buffer)' = Log!Numbered(0, n) /\ bytes_written' = n
  BY <1>1 DEF Numbering
<1> QED
  BY <1>2, <1>3 DEF Grown, Log!Take

\* A close that succeeds closes the log.
LEMMA ClosedCloses == ASSUME IInv, IInv', ~failed, ~failed', Closed PROVE Log!Close
<1>1. Numbering /\ Numbering'
  BY LogNumbered, LogNumberedNext
<1>2. file' \o buffer' = file' /\ Len(buffer') = 0
  <2>1. file' \in Seq(Nat) /\ buffer' = << >>
    BY DEF IInv, SeqsOK, Closed
  <2> QED
    BY <2>1, ConcatEmptySeq
<1>3. (file \o buffer)' = file \o buffer
  BY <1>2 DEF Closed
<1>4. bytes_written' = bytes_written
  BY <1>1, <1>2 DEF Closed, Numbering
<1> QED
  BY <1>3, <1>4 DEF Closed, Log!Close

\* The writer with its buffer implements the log without one: ImplementsLog
\* for every buffer size and every sequence of writes, flushes and failures.
THEOREM WriterImplementsLog == Spec => ImplementsLog
<1>1. Init => Log!LogInit
  <2> SUFFICES ASSUME Init PROVE Log!LogInit
    OBVIOUS
  <2>1. << >> \o << >> = << >> /\ Len(<< >>) = 0
    OBVIOUS
  <2> QED
    BY <2>1 DEF Init, Log!LogInit, bytes_written
<1>2. IInv /\ IInv' /\ [Next]_vars => [Log!Take \/ Log!Close \/ Log!Break]_(Log!logVars)
  <2> SUFFICES ASSUME IInv, IInv', [Next]_vars
               PROVE  [Log!Take \/ Log!Close \/ Log!Break]_(Log!logVars)
    OBVIOUS
  <2>1. CASE UNCHANGED vars
    BY <2>1 DEF vars, Log!logVars, bytes_written
  <2>2. CASE Next
    <3>1. (failed => failed') /\ (failed' \/ Grown \/ Closed)
      BY <2>2, StepKeeps DEF Effect
    <3>2. CASE failed
      BY <3>1, <3>2 DEF Log!logVars
    <3>3. CASE ~failed /\ failed'
      BY <3>3 DEF Log!Break, IInv, SeqsOK
    <3>4. CASE ~failed /\ ~failed'
      BY <3>1, <3>4, GrownTakes, ClosedCloses
    <3> QED
      BY <3>2, <3>3, <3>4
  <2> QED
    BY <2>1, <2>2
<1> QED
  BY <1>1, <1>2, InvariantHolds, PTL DEF Spec, ImplementsLog, Log!LogSpec
=============================================================================
