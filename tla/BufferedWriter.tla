--------------------------- MODULE BufferedWriter ---------------------------
(***************************************************************************)
(* The buffered writer of the three patch streams: a buffer over a stdio   *)
(* file that may fail.  The n-th byte that callers write is the number n,  *)
(* so that a byte that is lost, repeated or moved shows.                   *)
(***************************************************************************)
EXTENDS Integers, Sequences

CONSTANTS
  BufferSize,
  Lengths,        \* how much one call of fsd_writer_write writes
  MaxBytes,       \* bytes the callers write in all
  MaxFailures     \* how often fwrite, fflush or fclose fail

ASSUME WriterAssumption ==
  /\ BufferSize \in Nat \ {0} /\ MaxBytes \in Nat /\ MaxFailures \in Nat
  /\ Lengths \subseteq Nat \ {0}

VARIABLES
  buffer, total_written, owns_file,
  file,           \* what stdio took from the buffer
  disk,           \* what the file holds once it is closed
  data,           \* the rest of the data of the call under way
  given,          \* how many bytes the callers have written
  state,          \* "open" or "closed"
  err,            \* what the last call returned
  failures,
  failed          \* history: some call returned an error

vars == <<buffer, total_written, owns_file, file, disk, data, given, state, err, failures, failed>>

\* fsd_writer_create_from_file, or fsd_writer_create that owns its file.
Init ==
  /\ buffer = << >> /\ total_written = 0 /\ owns_file \in BOOLEAN
  /\ file = << >> /\ disk = << >> /\ data = << >> /\ given = 0
  /\ state = "open" /\ err = "SUCCESS" /\ failures = 0 /\ failed = FALSE

Returns(e) == err' = e /\ failed' = (failed \/ e # "SUCCESS")
Fails == failures < MaxFailures /\ failures' = failures + 1
space == BufferSize - Len(buffer)

\* A failing fwrite takes some of the bytes, not all.
Partly(s) == {SubSeq(s, 1, k) : k \in 0..Len(s) - 1}

\* fsd_writer_flush of the buffer b, when fwrite takes all of it.
flush(b) ==
  /\ file' = file \o b
  /\ total_written' = total_written + Len(b)
  /\ buffer' = << >>

\* The same when it does not: the buffer keeps everything.
flush_fails(b) ==
  /\ Fails /\ b # << >>
  /\ \E taken \in Partly(b) : file' = file \o taken
  /\ buffer' = b
  /\ UNCHANGED total_written

Idle == state = "open" /\ data = << >>

\* fsd_writer_write and its little-endian variants are called.
Write(n) ==
  /\ Idle /\ given + n <= MaxBytes
  /\ data' = [k \in 1..n |-> given + k] /\ given' = given + n
  /\ UNCHANGED <<buffer, total_written, owns_file, file, disk, state, err, failures, failed>>

WriteFits ==
  /\ data # << >> /\ Len(data) <= space
  /\ buffer' = buffer \o data /\ data' = << >>
  /\ Returns("SUCCESS")
  /\ UNCHANGED <<total_written, owns_file, file, disk, given, state, failures>>

Filled == buffer \o SubSeq(data, 1, space)

\* Mutant: the source pointer stays where it was.
WriteFills_again ==
  /\ Len(data) > space
  /\ flush(Filled)
  /\ data' = SubSeq(data, 1, Len(data) - space)
  /\ UNCHANGED <<owns_file, disk, given, state, err, failures, failed>>

\* The buffer is filled up and flushed; the loop goes on with the rest.
WriteFills ==
  /\ Len(data) > space
  /\ flush(Filled)
  /\ data' = SubSeq(data, space + 1, Len(data))
  /\ UNCHANGED <<owns_file, disk, given, state, err, failures, failed>>

WriteFails ==
  /\ Len(data) > space
  /\ flush_fails(Filled)
  /\ data' = << >> /\ Returns("IO")
  /\ UNCHANGED <<owns_file, disk, given, state>>

WriteByte ==
  /\ Idle /\ given < MaxBytes
  /\ given' = given + 1 /\ Returns("SUCCESS")
  /\ IF space > 0
     THEN buffer' = Append(buffer, given + 1) /\ UNCHANGED <<file, total_written>>
     ELSE /\ file' = file \o buffer /\ buffer' = <<given + 1>>
          /\ total_written' = total_written + Len(buffer)
  /\ UNCHANGED <<owns_file, disk, data, state, failures>>

WriteByteFails ==
  /\ Idle /\ given < MaxBytes /\ space = 0
  /\ flush_fails(buffer)
  /\ given' = given + 1 /\ Returns("IO")
  /\ UNCHANGED <<owns_file, disk, data, state>>

\* fsd_writer_flush called by itself.
Flush ==
  /\ Idle /\ flush(buffer) /\ Returns("SUCCESS")
  /\ UNCHANGED <<owns_file, disk, data, given, state, failures>>

FlushFails ==
  /\ Idle /\ flush_fails(buffer) /\ Returns("IO")
  /\ UNCHANGED <<owns_file, disk, data, given, state>>

Close ==
  /\ Idle /\ flush(buffer)
  /\ disk' = file' /\ state' = "closed" /\ Returns("SUCCESS")
  /\ UNCHANGED <<owns_file, data, given, failures>>

\* Mutant: what fflush returns is not looked at.
CloseFlushFails_ignored ==
  /\ Idle /\ flush(buffer) /\ Fails
  /\ disk' \in Partly(file') \cup {file'} /\ state' = "closed" /\ Returns("SUCCESS")
  /\ UNCHANGED <<owns_file, data, given>>

\* fflush, or fclose of a file the writer owns, fails.
CloseFlushFails ==
  /\ Idle /\ flush(buffer) /\ Fails
  /\ disk' \in Partly(file') \cup (IF owns_file THEN {file'} ELSE {})
  /\ state' = "closed" /\ Returns("IO")
  /\ UNCHANGED <<owns_file, data, given>>

\* The flush fails: its error is returned, whatever fflush and fclose do.
CloseFails ==
  /\ Idle /\ flush_fails(buffer)
  /\ disk' \in Partly(file') \cup {file'} /\ state' = "closed" /\ Returns("IO")
  /\ UNCHANGED <<owns_file, data, given>>

Next ==
  \/ \E n \in Lengths : Write(n)
  \/ WriteFits \/ WriteFills \/ WriteFails
  \/ WriteByte \/ WriteByteFails
  \/ Flush \/ FlushFails
  \/ Close \/ CloseFlushFails \/ CloseFails

Spec == Init /\ [][Next]_vars

\* fsd_writer_bytes_written
bytes_written == total_written + Len(buffer)

(***************************************************************************)
(* Properties                                                              *)
(***************************************************************************)
\* The writer with its buffer implements the log without one: until an error
\* is returned no byte is lost, repeated or moved by filling, flushing and
\* closing in any order, the size that goes into the patch header is that of
\* the log, and a close that succeeds leaves the whole log on disk.
Log == INSTANCE AppendLog WITH
  log <- IF failed THEN << >> ELSE file \o buffer,
  durable <- IF failed THEN << >> ELSE IF state = "closed" THEN disk ELSE file,
  size <- IF failed THEN 0 ELSE bytes_written,
  status <- IF failed THEN "failed" ELSE state
ImplementsLog == Log!LogSpec

\* "so a failed disk write is reported": a close after which the file does
\* not hold every byte written, once each, comes with an error from that
\* close or from an earlier call.
LossIsReported ==
  state = "closed" /\ disk # [k \in 1..given |-> k] => failed
=============================================================================
