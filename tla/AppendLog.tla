----------------------------- MODULE AppendLog -----------------------------
(***************************************************************************)
(* What a writer promises: until it reports an error it is a log that only *)
(* grows, byte for byte in the order of the calls, of which a prefix has   *)
(* left the process; closing it with success puts all of it on disk.       *)
(***************************************************************************)
EXTENDS Integers, Sequences

CONSTANT MaxBytes

VARIABLES
  log,            \* the bytes taken so far
  durable,        \* those handed over to the file
  size,           \* what the writer says it has written
  status          \* "open", "closed" or "failed"

logVars == <<log, durable, size, status>>

LogInit == log = << >> /\ durable = << >> /\ size = 0 /\ status = "open"

\* The bytes from number a + 1 to number b of what the callers write.
Numbered(a, b) == [k \in 1..b - a |-> a + k]

\* Bytes are taken, and none, some or all that were taken are handed over.
Take ==
  /\ status = "open"
  /\ \E n \in Len(log)..MaxBytes, d \in Len(durable)..MaxBytes :
       /\ d <= n
       /\ log' = Numbered(0, n) /\ durable' = Numbered(0, d) /\ size' = n
  /\ UNCHANGED status

Close ==
  /\ status = "open"
  /\ status' = "closed" /\ durable' = log
  /\ UNCHANGED <<log, size>>

\* After an error nothing is promised.
Break ==
  /\ status \in {"open", "closed"} /\ status' = "failed"
  /\ log' = << >> /\ durable' = << >> /\ size' = 0

LogSpec == LogInit /\ [][Take \/ Close \/ Break]_logVars
=============================================================================
