--------------------------- MODULE OrderedStream ---------------------------
(***************************************************************************)
(* What a streaming read promises its caller: ranges 0, 1, ... of the file *)
(* go to the callback in order, each once, until the callback ends the     *)
(* stream or something fails; "complete" means every range was delivered.  *)
(***************************************************************************)
EXTENDS Integers, Sequences

CONSTANTS MaxRanges   \* bound: ranges of the largest file

NoSize == -1
Verdicts == {"none", "break", "error", "panic"}

VARIABLES
  open,      \* a stream is under way
  size,      \* ranges of its file, NoSize before it is measured
  log,       \* the ranges given to the callback
  verdict,   \* how the callback ended the stream
  result     \* what the last stream returned

sVars == <<open, size, log, verdict, result>>

SInit == open = FALSE /\ size = NoSize /\ log = <<>> /\ verdict = "none" /\ result = "none"

SBegin ==
  /\ ~open /\ open' = TRUE
  /\ size' = NoSize /\ log' = <<>> /\ verdict' = "none" /\ result' = "none"

SMeasure ==
  /\ open /\ size = NoSize
  /\ size' \in 0..MaxRanges
  /\ UNCHANGED <<open, log, verdict, result>>

SDeliver ==
  /\ open /\ verdict = "none" /\ Len(log) < size
  /\ log' = Append(log, Len(log))
  /\ verdict' \in Verdicts
  /\ UNCHANGED <<open, size, result>>

\* A panic of the callback goes first, an error of the reads before an error
\* of the callback.
SEnd ==
  /\ open /\ open' = FALSE
  /\ \/ result' = "panic" /\ verdict = "panic"
     \/ result' = "failed" /\ verdict # "panic"
     \/ result' = "callback" /\ verdict = "error"
     \/ result' = "stopped" /\ verdict = "break"
     \/ result' = "complete" /\ verdict = "none" /\ Len(log) = size
  /\ UNCHANGED <<size, log, verdict>>

SNext == SBegin \/ SMeasure \/ SDeliver \/ SEnd
SSpec == SInit /\ [][SNext]_sVars
=============================================================================
