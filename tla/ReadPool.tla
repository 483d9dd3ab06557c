----------------------------- MODULE ReadPool ------------------------------
(***************************************************************************)
(* nfs/read_pool.rs: one coordinator (connect, read_stream, finish_stream, *)
(* drop) and WorkerCount threads (worker_main), each with a bounded        *)
(* command channel; all of them send to one event channel.  A worker       *)
(* thread may panic in any command; its receiver is gone before the        *)
(* wrapper of spawn_worker_thread reports Stopped.                         *)
(*                                                                         *)
(* A range is its index: chunk i covers offset i * chunk_size, and         *)
(* read_range returns all of it or an error.                               *)
(***************************************************************************)
EXTENDS Integers, Sequences

CONSTANTS
  WorkerCount,   \* effective_workers, at most InFlight
  InFlight,      \* effective_in_flight
  MaxRanges,     \* bound: ranges of the largest file
  MaxStreams     \* bound: read_stream calls

ASSUME PoolConstants ==
  /\ WorkerCount \in Nat \ {0} /\ InFlight \in Nat \ {0} /\ WorkerCount <= InFlight
  /\ MaxRanges \in Nat /\ MaxStreams \in Nat

VARIABLES
  pc,            \* where the coordinator is
  n,             \* its loop over the workers
  sid,           \* next_stream_id - 1
  alive,         \* worker_alive
  active,        \* active_workers, or those finish_stream awaits
  heard,         \* workers that answered in this phase
  size,          \* file_size in ranges
  nextJob, nextDelivery,
  jobs,          \* <<index, worker>> scheduled and unanswered
  pending,       \* ranges read and not delivered
  verdict,       \* how the callback ended the stream
  primary,       \* primary_error (first_error in connect)
  closeError,    \* the error of finish_stream
  result,        \* what the last call returned
  delivered,     \* history: the ranges the callback got
  wpc, file, queue,   \* per worker: state, stream it has open, commands
  events         \* the event channel

callVars == <<sid, size, nextJob, nextDelivery, jobs, pending, verdict, delivered>>
errVars == <<primary, closeError, result>>
workerVars == <<wpc, file>>
vars == <<pc, n, alive, active, heard, callVars, errVars, workerVars, queue, events>>

NoSize == -1
Workers == 0..(WorkerCount - 1)
Verdicts == {"none", "break", "error", "panic"}
Phases == {"spawn", "connect", "idle", "start", "started", "read", "deliver", "drain", "finish",
           "finished", "drop", "join", "dropped", "detached"}

----------------------------------------------------------------------------
(* Channels.                                                               *)

\* The receiver of the worker's command channel is gone.
Gone(w) == wpc[w] \in {"panicking", "stopped"}
CanSend(w) == Gone(w) \/ Len(queue[w]) < InFlight
Sent(w, cmd) == IF Gone(w) THEN queue ELSE [queue EXCEPT ![w] = Append(@, cmd)]
Command(kind, index) == [kind |-> kind, sid |-> sid, index |-> index]

\* recv: the next event, or "closed" when every sender is gone.
Closed == [kind |-> "closed", worker |-> 0, sid |-> 0, index |-> 0, ok |-> FALSE]
Event == IF events = <<>> THEN Closed ELSE Head(events)
Receive ==
  /\ events # <<>> \/ \A w \in Workers : wpc[w] = "stopped"
  /\ events' = IF events = <<>> THEN events ELSE Tail(events)

Answers(e, kind) == e.kind = kind /\ e.sid = sid /\ e.worker \in active \ heard
Stops(e) == e.kind = "stopped" /\ e.worker \in active \ heard
\* get_or_insert.
First(error, new) == IF error = "none" THEN new ELSE error

\* Every loop over the workers starts at the first one.
NextWorker == IF n + 1 = WorkerCount THEN 0 ELSE n + 1

----------------------------------------------------------------------------
(* connect and drop.                                                       *)

\* A failed spawn returns at once: the channels of the others are dropped.
Spawn ==
  /\ pc = "spawn"
  /\ \/ /\ wpc' = [wpc EXCEPT ![n] = "connecting"]
        /\ n' = NextWorker
        /\ pc' = IF n + 1 = WorkerCount THEN "connect" ELSE pc
     \/ pc' = "detached" /\ UNCHANGED <<wpc, n>>
  /\ UNCHANGED <<alive, active, heard, callVars, errVars, file, queue, events>>

\* One answer per worker is received, whatever it says.
ConnectRecv ==
  LET e == Event
      last == n + 1 = WorkerCount \/ e = Closed IN
  /\ pc = "connect" /\ Receive
  /\ heard' = IF e.kind = "ready" THEN heard \cup {e.worker} ELSE heard
  /\ alive' = IF e.kind = "stopped" \/ (e.kind = "ready" /\ ~e.ok) THEN alive \ {e.worker} ELSE alive
  /\ primary' = CASE e.kind = "ready" /\ e.worker \notin heard ->
                       IF e.ok THEN primary ELSE First(primary, "io")
                  [] e.kind = "stopped" -> First(primary, "stopped")
                  [] OTHER -> First(primary, "protocol")
  /\ n' = IF last THEN 0 ELSE n + 1
  /\ pc' = IF ~last THEN pc ELSE IF primary' = "none" THEN "idle" ELSE "drop"
  /\ UNCHANGED <<active, callVars, closeError, result, workerVars, queue>>

Drop ==
  /\ pc = "idle" /\ pc' = "drop"
  /\ UNCHANGED <<n, alive, active, heard, callVars, errVars, workerVars, queue, events>>

SendShutdown ==
  /\ pc = "drop" /\ CanSend(n)
  /\ queue' = Sent(n, Command("shutdown", 0))
  /\ n' = NextWorker
  /\ pc' = IF n + 1 = WorkerCount THEN "join" ELSE pc
  /\ UNCHANGED <<alive, active, heard, callVars, errVars, workerVars, events>>

Join ==
  /\ pc = "join" /\ wpc[n] = "stopped"
  /\ n' = NextWorker
  /\ pc' = IF n + 1 = WorkerCount THEN "dropped" ELSE pc
  /\ UNCHANGED <<alive, active, heard, callVars, errVars, workerVars, queue, events>>

----------------------------------------------------------------------------
(* read_stream: open the file on every worker.                             *)

Begin ==
  /\ pc = "idle" /\ sid < MaxStreams /\ pc' = "start"
  /\ sid' = sid + 1 /\ size' = NoSize /\ nextJob' = 0 /\ nextDelivery' = 0
  /\ jobs' = {} /\ pending' = {} /\ verdict' = "none" /\ delivered' = <<>>
  /\ primary' = "none" /\ closeError' = "none" /\ result' = "none"
  /\ active' = {} /\ heard' = {}
  /\ UNCHANGED <<n, alive, workerVars, queue, events>>

SendStart ==
  /\ pc = "start" /\ CanSend(n)
  /\ queue' = Sent(n, Command("start", 0))
  /\ IF Gone(n)
     THEN alive' = alive \ {n} /\ primary' = First(primary, "stopped") /\ UNCHANGED active
     ELSE active' = active \cup {n} /\ UNCHANGED <<alive, primary>>
  /\ n' = NextWorker
  /\ pc' = IF n + 1 = WorkerCount THEN "started" ELSE pc
  /\ UNCHANGED <<heard, callVars, closeError, result, workerVars, events>>

\* Worker 0 also measures the file: its answer has the size.
StartedRecv ==
  LET e == Event
      mine == Answers(e, "started") IN
  /\ pc = "started" /\ heard # active /\ Receive
  /\ heard' = IF mine \/ Stops(e) THEN heard \cup {e.worker} ELSE heard
  /\ alive' = IF Stops(e) THEN alive \ {e.worker} ELSE alive
  /\ size' = IF mine /\ e.ok /\ e.worker = 0 THEN e.index ELSE size
  /\ primary' = CASE mine /\ e.ok /\ (e.worker = 0 <=> e.index # NoSize) -> primary
                  [] mine /\ ~e.ok -> First(primary, "io")
                  [] Stops(e) -> First(primary, "stopped")
                  [] OTHER -> First(primary, "protocol")
  /\ pc' = IF e = Closed THEN "read" ELSE pc
  /\ UNCHANGED <<n, active, sid, nextJob, nextDelivery, jobs, pending, verdict, delivered, closeError, result,
                 workerVars, queue>>

\* (mutant) A stream whose start met a stopped worker starts again.
StartDoneRetries ==
  /\ pc = "started" /\ heard = active
  /\ primary' = IF size = NoSize THEN First(primary, "protocol") ELSE primary
  /\ pc' = IF primary = "stopped" THEN "start" ELSE "read"
  /\ heard' = IF primary = "stopped" THEN {} ELSE heard
  /\ active' = IF primary = "stopped" THEN {} ELSE active
  /\ UNCHANGED <<n, alive, callVars, closeError, result, workerVars, queue, events>>

StartDone ==
  /\ pc = "started" /\ heard = active /\ pc' = "read"
  /\ primary' = IF size = NoSize THEN First(primary, "protocol") ELSE primary
  /\ UNCHANGED <<n, alive, active, heard, callVars, closeError, result, workerVars, queue, events>>

----------------------------------------------------------------------------
(* read_stream: schedule, receive, deliver in order; then drain.           *)

Reading == primary = "none" /\ verdict = "none" /\ nextDelivery < size
InWindow == nextJob < size /\ nextJob - nextDelivery < InFlight
JobsOf(w) == {j \in jobs : j[2] = w}
Answered(index) == {j \in jobs : j[1] = index}

Schedule ==
  LET w == nextJob % WorkerCount IN
  /\ pc = "read" /\ Reading /\ InWindow /\ CanSend(w)
  /\ queue' = Sent(w, Command("read", nextJob))
  /\ IF Gone(w)
     THEN alive' = alive \ {w} /\ primary' = "stopped" /\ UNCHANGED <<jobs, nextJob>>
     ELSE jobs' = jobs \cup {<<nextJob, w>>} /\ nextJob' = nextJob + 1 /\ UNCHANGED <<alive, primary>>
  /\ UNCHANGED <<pc, n, active, heard, sid, size, nextDelivery, pending, verdict, delivered, closeError, result,
                 workerVars, events>>

\* What both loops do with an event: jobs and worker_alive.
TakeEvent(e) ==
  /\ jobs' = CASE e.kind = "chunk" /\ e.sid = sid -> jobs \ Answered(e.index)
               [] e.kind = "stopped" -> jobs \ JobsOf(e.worker)
               [] OTHER -> jobs
  /\ alive' = IF e.kind = "stopped" THEN alive \ {e.worker} ELSE alive
  /\ primary' = CASE e.kind = "chunk" /\ e.sid = sid /\ <<e.index, e.worker>> \in jobs ->
                       IF ~e.ok THEN First(primary, "io")
                       ELSE IF pc = "read" /\ (e.index >= size \/ e.index \in pending)
                            THEN First(primary, "protocol") ELSE primary
                  [] e.kind = "stopped" -> First(primary, "stopped")
                  [] OTHER -> First(primary, "protocol")

ReadRecv ==
  /\ pc = "read" /\ Reading /\ ~InWindow /\ Receive
  /\ TakeEvent(Event)
  /\ pending' = IF primary' = "none" THEN pending \cup {Event.index} ELSE pending
  /\ pc' = IF primary' = "none" THEN "deliver" ELSE pc
  /\ UNCHANGED <<n, active, heard, sid, size, nextJob, nextDelivery, verdict, delivered, closeError, result,
                 workerVars, queue>>

\* (mutant) Ranges are delivered as they arrive.
DeliverAny ==
  /\ pc = "deliver" /\ pending # {}
  /\ \E i \in pending : pending' = pending \ {i} /\ delivered' = Append(delivered, i)
  /\ nextDelivery' = nextDelivery + 1
  /\ verdict' \in Verdicts
  /\ pc' = IF verdict' = "none" THEN pc ELSE "read"
  /\ UNCHANGED <<n, alive, active, heard, sid, size, nextJob, jobs, errVars, workerVars, queue, events>>

\* One callback; an error, a panic or Break ends the stream.
Deliver ==
  /\ pc = "deliver" /\ nextDelivery \in pending
  /\ pending' = pending \ {nextDelivery}
  /\ nextDelivery' = nextDelivery + 1
  /\ delivered' = Append(delivered, nextDelivery)
  /\ verdict' \in Verdicts
  /\ pc' = IF verdict' = "none" THEN pc ELSE "read"
  /\ UNCHANGED <<n, alive, active, heard, sid, size, nextJob, jobs, errVars, workerVars, queue, events>>

DeliverDone ==
  /\ pc = "deliver" /\ nextDelivery \notin pending /\ pc' = "read"
  /\ UNCHANGED <<n, alive, active, heard, callVars, errVars, workerVars, queue, events>>

ReadDone ==
  /\ pc = "read" /\ ~Reading /\ pc' = "drain"
  /\ UNCHANGED <<n, alive, active, heard, callVars, errVars, workerVars, queue, events>>

\* Every range already sent is answered before the files are closed.
DrainRecv ==
  /\ pc = "drain" /\ jobs # {} /\ Receive
  /\ TakeEvent(Event)
  /\ pc' = IF Event = Closed THEN "finish" ELSE pc
  /\ UNCHANGED <<n, active, heard, sid, size, nextJob, nextDelivery, pending, verdict, delivered, closeError,
                 result, workerVars, queue>>

\* (mutant) A failed stream is finished at once.
DrainDoneEarly ==
  /\ pc = "drain" /\ (jobs = {} \/ primary # "none") /\ pc' = "finish" /\ heard' = {}
  /\ UNCHANGED <<n, alive, active, callVars, errVars, workerVars, queue, events>>

DrainDone ==
  /\ pc = "drain" /\ jobs = {} /\ pc' = "finish" /\ heard' = {}
  /\ UNCHANGED <<n, alive, active, callVars, errVars, workerVars, queue, events>>

----------------------------------------------------------------------------
(* finish_stream and the result of read_stream.                            *)

FinishSkips(w) == w \notin active \/ w \notin alive

SendFinish ==
  LET skip == FinishSkips(n) IN
  /\ pc = "finish" /\ (skip \/ CanSend(n))
  /\ queue' = IF skip THEN queue ELSE Sent(n, Command("finish", 0))
  /\ alive' = IF ~skip /\ Gone(n) THEN alive \ {n} ELSE alive
  /\ active' = IF skip \/ Gone(n) THEN active \ {n} ELSE active
  /\ closeError' = IF ~skip /\ Gone(n) THEN First(closeError, "stopped") ELSE closeError
  /\ n' = NextWorker
  /\ pc' = IF n + 1 = WorkerCount THEN "finished" ELSE pc
  /\ UNCHANGED <<heard, callVars, primary, result, workerVars, events>>

FinishRecv ==
  LET e == Event
      mine == Answers(e, "finished") IN
  /\ pc = "finished" /\ heard # active /\ Receive
  /\ heard' = IF e = Closed THEN active
              ELSE IF mine \/ Stops(e) THEN heard \cup {e.worker} ELSE heard
  /\ alive' = IF e = Closed THEN {} ELSE IF Stops(e) THEN alive \ {e.worker} ELSE alive
  /\ closeError' = CASE mine /\ e.ok -> closeError
                     [] mine /\ ~e.ok -> First(closeError, "io")
                     [] Stops(e) -> First(closeError, "stopped")
                     [] OTHER -> First(closeError, "protocol")
  /\ UNCHANGED <<pc, n, active, callVars, primary, result, workerVars, queue>>

\* The order in which read_stream looks at what happened.
Outcome ==
  CASE verdict = "panic" -> "panic"
    [] verdict # "panic" /\ primary # "none" -> "failed"
    [] verdict = "error" /\ primary = "none" -> "callback"
    [] verdict \in {"none", "break"} /\ primary = "none" /\ closeError # "none" -> "failed"
    [] verdict = "break" /\ primary = "none" /\ closeError = "none" -> "stopped"
    [] OTHER -> "complete"

Return ==
  /\ pc = "finished" /\ heard = active /\ pc' = "idle"
  /\ result' = Outcome
  /\ UNCHANGED <<n, alive, active, heard, callVars, primary, closeError, workerVars, queue, events>>

Coordinator == \/ Spawn \/ ConnectRecv \/ SendShutdown \/ Join
               \/ SendStart \/ StartedRecv \/ StartDone
               \/ Schedule \/ ReadRecv \/ Deliver \/ DeliverDone \/ ReadDone
               \/ DrainRecv \/ DrainDone \/ SendFinish \/ FinishRecv \/ Return

----------------------------------------------------------------------------
(* worker_main on thread w.                                                *)

coordVars == <<pc, n, alive, active, heard, callVars, errVars>>
\* The pool, with its ends of the channels, is gone.
Orphan == pc = "detached"
Emit(w, kind, index, ok) ==
  events' = IF Orphan THEN events
            ELSE Append(events, [kind |-> kind, worker |-> w, sid |-> Head(queue[w]).sid,
                                 index |-> index, ok |-> ok])
Emit0(w, kind, ok) ==
  events' = IF Orphan THEN events
            ELSE Append(events, [kind |-> kind, worker |-> w, sid |-> 0, index |-> 0, ok |-> ok])

Connect(w) ==
  /\ wpc[w] = "connecting"
  /\ \/ wpc' = [wpc EXCEPT ![w] = IF Orphan THEN "stopped" ELSE "run"] /\ Emit0(w, "ready", TRUE)
     \/ wpc' = [wpc EXCEPT ![w] = "stopped"] /\ Emit0(w, "ready", FALSE)
     \/ wpc' = [wpc EXCEPT ![w] = "panicking"] /\ UNCHANGED events
  /\ UNCHANGED <<coordVars, file, queue>>

\* open_stream_file: worker 0 also measures the file (in ranges); a file that
\* cannot be measured is closed again.
OpenStreamFile(w) == IF w = 0 THEN 0..MaxRanges ELSE {NoSize}

ServeStart(w) ==
  /\ \/ /\ file[w] = 0 /\ file' = [file EXCEPT ![w] = Head(queue[w]).sid]
        /\ \E s \in OpenStreamFile(w) : Emit(w, "started", s, TRUE)
     \/ Emit(w, "started", NoSize, FALSE) /\ UNCHANGED file
  /\ UNCHANGED wpc

\* read_range: the whole range, or an error (a file that has shrunk included).
ReadRange == BOOLEAN
ServeRead(w) ==
  /\ \E ok \in ReadRange :
       Emit(w, "chunk", Head(queue[w]).index, ok /\ file[w] = Head(queue[w]).sid)
  /\ UNCHANGED workerVars

\* Finish: whatever the CLOSE answers, the file is no longer the worker's.
ServeFinish(w) ==
  /\ \E closed \in BOOLEAN :
       Emit(w, "finished", 0, file[w] = 0 \/ (file[w] = Head(queue[w]).sid /\ closed))
  /\ file' = [file EXCEPT ![w] = IF @ = Head(queue[w]).sid THEN 0 ELSE @]
  /\ UNCHANGED wpc

ServeShutdown(w) ==
  /\ wpc' = [wpc EXCEPT ![w] = "stopped"] /\ file' = [file EXCEPT ![w] = 0]
  /\ UNCHANGED events

Serve(w) ==
  /\ wpc[w] = "run" /\ queue[w] # <<>>
  /\ queue' = [queue EXCEPT ![w] = Tail(@)]
  /\ \/ Head(queue[w]).kind = "start" /\ ServeStart(w)
     \/ Head(queue[w]).kind = "read" /\ ServeRead(w)
     \/ Head(queue[w]).kind = "finish" /\ ServeFinish(w)
     \/ Head(queue[w]).kind = "shutdown" /\ ServeShutdown(w)
  /\ UNCHANGED coordVars

\* recv fails: the pool is gone and nothing is queued.
Hangup(w) ==
  /\ wpc[w] = "run" /\ queue[w] = <<>> /\ Orphan
  /\ ServeShutdown(w)
  /\ UNCHANGED <<coordVars, queue>>

\* A panic inside a command: unwinding drops the receiver and the file.
Panic(w) ==
  /\ wpc[w] = "run" /\ queue[w] # <<>> /\ Head(queue[w]).kind # "shutdown"
  /\ wpc' = [wpc EXCEPT ![w] = "panicking"]
  /\ file' = [file EXCEPT ![w] = 0] /\ queue' = [queue EXCEPT ![w] = <<>>]
  /\ UNCHANGED <<coordVars, events>>

\* spawn_worker_thread reports it.
ReportPanic(w) ==
  /\ wpc[w] = "panicking" /\ wpc' = [wpc EXCEPT ![w] = "stopped"]
  /\ Emit0(w, "stopped", FALSE)
  /\ UNCHANGED <<coordVars, file, queue>>

Worker(w) == Connect(w) \/ Serve(w) \/ Hangup(w) \/ Panic(w) \/ ReportPanic(w)

----------------------------------------------------------------------------
Init ==
  /\ pc = "spawn" /\ n = 0 /\ sid = 0
  /\ alive = Workers /\ active = {} /\ heard = {}
  /\ size = NoSize /\ nextJob = 0 /\ nextDelivery = 0 /\ jobs = {} /\ pending = {}
  /\ delivered = <<>>
  /\ verdict = "none" /\ primary = "none" /\ closeError = "none" /\ result = "none"
  /\ wpc = [w \in Workers |-> "unborn"]
  /\ file = [w \in Workers |-> 0]
  /\ queue = [w \in Workers |-> <<>>]
  /\ events = <<>>

WorkerNext == \E w \in Workers : Worker(w)
Done == pc \in {"dropped", "detached"} /\ UNCHANGED vars
Next == Coordinator \/ Begin \/ Drop \/ WorkerNext \/ Done

\* Threads run; RPCs and callbacks return.
Fairness == WF_vars(Coordinator) /\ \A w \in Workers : WF_vars(Worker(w))
Spec == Init /\ [][Next]_vars /\ Fairness

----------------------------------------------------------------------------
Commands == [kind: {"start", "read", "finish", "shutdown"}, sid: Nat, index: 0..MaxRanges]
Events == [kind: {"ready", "started", "chunk", "finished", "stopped"}, worker: Workers, sid: Nat,
           index: NoSize..MaxRanges, ok: BOOLEAN]
Errors == {"none", "io", "stopped", "protocol"}

TypeOK ==
  /\ pc \in Phases /\ n \in Workers /\ sid \in Nat
  /\ alive \in SUBSET Workers /\ active \in SUBSET Workers /\ heard \in SUBSET Workers
  /\ size \in NoSize..MaxRanges
  /\ nextJob \in 0..MaxRanges /\ nextDelivery \in Nat /\ delivered \in Seq(Nat)
  /\ jobs \in SUBSET (Nat \X Workers) /\ pending \in SUBSET Nat
  /\ verdict \in Verdicts /\ primary \in Errors /\ closeError \in Errors
  /\ result \in {"none", "panic", "failed", "callback", "stopped", "complete"}
  /\ wpc \in [Workers -> {"unborn", "connecting", "run", "panicking", "stopped"}]
  /\ file \in [Workers -> Nat]
  /\ queue \in [Workers -> Seq(Commands)]
  /\ events \in Seq(Events)

\* read_stream keeps the promise of a streaming read.
Stream == INSTANCE OrderedStream
            WITH open <- pc \in {"start", "started", "read", "deliver", "drain", "finish", "finished"},
                 log <- delivered
OrderedDelivery == Stream!SSpec

\* The arms of read_stream and finish_stream for an answer that is not
\* expected are never taken: no answer of an earlier stream or phase, of a
\* failed or a panicked worker is left for a later one.
NoUnexpectedEvent == primary # "protocol" /\ closeError # "protocol"

\* "Hard budget for completed and in-progress range buffers": each range that
\* is scheduled or read and not delivered is counted once, and all of them are
\* among the effective_in_flight ranges after the last one delivered.
BuffersBounded ==
  LET scheduled == {j[1] : j \in jobs}
  IN  /\ scheduled \cup pending \subseteq nextDelivery..(nextDelivery + InFlight - 1)
      /\ scheduled \cap pending = {}
      /\ \A j, k \in jobs : j[1] = k[1] => j = k

\* Between streams, however the last one ended, no worker has a file open and
\* the channels are empty.
PoolReusable ==
  pc = "idle" => /\ events = <<>>
                 /\ \A w \in Workers : file[w] = 0 /\ queue[w] = <<>>

\* A stream stays within its budget and leaves the pool ready for the next.
PoolSound == NoUnexpectedEvent /\ BuffersBounded /\ PoolReusable

\* Every call returns, also when workers panic: nobody waits for an event or
\* for room in a channel for ever.
CallReturns == (pc # "idle") ~> (pc \in {"idle", "dropped", "detached"})

=============================================================================
