-------------------------- MODULE ReadPoolProofs ---------------------------
(***************************************************************************)
(* Proofs about ReadPool, for any number of workers, window and file:      *)
(* type correctness, that read_stream keeps the promise of OrderedStream,  *)
(* and that the pool is sound during and between streams (PoolSound).      *)
(***************************************************************************)
EXTENDS ReadPoolSteps

USE PoolConstants, SMTT(10), Zenon, SMTT(30)

LEMMA ReceiveTyped ==
  ASSUME TypeOK, Receive
  PROVE  /\ events' \in Seq(Events)
         /\ Event.worker \in Workers /\ Event.index \in NoSize..MaxRanges
  <1>1. events \in Seq(Events)
    BY DEF TypeOK
  <1>2. CASE events = <<>>
    <2>1. Event = Closed
      BY <1>2 DEF Event
    <2>2. Event.worker = 0 /\ Event.index = 0
      BY <2>1 DEF Closed
    <2> QED BY <1>1, <1>2, <2>2, WorkerZero DEF Receive, NoSize
  <1>3. CASE events # <<>>
    <2>1. Head(events) \in Events /\ Tail(events) \in Seq(Events)
      BY <1>1, <1>3
    <2> QED BY <1>3, <2>1, EventFields DEF Receive, Event
  <1> QED BY <1>2, <1>3

LEMMA SentTyped ==
  ASSUME TypeOK, NEW w \in Workers, NEW kind \in {"start", "read", "finish", "shutdown"},
         NEW i \in 0..MaxRanges
  PROVE  Sent(w, Command(kind, i)) \in [Workers -> Seq(Commands)]
  <1>1. Command(kind, i) \in Commands
    BY DEF Command, Commands, TypeOK
  <1>2. queue \in [Workers -> Seq(Commands)] /\ queue[w] \in Seq(Commands)
    BY DEF TypeOK
  <1>3. Append(queue[w], Command(kind, i)) \in Seq(Commands)
    BY <1>1, <1>2
  <1> QED BY <1>2, <1>3 DEF Sent

LEMMA EmitTyped ==
  ASSUME TypeOK, NEW w \in Workers, queue[w] # <<>>, NEW kind \in {"started", "chunk", "finished"},
         NEW i \in NoSize..MaxRanges, NEW ok \in BOOLEAN, Emit(w, kind, i, ok)
  PROVE  events' \in Seq(Events)
  <1>1. queue[w] \in Seq(Commands) /\ events \in Seq(Events)
    BY DEF TypeOK
  <1>2. Head(queue[w]).sid \in Nat
    BY <1>1, CommandFields
  <1>3. [kind |-> kind, worker |-> w, sid |-> Head(queue[w]).sid, index |-> i, ok |-> ok] \in Events
    BY <1>2 DEF Events
  <1>4. PICK e \in Events :
          e = [kind |-> kind, worker |-> w, sid |-> Head(queue[w]).sid, index |-> i, ok |-> ok]
    BY <1>3
  <1> QED BY <1>1, <1>4 DEF Emit

LEMMA Emit0Typed ==
  ASSUME TypeOK, NEW w \in Workers, NEW kind \in {"ready", "stopped"},
         NEW ok \in BOOLEAN, Emit0(w, kind, ok)
  PROVE  events' \in Seq(Events)
  <1>1. events \in Seq(Events)
    BY DEF TypeOK
  <1>2. [kind |-> kind, worker |-> w, sid |-> 0, index |-> 0, ok |-> ok] \in Events
    BY DEF Events, NoSize
  <1>3. PICK e \in Events : e = [kind |-> kind, worker |-> w, sid |-> 0, index |-> 0, ok |-> ok]
    BY <1>2
  <1> QED BY <1>1, <1>3 DEF Emit0

----------------------------------------------------------------------------
(* Every action keeps TypeOK.                                              *)

LEMMA SpawnTyped ==
  ASSUME TypeOK, Spawn \/ Drop \/ SendShutdown \/ Join \/ Begin
  PROVE  TypeOK'
  <1> USE DEF callVars, errVars, workerVars
  <1>1. CASE Spawn
    BY <1>1, NextWorkerTyped, Zenon DEF Spawn, TypeOK, Phases
  <1>2. CASE Drop
    BY <1>2 DEF Drop, TypeOK, Phases
  <1>3. CASE SendShutdown
    <2>1. queue' \in [Workers -> Seq(Commands)]
      BY <1>3, SentTyped DEF SendShutdown, TypeOK
    <2> QED BY <1>3, <2>1, NextWorkerTyped, Zenon DEF SendShutdown, TypeOK, Phases
  <1>4. CASE Join
    BY <1>4, NextWorkerTyped, Zenon DEF Join, TypeOK, Phases
  <1>5. CASE Begin
    BY <1>5 DEF Begin, TypeOK, Phases, NoSize, Verdicts, Errors
  <1> QED BY <1>1, <1>2, <1>3, <1>4, <1>5

LEMMA ConnectRecvTyped ==
  ASSUME TypeOK, ConnectRecv
  PROVE  TypeOK'
  <1>1. events' \in Seq(Events) /\ Event.worker \in Workers
    BY ReceiveTyped DEF ConnectRecv
  <1>2. n' = 0 \/ (n + 1 # WorkerCount /\ n' = n + 1)
    BY DEF ConnectRecv
  <1>5. n' \in Workers
    BY <1>2 DEF TypeOK, Workers
  <1>6. pc' \in Phases
    BY DEF ConnectRecv, TypeOK, Phases
  <1>3. primary' \in Errors
    BY DEF ConnectRecv, First, Errors, TypeOK
  <1>4. heard' \in SUBSET Workers /\ alive' \in SUBSET Workers
    BY <1>1 DEF ConnectRecv, TypeOK
  <1> QED BY <1>1, <1>3, <1>4, <1>5, <1>6, Zenon DEF ConnectRecv, TypeOK, callVars, workerVars

LEMMA StartTyped ==
  ASSUME TypeOK, SendStart \/ StartDone
  PROVE  TypeOK'
  <1> USE DEF callVars, workerVars
  <1>1. CASE SendStart
    <2>1. queue' \in [Workers -> Seq(Commands)]
      BY <1>1, SentTyped DEF SendStart, TypeOK
    <2>2. alive' \in SUBSET Workers /\ active' \in SUBSET Workers /\ primary' \in Errors
      BY <1>1 DEF SendStart, TypeOK, First, Errors
    <2> QED BY <1>1, <2>1, <2>2, NextWorkerTyped, Zenon DEF SendStart, TypeOK, Phases
  <1>2. CASE StartDone
    BY <1>2 DEF StartDone, TypeOK, First, Errors, Phases
  <1> QED BY <1>1, <1>2

LEMMA StartedRecvTyped ==
  ASSUME TypeOK, StartedRecv
  PROVE  TypeOK'
  <1>1. /\ events' \in Seq(Events) /\ Event.worker \in Workers
        /\ Event.index \in NoSize..MaxRanges
    BY ReceiveTyped DEF StartedRecv
  <1>2. heard' \in SUBSET Workers /\ alive' \in SUBSET Workers
    BY <1>1, Zenon DEF StartedRecv, TypeOK
  <1>3. size' \in NoSize..MaxRanges
    BY <1>1 DEF StartedRecv, TypeOK
  <1>4. primary' \in Errors
    BY DEF StartedRecv, First, Errors, TypeOK
  <1> QED BY <1>1, <1>2, <1>3, <1>4, Zenon DEF StartedRecv, TypeOK, workerVars, Phases

LEMMA ScheduleTyped ==
  ASSUME TypeOK, Schedule
  PROVE  TypeOK'
  <1>0. nextJob \in Nat
    BY DEF TypeOK
  <1>1. PICK w \in Workers : w = nextJob % WorkerCount
    BY <1>0, ModWorkers
  <1>2. nextJob \in 0..MaxRanges /\ nextJob + 1 \in 0..MaxRanges
    BY DEF Schedule, InWindow, TypeOK, NoSize
  <1>3. queue' \in [Workers -> Seq(Commands)]
    BY <1>1, <1>2, SentTyped DEF Schedule
  <1>4. /\ alive' \in SUBSET Workers /\ primary' \in Errors
        /\ jobs' \in SUBSET (Nat \X Workers) /\ nextJob' \in 0..MaxRanges
    <2>1. CASE Gone(w)
      BY <1>1, <2>1, Zenon DEF Schedule, TypeOK, Errors
    <2>2. CASE ~Gone(w)
      <3>1. /\ jobs' = jobs \cup {<<nextJob, w>>} /\ nextJob' = nextJob + 1
            /\ UNCHANGED <<alive, primary>>
        BY <1>1, <2>2 DEF Schedule
      <3> QED BY <1>0, <1>1, <1>2, <3>1 DEF TypeOK
    <2> QED BY <2>1, <2>2
  <1> QED BY <1>3, <1>4, Zenon DEF Schedule, TypeOK, workerVars

LEMMA TakeEventTyped ==
  ASSUME TypeOK, NEW e, e.worker \in Workers, TakeEvent(e)
  PROVE  /\ jobs' \in SUBSET (Nat \X Workers) /\ alive' \in SUBSET Workers /\ primary' \in Errors
  <1>1. jobs' \in SUBSET (Nat \X Workers) /\ alive' \in SUBSET Workers
    BY DEF TakeEvent, TypeOK
  <1>2. primary' \in Errors
    BY DEF TakeEvent, First, Errors, TypeOK
  <1> QED BY <1>1, <1>2

LEMMA ReadRecvTyped ==
  ASSUME TypeOK, ReadRecv \/ DrainRecv
  PROVE  TypeOK'
  <1>1. events' \in Seq(Events) /\ Event.worker \in Workers
    BY ReceiveTyped DEF ReadRecv, DrainRecv
  <1>2. /\ jobs' \in SUBSET (Nat \X Workers) /\ alive' \in SUBSET Workers /\ primary' \in Errors
    BY <1>1, TakeEventTyped DEF ReadRecv, DrainRecv
  <1>3. CASE ReadRecv
    <2>1. primary' = "none" => <<Event.index, Event.worker>> \in jobs
      BY <1>3 DEF ReadRecv, TakeEvent, First, Reading
    <2>2. pending' \in SUBSET Nat
      BY <1>3, <2>1, Zenon DEF ReadRecv, TypeOK
    <2> QED BY <1>1, <1>2, <1>3, <2>2 DEF ReadRecv, TypeOK, workerVars, Phases
  <1>4. CASE DrainRecv
    BY <1>1, <1>2, <1>4, Zenon DEF DrainRecv, TypeOK, workerVars, Phases
  <1> QED BY <1>3, <1>4

LEMMA DeliverTyped ==
  ASSUME TypeOK, Deliver \/ DeliverDone \/ ReadDone \/ DrainDone \/ Return
  PROVE  TypeOK'
  <1> USE DEF callVars, errVars, workerVars
  <1>1. CASE Deliver
    <2>1. delivered' \in Seq(Nat)
      BY <1>1 DEF Deliver, TypeOK
    <2> QED BY <1>1, <2>1 DEF Deliver, TypeOK, Phases
  <1>2. CASE DeliverDone \/ ReadDone
    BY <1>2, Zenon DEF DeliverDone, ReadDone, TypeOK, Phases
  <1>3. CASE DrainDone
    BY <1>3 DEF DrainDone, TypeOK, Phases
  <1>4. CASE Return
    BY <1>4, Zenon DEF Return, Outcome, TypeOK, Phases
  <1> QED BY <1>1, <1>2, <1>3, <1>4

LEMMA FinishTyped ==
  ASSUME TypeOK, SendFinish \/ FinishRecv
  PROVE  TypeOK'
  <1> USE DEF callVars, workerVars
  <1>1. CASE SendFinish
    <2>1. queue' \in [Workers -> Seq(Commands)]
      BY <1>1, SentTyped DEF SendFinish, TypeOK
    <2>2. alive' \in SUBSET Workers /\ active' \in SUBSET Workers /\ closeError' \in Errors
      BY <1>1 DEF SendFinish, TypeOK, First, Errors
    <2> QED BY <1>1, <2>1, <2>2, NextWorkerTyped, Zenon DEF SendFinish, TypeOK, Phases
  <1>2. CASE FinishRecv
    <2>1. events' \in Seq(Events) /\ Event.worker \in Workers
      BY <1>2, ReceiveTyped DEF FinishRecv
    <2>2. heard' \in SUBSET Workers /\ alive' \in SUBSET Workers
      BY <1>2, <2>1, Zenon DEF FinishRecv, TypeOK
    <2>3. closeError' \in Errors
      BY <1>2 DEF FinishRecv, First, Errors, TypeOK
    <2> QED BY <1>2, <2>1, <2>2, <2>3, Zenon DEF FinishRecv, TypeOK
  <1> QED BY <1>1, <1>2

\* A worker step leaves the coordinator alone.
LEMMA WorkerTyped ==
  ASSUME TypeOK, UNCHANGED coordVars,
         wpc' \in [Workers -> {"unborn", "connecting", "run", "panicking", "stopped"}],
         file' \in [Workers -> Nat], queue' \in [Workers -> Seq(Commands)], events' \in Seq(Events)
  PROVE  TypeOK'
  BY DEF TypeOK, coordVars, callVars, errVars

LEMMA ConnectTyped ==
  ASSUME TypeOK, NEW w \in Workers, Connect(w) \/ ReportPanic(w)
  PROVE  TypeOK'
  <1>1. events' \in Seq(Events)
    BY Emit0Typed, Zenon DEF Connect, ReportPanic, TypeOK
  <1>2. wpc' \in [Workers -> {"unborn", "connecting", "run", "panicking", "stopped"}]
    BY Zenon DEF Connect, ReportPanic, TypeOK
  <1>3. UNCHANGED <<coordVars, file, queue>>
    BY Zenon DEF Connect, ReportPanic
  <1>4. file' \in [Workers -> Nat] /\ queue' \in [Workers -> Seq(Commands)]
    BY <1>3 DEF TypeOK
  <1> QED BY <1>1, <1>2, <1>3, <1>4, WorkerTyped

LEMMA ServeTyped ==
  ASSUME TypeOK, NEW w \in Workers, Serve(w)
  PROVE  TypeOK'
  <1>1. queue[w] # <<>> /\ queue[w] \in Seq(Commands)
    BY DEF Serve, TypeOK
  <1>2. Head(queue[w]).sid \in Nat /\ Head(queue[w]).index \in 0..MaxRanges
    BY <1>1, CommandFields
  <1>3. queue' \in [Workers -> Seq(Commands)]
    BY <1>1 DEF Serve, TypeOK
  <1>4. UNCHANGED coordVars
    BY DEF Serve
  <1>5. CASE ServeStart(w)
    <2>1. file' \in [Workers -> Nat]
      BY <1>2, <1>5, Zenon DEF ServeStart, TypeOK
    <2>2. events' \in Seq(Events)
      <3>1. \A i \in OpenStreamFile(w) \cup {NoSize} : i \in NoSize..MaxRanges
        BY DEF OpenStreamFile, NoSize
      <3> QED BY <1>1, <1>5, <3>1, EmitTyped, Zenon DEF ServeStart
    <2> QED BY <1>3, <1>4, <1>5, <2>1, <2>2, WorkerTyped, Zenon DEF ServeStart, TypeOK
  <1>6. CASE ServeRead(w)
    <2>1. Head(queue[w]).index \in NoSize..MaxRanges
      BY <1>2 DEF NoSize
    <2>2. PICK ok \in BOOLEAN : Emit(w, "chunk", Head(queue[w]).index, ok)
      BY <1>6, Zenon DEF ServeRead, ReadRange
    <2>3. events' \in Seq(Events)
      BY <1>1, <2>1, <2>2, EmitTyped
    <2> QED BY <1>3, <1>4, <1>6, <2>3, WorkerTyped, Zenon DEF ServeRead, TypeOK, workerVars
  <1>7. CASE ServeFinish(w)
    <2>1. PICK ok \in BOOLEAN : Emit(w, "finished", 0, ok)
      BY <1>7, Zenon DEF ServeFinish
    <2>2. 0 \in NoSize..MaxRanges
      BY DEF NoSize
    <2>3. events' \in Seq(Events)
      BY <1>1, <2>1, <2>2, EmitTyped
    <2>4. file' \in [Workers -> Nat]
      BY <1>7 DEF ServeFinish, TypeOK
    <2> QED BY <1>3, <1>4, <1>7, <2>3, <2>4, WorkerTyped, Zenon DEF ServeFinish, TypeOK
  <1>8. CASE ServeShutdown(w)
    BY <1>3, <1>4, <1>8, WorkerTyped, Zenon DEF ServeShutdown, TypeOK
  <1> QED BY <1>5, <1>6, <1>7, <1>8 DEF Serve

LEMMA PanicTyped ==
  ASSUME TypeOK, NEW w \in Workers, Panic(w) \/ Hangup(w)
  PROVE  TypeOK'
  <1>1. CASE Panic(w)
    <2>1. queue' \in [Workers -> Seq(Commands)]
      BY <1>1 DEF Panic, TypeOK
    <2> QED BY <1>1, <2>1, WorkerTyped, Zenon DEF Panic, TypeOK
  <1>2. CASE Hangup(w)
    BY <1>2, WorkerTyped, Zenon DEF Hangup, ServeShutdown, TypeOK
  <1> QED BY <1>1, <1>2

LEMMA NextTyped == TypeOK /\ [Next]_vars => TypeOK'
  <1> SUFFICES ASSUME TypeOK, [Next]_vars PROVE TypeOK'
    OBVIOUS
  <1>1. CASE Coordinator \/ Begin \/ Drop
    BY <1>1, SpawnTyped, ConnectRecvTyped, StartTyped, StartedRecvTyped, ScheduleTyped,
       ReadRecvTyped, DeliverTyped, FinishTyped DEF Coordinator
  <1>2. CASE WorkerNext
    BY <1>2, ConnectTyped, ServeTyped, PanicTyped DEF WorkerNext, Worker
  <1>3. CASE UNCHANGED vars
    BY <1>3 DEF vars, callVars, errVars, workerVars, TypeOK
  <1> QED BY <1>1, <1>2, <1>3 DEF Next, Done

LEMMA InitTyped == Init => TypeOK
  <1> SUFFICES ASSUME Init PROVE TypeOK
    OBVIOUS
  <1>1. /\ queue \in [Workers -> Seq(Commands)] /\ events \in Seq(Events)
        /\ delivered \in Seq(Nat)
    BY DEF Init
  <1> QED BY <1>1, WorkerZero DEF Init, TypeOK, Phases, NoSize, Verdicts, Errors

\* Every variable of the pool keeps its type.
THEOREM TypeCorrect == Spec => []TypeOK
  BY InitTyped, NextTyped, PTL DEF Spec

----------------------------------------------------------------------------
(* read_stream implements OrderedStream.                                   *)

Streaming == {"start", "started", "read", "deliver", "drain", "finish", "finished"}

\* A stream that ends without an error and without the callback's wish has
\* delivered everything; what is pending lies inside the file.
StreamInv ==
  /\ TypeOK
  /\ Len(delivered) = nextDelivery
  /\ \A i \in pending : i < size
  /\ pc \in {"start", "started"} => verdict = "none" /\ nextDelivery = 0 /\ pending = {}
  /\ pc = "start" => size = NoSize /\ heard = {}
  /\ pc = "started" /\ size # NoSize => 0 \in heard
  /\ pc = "deliver" => verdict = "none" /\ primary = "none"
  /\ pc \in {"read", "deliver", "drain", "finish", "finished"} /\ primary = "none"
       => size # NoSize /\ nextDelivery <= size
  /\ pc \in {"drain", "finish", "finished"} /\ primary = "none" /\ verdict = "none"
       => nextDelivery = size

\* The promise as a step formula over the pool's own variables.
Promise == [Stream!SNext]_(Stream!sVars)

LEMMA Stutter ==
  ASSUME UNCHANGED <<size, delivered, verdict, result>>, pc \in Streaming <=> pc' \in Streaming
  PROVE  Promise
  BY DEF Promise, Stream!sVars, Streaming

LEMMA OutsideStreams ==
  ASSUME StreamInv, TypeOK', Spawn \/ ConnectRecv \/ Drop \/ SendShutdown \/ Join
  PROVE  StreamInv' /\ Promise
  <1>1. /\ UNCHANGED <<size, delivered, verdict, result, pending, nextDelivery>>
        /\ pc \notin Streaming /\ pc' \notin Streaming
    BY DEF Spawn, ConnectRecv, Drop, SendShutdown, Join, callVars, errVars, Streaming
  <1> QED BY <1>1, Stutter DEF StreamInv, Streaming

LEMMA BeginStream ==
  ASSUME StreamInv, TypeOK', Begin
  PROVE  StreamInv' /\ Promise
  <1>1. StreamInv'
    BY DEF Begin, StreamInv
  <1>2. Stream!SBegin
    BY DEF Begin, Stream!SBegin, Stream!NoSize, NoSize
  <1> QED BY <1>1, <1>2 DEF Promise, Stream!SNext

LEMMA StartStream ==
  ASSUME StreamInv, TypeOK', SendStart \/ StartDone
  PROVE  StreamInv' /\ Promise
  <1>1. /\ UNCHANGED <<size, delivered, verdict, result, pending, nextDelivery, heard>>
        /\ pc \in Streaming /\ pc' \in Streaming
    BY DEF SendStart, StartDone, callVars, Streaming
  <1>2. CASE SendStart
    BY <1>1, <1>2, Stutter DEF SendStart, StreamInv, Streaming
  <1>3. CASE StartDone
    <2>1. primary' = "none" => size # NoSize
      BY <1>3 DEF StartDone, First
    <2>2. size # NoSize => 0 <= size
      BY DEF StreamInv, TypeOK, NoSize
    <2> QED BY <1>1, <1>3, <2>1, <2>2, Stutter DEF StartDone, StreamInv, Streaming
  <1> QED BY <1>2, <1>3

LEMMA MeasureStream ==
  ASSUME StreamInv, TypeOK', StartedRecv
  PROVE  StreamInv' /\ Promise
  <1>1. /\ UNCHANGED <<delivered, verdict, result, pending, nextDelivery>>
        /\ pc = "started" /\ pc' \in {"started", "read"}
    BY DEF StartedRecv
  <1>2. pc' = "read" => primary' # "none"
    <2>1. Closed.kind = "closed"
      BY DEF Closed
    <2> QED BY <2>1 DEF StartedRecv, First, Answers, Stops
  <1>3. size' = size \/ (0 \notin heard /\ 0 \in heard')
    BY DEF StartedRecv, Answers
  <1>4. heard \subseteq heard'
    BY DEF StartedRecv
  <1>5. StreamInv'
    BY <1>1, <1>2, <1>3, <1>4 DEF StreamInv
  <1>6. CASE size' = size
    BY <1>1, <1>5, <1>6, Stutter DEF Streaming
  <1>7. CASE size' # size
    <2>1. size = NoSize /\ size' \in 0..MaxRanges
      BY <1>1, <1>3, <1>7 DEF StreamInv, TypeOK, NoSize
    <2>2. Stream!SMeasure
      BY <1>1, <2>1 DEF Stream!SMeasure, Stream!NoSize, NoSize
    <2> QED BY <2>2, <1>5 DEF Promise, Stream!SNext
  <1> QED BY <1>5, <1>6, <1>7

LEMMA ReadStream ==
  ASSUME StreamInv, TypeOK', Schedule \/ ReadRecv \/ DeliverDone \/ ReadDone
  PROVE  StreamInv' /\ Promise
  <1>1. /\ UNCHANGED <<size, delivered, verdict, result, nextDelivery>>
        /\ pc \in Streaming /\ pc' \in Streaming
    BY DEF Schedule, ReadRecv, DeliverDone, ReadDone, callVars, errVars, Streaming
  <1>2. CASE Schedule
    <2>1. pc' = "read" /\ pending' = pending /\ pc = "read" /\ primary = "none"
      BY <1>2 DEF Schedule, Reading
    <2> QED BY <1>1, <2>1, Stutter DEF StreamInv
  <1>3. CASE ReadRecv
    <2>1. /\ pc = "read" /\ primary = "none" /\ verdict = "none"
          /\ (pc' = "deliver" /\ primary' = "none") \/ pc' = "read"
      BY <1>3 DEF ReadRecv, Reading
    <2>2. primary' = "none" => ~(Event.index >= size)
      BY <1>3 DEF ReadRecv, Reading, TakeEvent, First
    <2>3. primary' = "none" => <<Event.index, Event.worker>> \in jobs
      BY <1>3 DEF ReadRecv, TakeEvent, First, Reading
    <2>4. \A i \in pending' : i < size
      <3>1. CASE primary' = "none"
        <4>3. jobs \in SUBSET (Nat \X Workers) /\ size \in Int
          BY DEF StreamInv, TypeOK, NoSize
        <4>1. Event.index \in Nat /\ size \in Int
          BY <2>3, <3>1, <4>3
        <4>2. Event.index < size
          BY <2>2, <3>1, <4>1
        <4> QED BY <1>3, <3>1, <4>2 DEF ReadRecv, StreamInv
      <3>2. CASE primary' # "none"
        BY <1>3, <3>2 DEF ReadRecv, StreamInv
      <3> QED BY <3>1, <3>2
    <2> QED BY <1>1, <2>1, <2>4, Stutter DEF StreamInv
  <1>4. CASE DeliverDone
    BY <1>1, <1>4, Stutter DEF DeliverDone, callVars, errVars, StreamInv
  <1>5. CASE ReadDone
    <2>1. pc = "read" /\ pc' = "drain" /\ UNCHANGED <<pending, primary>>
      BY <1>5 DEF ReadDone, callVars, errVars
    <2>2. primary = "none" /\ verdict = "none" => nextDelivery = size
      <3>1. ASSUME primary = "none", verdict = "none" PROVE nextDelivery = size
        <4>1. ~(nextDelivery < size)
          BY <1>5, <3>1 DEF ReadDone, Reading
        <4>2. nextDelivery <= size /\ nextDelivery \in Nat /\ size \in Int
          BY <2>1, <3>1 DEF StreamInv, TypeOK, NoSize
        <4> QED BY <4>1, <4>2
      <3> QED BY <3>1
    <2> QED BY <1>1, <2>1, <2>2, Stutter DEF StreamInv
  <1> QED BY <1>2, <1>3, <1>4, <1>5

LEMMA DeliverStream ==
  ASSUME StreamInv, TypeOK', Deliver
  PROVE  StreamInv' /\ Promise
  <1>1. /\ pc = "deliver" /\ verdict = "none" /\ nextDelivery \in pending
        /\ pending' = pending \ {nextDelivery} /\ nextDelivery' = nextDelivery + 1
        /\ delivered' = Append(delivered, nextDelivery) /\ verdict' \in Verdicts
        /\ pc' \in {"deliver", "read"} /\ (pc' = "deliver" => verdict' = "none")
        /\ UNCHANGED <<size, result, primary>>
    BY DEF Deliver, StreamInv, errVars
  <1>2. /\ nextDelivery < size /\ nextDelivery \in Nat /\ size \in Int
        /\ delivered \in Seq(Nat) /\ Len(delivered) = nextDelivery
    BY <1>1 DEF StreamInv, TypeOK, NoSize
  <1>3. Len(delivered') = nextDelivery'
    BY <1>1, <1>2
  <1>4. nextDelivery' <= size
    BY <1>1, <1>2
  <1>5. StreamInv'
    BY <1>1, <1>3, <1>4 DEF StreamInv
  <1>6. Stream!SDeliver
    BY <1>1, <1>2 DEF Stream!SDeliver, Stream!Verdicts, Verdicts
  <1> QED BY <1>5, <1>6 DEF Promise, Stream!SNext

LEMMA FinishStream ==
  ASSUME StreamInv, TypeOK', DrainRecv \/ DrainDone \/ SendFinish \/ FinishRecv
  PROVE  StreamInv' /\ Promise
  <1>1. /\ UNCHANGED <<size, delivered, verdict, result, nextDelivery, pending>>
        /\ pc \in {"drain", "finish", "finished"} /\ pc' \in {"drain", "finish", "finished"}
    BY DEF DrainRecv, DrainDone, SendFinish, FinishRecv, callVars, errVars
  <1>2. primary' = "none" => primary = "none"
    BY DEF DrainRecv, TakeEvent, First, DrainDone, SendFinish, FinishRecv, errVars
  <1> QED BY <1>1, <1>2, Stutter DEF StreamInv, Streaming

LEMMA ReturnStream ==
  ASSUME StreamInv, TypeOK', Return
  PROVE  StreamInv' /\ Promise
  <1>1. /\ pc = "finished" /\ pc' = "idle" /\ result' = Outcome
        /\ UNCHANGED <<size, delivered, verdict, nextDelivery, pending, primary>>
    BY DEF Return, callVars
  <1>2. StreamInv'
    BY <1>1 DEF StreamInv
  <1>3. /\ verdict \in Verdicts /\ Len(delivered) = nextDelivery
        /\ primary = "none" /\ verdict = "none" => nextDelivery = size
    BY <1>1 DEF StreamInv, TypeOK
  <1>4. \/ result' = "panic" /\ verdict = "panic"
        \/ result' = "failed" /\ verdict # "panic"
        \/ result' = "callback" /\ verdict = "error"
        \/ result' = "stopped" /\ verdict = "break"
        \/ result' = "complete" /\ verdict = "none" /\ Len(delivered) = size
    BY <1>1, <1>3 DEF Outcome, Verdicts
  <1>5. Stream!SEnd
    BY <1>1, <1>4 DEF Stream!SEnd
  <1> QED BY <1>2, <1>5 DEF Promise, Stream!SNext

LEMMA WorkersStream ==
  ASSUME StreamInv, TypeOK', WorkerNext \/ UNCHANGED vars
  PROVE  StreamInv' /\ Promise
  <1>1. UNCHANGED coordVars
    BY Zenon DEF WorkerNext, Worker, Connect, Serve, Hangup, Panic, ReportPanic, vars, coordVars
  <1> QED BY <1>1, Stutter DEF coordVars, callVars, errVars, StreamInv

LEMMA NextStream == StreamInv /\ [Next]_vars => StreamInv' /\ Promise
  <1> SUFFICES ASSUME StreamInv, [Next]_vars PROVE StreamInv' /\ Promise
    OBVIOUS
  <1>1. TypeOK'
    BY NextTyped DEF StreamInv
  <1> QED BY <1>1, OutsideStreams, BeginStream, StartStream, MeasureStream, ReadStream, DeliverStream,
             FinishStream, ReturnStream, WorkersStream DEF Next, Coordinator, Done

LEMMA InitStream == Init => StreamInv /\ Stream!SInit
  BY InitTyped DEF Init, StreamInv, Stream!SInit, Stream!NoSize, NoSize

\* NfsReadPool::read_stream: for any number of workers, any window and any
\* file, whatever fails, panics or is cancelled, the callback gets the ranges
\* in order and each once, and Complete is returned only after all of them.
THEOREM KeepsPromise == Spec => OrderedDelivery
  BY InitStream, NextStream, PTL DEF Spec, OrderedDelivery, Stream!SSpec, Promise

LEMMA BufferBound == TypeOK /\ BufferInv => BuffersBounded
  <1> SUFFICES ASSUME TypeOK, BufferInv PROVE BuffersBounded
    OBVIOUS
  <1>1. nextJob \in Nat /\ nextDelivery \in Nat /\ nextJob - nextDelivery <= InFlight
    BY DEF TypeOK, BufferInv
  <1>2. nextDelivery..(nextJob - 1) \subseteq nextDelivery..(nextDelivery + InFlight - 1)
    BY <1>1
  <1> QED BY <1>2 DEF BufferInv, BuffersBounded

\* NfsReadPool: for any number of workers, any window and any file, the
\* ranges scheduled or read and not delivered fit effective_in_flight, whatever
\* fails, panics or ends the stream.
THEOREM WindowKept == Spec => []BuffersBounded
  <1>1. Init => TypeOK /\ BufferInv
    BY InitTyped, InitBuffer
  <1>2. (TypeOK /\ BufferInv) /\ [Next]_vars => (TypeOK /\ BufferInv)'
    BY NextTyped, NextBuffer
  <1> QED BY <1>1, <1>2, BufferBound, PTL DEF Spec

----------------------------------------------------------------------------
(* connect.                                                                *)

\* One worker less is left, and one answer less is awaited.
LEMMA CountDown ==
  ASSUME NEW S, NEW x \in S, NEW i \in 0..(WorkerCount - 1), NEW f \in [S -> i..(WorkerCount - 1)], OneToOne(f, S, i)
  PROVE  \E g \in [S \ {x} -> (i + 1)..(WorkerCount - 1)] : OneToOne(g, S \ {x}, i + 1)
  <1> DEFINE g == [v \in S \ {x} |-> IF f[v] = i THEN f[x] ELSE f[v]]
  <1>1. \A v \in S : f[v] \in i..(WorkerCount - 1) /\ (v # x => f[v] # f[x])
    BY DEF OneToOne
  <1>2. \A v \in S \ {x} : g[v] = IF f[v] = i THEN f[x] ELSE f[v]
    OBVIOUS
  <1>3. g \in [S \ {x} -> (i + 1)..(WorkerCount - 1)]
    <2> SUFFICES ASSUME NEW v \in S \ {x} PROVE (IF f[v] = i THEN f[x] ELSE f[v]) \in (i + 1)..(WorkerCount - 1)
      OBVIOUS
    <2> QED BY <1>1
  <1> HIDE DEF g
  <1>4. \A v, w \in S \ {x} : g[v] = g[w] => v = w
    BY <1>1, <1>2 DEF OneToOne
  <1>5. ASSUME NEW k \in (i + 1)..(WorkerCount - 1) PROVE \E v \in S \ {x} : g[v] = k
    <2>1. k \in i..(WorkerCount - 1) /\ i \in i..(WorkerCount - 1) /\ k # i
      OBVIOUS
    <2>2. CASE f[x] = k
      <3>1. PICK v \in S : f[v] = i
        BY <2>1 DEF OneToOne
      <3> QED BY <1>2, <2>1, <2>2, <3>1
    <2>3. CASE f[x] # k
      <3>1. PICK v \in S : f[v] = k
        BY <2>1 DEF OneToOne
      <3> QED BY <1>2, <2>1, <2>3, <3>1
    <2> QED BY <2>2, <2>3
  <1> QED BY <1>3, <1>4, <1>5 DEF OneToOne

\* spawn leaves every worker either unborn or to be heard of.
LEMMA SpawnConnect ==
  ASSUME TypeOK, TypeOK', ConnectInv, Spawn, pc' # "detached"
  PROVE  ConnectInv'
  <1>1. /\ pc = "spawn" /\ wpc' = [wpc EXCEPT ![n] = "connecting"] /\ n' = NextWorker
        /\ pc' = (IF n + 1 = WorkerCount THEN "connect" ELSE "spawn")
        /\ UNCHANGED <<alive, active, heard, sid, primary, file, queue, events>>
    BY DEF Spawn, callVars, errVars
  <1>2. /\ n \in Workers /\ n \in 0..(WorkerCount - 1) /\ heard = {} /\ alive = Workers
        /\ \A w \in Workers : w < n <=> wpc[w] # "unborn"
    BY <1>1 DEF TypeOK, ConnectInv, Counted, Workers
  <1>3. wpc'[n] = "connecting" /\ \A w \in Workers : w # n => wpc'[w] = wpc[w]
    BY <1>1, <1>2 DEF TypeOK
  <1>4. wpc[n] = "unborn"
    BY <1>2
  <1>6. \A k \in DOMAIN events : events[k].worker \in Workers /\ events[k].worker # n
    BY <1>2, <1>4 DEF ConnectInv, ConnectSaid
  <1>7. \A k \in DOMAIN events : wpc'[events[k].worker] = wpc[events[k].worker]
    BY <1>3, <1>6
  <1>8. \A w \in alive \ heard : \/ wpc'[w] \in {"unborn", "connecting", "panicking"}
                                 \/ \E k \in DOMAIN events : events[k].worker = w
    BY <1>2, <1>3 DEF ConnectInv, ConnectHeard
  <1>9. pc' = "spawn" => \A w \in Workers : w < n' <=> wpc'[w] # "unborn"
    <2>1. \A w \in Workers : w < n + 1 <=> w < n \/ w = n
      BY <1>2 DEF Workers
    <2>2. pc' = "spawn" => n' = n + 1
      BY <1>1 DEF NextWorker
    <2> QED BY <1>2, <1>3, <2>1, <2>2
  <1>10. pc' = "connect" => /\ \A w \in Workers : wpc'[w] # "unborn"
                            /\ \E f \in [alive \ heard -> n'..(WorkerCount - 1)] : OneToOne(f, alive \ heard, n')
    <2>1. pc' = "connect" => n' = 0 /\ \A w \in Workers : w = n \/ w < n
      BY <1>1, <1>2 DEF NextWorker, Workers
    <2>2. \E f \in [alive \ heard -> 0..(WorkerCount - 1)] : OneToOne(f, alive \ heard, 0)
      <3>1. alive \ heard = Workers
        BY <1>2
      <3>2. [w \in Workers |-> w] \in [Workers -> 0..(WorkerCount - 1)] /\ OneToOne([w \in Workers |-> w], Workers, 0)
        BY DEF OneToOne, Workers
      <3> QED BY <3>1, <3>2, Zenon
    <2> QED BY <1>2, <1>3, <2>1, <2>2
  <1>11. Counted'
    BY <1>1, <1>2, <1>9, <1>10 DEF Counted
  <1>12. ConnectSaid'
    BY <1>1, <1>2, <1>7 DEF ConnectInv, ConnectSaid
  <1>13. ConnectHeard'
    BY <1>1, <1>2, <1>8 DEF ConnectHeard
  <1> QED BY <1>1, <1>2, <1>11, <1>12, <1>13 DEF ConnectInv

LEMMA ConnectRecvConnect ==
  ASSUME TypeOK, TypeOK', ConnectInv, NoUnexpectedEvent, ConnectRecv
  PROVE  /\ NoUnexpectedEvent' /\ (pc' \in {"spawn", "connect"} => ConnectInv') /\ (Open' => OpenInv')
  <1> DEFINE e == Event
  <1> DEFINE x == Event.worker
  <1> DEFINE left == alive \ heard
  <1>1. /\ pc = "connect" /\ Receive
        /\ UNCHANGED <<active, sid, closeError, wpc, file, queue>>
    BY DEF ConnectRecv, callVars, workerVars
  <1>2. n \in 0..(WorkerCount - 1) /\ \E f \in [left -> n..(WorkerCount - 1)] : OneToOne(f, left, n)
    BY <1>1, Zenon DEF ConnectInv, Counted, TypeOK, Workers
  <1>3. left # {}
    <2>1. n \in n..(WorkerCount - 1)
      BY <1>2
    <2> QED BY <1>2, <2>1 DEF OneToOne
  <1>4. events # <<>>
    <2> SUFFICES ASSUME events = <<>> PROVE FALSE
      OBVIOUS
    <2>1. PICK w \in left : w \in Workers
      BY <1>3 DEF TypeOK
    <2>2. wpc[w] = "stopped" /\ DOMAIN events = {}
      BY <1>1, <2>1 DEF Receive
    <2> QED BY <2>1, <2>2 DEF ConnectInv, ConnectHeard
  <1>5. events' = Tail(events)
    BY <1>1, <1>4 DEF Receive
  <1>6. /\ 1 \in DOMAIN events /\ e = events[1] /\ e \in Events
        /\ \A k \in DOMAIN events' : /\ k + 1 \in DOMAIN events /\ events'[k] = events[k + 1]
                                     /\ k \in Nat \ {0} /\ k + 1 # 1
        /\ \A k \in DOMAIN events : k # 1 => k - 1 \in DOMAIN events' /\ events'[k - 1] = events[k]
    BY <1>4, <1>5, TailFacts
  <1>7. /\ e.kind \in {"ready", "stopped"} /\ x \in left /\ x \in Workers /\ e # Closed
        /\ wpc[x] = IF e.kind = "ready" /\ e.ok THEN "run" ELSE "stopped"
    <2>1. e # Closed /\ x \in Workers
      BY <1>6, EventFields DEF Events, Closed
    <2> QED BY <1>6, <2>1 DEF ConnectInv, ConnectSaid
  <1>8. alive' \ heard' = left \ {x} /\ alive' \subseteq alive /\ (x \in alive' <=> e.kind = "ready" /\ e.ok)
        /\ \A w \in Workers : w # x => (w \in alive' <=> w \in alive)
    <2>1. CASE e.kind = "ready" /\ e.ok
      BY <1>7, <2>1 DEF ConnectRecv
    <2>2. CASE e.kind = "ready" /\ ~e.ok
      BY <1>7, <2>2 DEF ConnectRecv
    <2>3. CASE e.kind = "stopped"
      BY <1>7, <2>3 DEF ConnectRecv
    <2> QED BY <1>7, <2>1, <2>2, <2>3
  <1>9. /\ primary' # "protocol"
        /\ primary' = "none" => primary = "none" /\ alive' = alive
    <2>1. x \notin heard
      BY <1>7
    <2> QED BY <1>7, <2>1 DEF ConnectRecv, First, NoUnexpectedEvent
  <1>10. \A k \in DOMAIN events' :
           /\ events'[k].kind \in {"ready", "stopped"} /\ events'[k].worker \in left \ {x}
           /\ wpc[events'[k].worker] = IF events'[k].kind = "ready" /\ events'[k].ok THEN "run" ELSE "stopped"
           /\ \A l \in DOMAIN events' : events'[k].worker = events'[l].worker => k = l
    <2> SUFFICES ASSUME NEW k \in DOMAIN events'
                 PROVE  /\ events'[k].kind \in {"ready", "stopped"} /\ events'[k].worker \in left \ {x}
                        /\ wpc[events'[k].worker] =
                             IF events'[k].kind = "ready" /\ events'[k].ok THEN "run" ELSE "stopped"
                        /\ \A l \in DOMAIN events' : events'[k].worker = events'[l].worker => k = l
      BY Zenon
    <2>1. k + 1 \in DOMAIN events /\ events'[k] = events[k + 1] /\ k + 1 # 1
      BY <1>6
    <2>2. events[k + 1].worker # x
      BY <1>6, <2>1 DEF ConnectInv, ConnectSaid
    <2>3. ASSUME NEW l \in DOMAIN events', events'[k].worker = events'[l].worker PROVE k = l
      <3>1. l + 1 \in DOMAIN events /\ events'[l] = events[l + 1] /\ l \in Nat /\ k \in Nat
        BY <1>6
      <3>2. k + 1 = l + 1
        BY <2>1, <2>3, <3>1 DEF ConnectInv, ConnectSaid
      <3> QED BY <3>1, <3>2
    <2> QED BY <2>1, <2>2, <2>3 DEF ConnectInv, ConnectSaid
  <1>11. \A w \in left \ {x} : \/ wpc[w] \in {"unborn", "connecting", "panicking"}
                             \/ \E k \in DOMAIN events' : events'[k].worker = w
    <2> SUFFICES ASSUME NEW w \in left \ {x}, wpc[w] \notin {"unborn", "connecting", "panicking"}
                 PROVE  \E k \in DOMAIN events' : events'[k].worker = w
      OBVIOUS
    <2>1. PICK k \in DOMAIN events : events[k].worker = w
      BY DEF ConnectInv, ConnectHeard
    <2>2. k # 1
      BY <1>6, <2>1
    <2> QED BY <1>6, <2>1, <2>2
  <1>12. \A w \in Workers \ (left \ {x}) : wpc[w] = IF w \in alive' THEN "run" ELSE "stopped"
    BY <1>7, <1>8 DEF ConnectInv, ConnectHeard
  <1>13. primary' = "none" => alive' = Workers
    BY <1>9 DEF ConnectInv
  <1>14. \E g \in [left \ {x} -> (n + 1)..(WorkerCount - 1)] : OneToOne(g, left \ {x}, n + 1)
    BY <1>2, <1>7, CountDown, Zenon
  <1> HIDE DEF e, x, left
  <1>15. CASE pc' \in {"spawn", "connect"}
    <2>1. pc' = "connect" /\ n' = n + 1
      BY <1>1, <1>7, <1>15 DEF ConnectRecv, e
    <2>2. \A w \in Workers : wpc'[w] # "unborn" /\ queue'[w] = <<>> /\ file'[w] = 0
      BY <1>1 DEF ConnectInv, Counted
    <2>3. \E f \in [alive' \ heard' -> n'..(WorkerCount - 1)] : OneToOne(f, alive' \ heard', n')
      BY <1>8, <1>14, <2>1, Zenon
    <2>4. sid' = 0 /\ active' = {}
      BY <1>1 DEF ConnectInv
    <2>5. ConnectInv'
      <3>1. Counted'
        BY <2>1, <2>2, <2>3 DEF Counted
      <3>2. ConnectSaid'
        BY <1>1, <1>8, <1>10 DEF ConnectSaid
      <3>3. ConnectHeard'
        BY <1>1, <1>8, <1>11, <1>12 DEF ConnectHeard
      <3> QED BY <1>13, <2>2, <2>4, <3>1, <3>2, <3>3, Zenon DEF ConnectInv
    <2>6. ~Open'
      BY <2>1 DEF Open
    <2> QED BY <1>1, <1>9, <2>5, <2>6 DEF NoUnexpectedEvent
  <1>16. CASE pc' \notin {"spawn", "connect"} /\ Open'
    <2>1. pc' = "idle" /\ n' = 0 /\ primary' = "none" /\ n + 1 = WorkerCount
      BY <1>1, <1>7, <1>16, Zenon DEF ConnectRecv, e, Open
    <2>2. left \ {x} = {}
      <3>1. (n + 1)..(WorkerCount - 1) = {}
        BY <1>2, <2>1
      <3> QED BY <1>14, <3>1
    <2>3. alive' = Workers /\ \A w \in Workers : wpc'[w] = "run"
      BY <1>1, <1>12, <1>13, <2>1, <2>2
    <2>4. DOMAIN events' = {} /\ Awaited' = {}
      BY <1>10, <2>1, <2>2, Zenon DEF Awaited, Owing, Reads
    <2>5. \A w \in Workers : queue'[w] = <<>> /\ file'[w] = 0 /\ DOMAIN queue'[w] = {}
      BY <1>1 DEF ConnectInv
    <2>6. Conversation'
      <3>1. Commanded'
        BY <2>5 DEF Commanded
      <3>2. Replied'
        BY <2>4, Zenon DEF Replied
      <3>3. NothingLost'
        BY <2>3, <2>4 DEF NothingLost, Gone, Stopping
      <3> QED BY <3>1, <3>2, <3>3 DEF Conversation
    <2>7. PhaseInv'
      BY <2>1 DEF PhaseInv
    <2>8. FileInv'
      BY <2>5 DEF FileInv
    <2> QED BY <1>1, <1>9, <1>16, <2>6, <2>7, <2>8 DEF OpenInv, NoUnexpectedEvent
  <1> QED BY <1>1, <1>9, <1>15, <1>16 DEF NoUnexpectedEvent

\* A connecting or panicked worker says how it ended.
LEMMA SayConnect ==
  ASSUME TypeOK, ConnectInv, pc \in {"spawn", "connect"}, NEW w \in Workers,
         wpc[w] \in {"connecting", "panicking"}, NEW e \in Events,
         e.kind \in {"ready", "stopped"}, e.worker = w, events' = Append(events, e),
         wpc' = [wpc EXCEPT ![w] = IF e.kind = "ready" /\ e.ok THEN "run" ELSE "stopped"],
         UNCHANGED <<pc, n, sid, active, alive, heard, primary, queue, file>>
  PROVE  ConnectInv'
  <1>1. w \in alive \ heard
    BY Zenon DEF ConnectInv, ConnectHeard
  <1>2. \A k \in DOMAIN events : events[k].worker # w
    BY DEF ConnectInv, ConnectSaid
  <1>3. PICK m \in Nat : /\ DOMAIN events = 1..m /\ DOMAIN events' = 1..(m + 1) /\ events'[m + 1] = e
                         /\ \A k \in 1..m : events'[k] = events[k]
    BY AppendFacts, Zenon
  <1>4. /\ wpc'[w] = (IF e.kind = "ready" /\ e.ok THEN "run" ELSE "stopped")
        /\ \A v \in Workers : v # w => wpc'[v] = wpc[v]
    BY DEF TypeOK
  <1>5. ASSUME NEW k \in DOMAIN events'
        PROVE  /\ events'[k].kind \in {"ready", "stopped"} /\ events'[k].worker \in alive \ heard
               /\ wpc'[events'[k].worker] = IF events'[k].kind = "ready" /\ events'[k].ok THEN "run" ELSE "stopped"
               /\ \A l \in DOMAIN events' : events'[k].worker = events'[l].worker => k = l
    <2>1. CASE k = m + 1
      <3>1. ASSUME NEW l \in DOMAIN events', events'[k].worker = events'[l].worker PROVE k = l
        <4>1. l \in 1..m => events'[l] = events[l] /\ events[l].worker # w
          BY <1>2, <1>3
        <4> QED BY <1>3, <2>1, <3>1, <4>1
      <3> QED BY <1>1, <1>3, <1>4, <2>1, <3>1
    <2>2. CASE k # m + 1
      <3>1. k \in DOMAIN events /\ events'[k] = events[k] /\ events[k].worker # w
        BY <1>2, <1>3, <2>2
      <3>2. events[k].worker \in Workers
        BY <3>1 DEF ConnectInv, ConnectSaid, TypeOK
      <3>3. wpc'[events[k].worker] = wpc[events[k].worker]
        BY <1>4, <3>1, <3>2
      <3>4. ASSUME NEW l \in DOMAIN events', events'[k].worker = events'[l].worker PROVE k = l
        <4>1. l # m + 1
          BY <1>3, <3>1, <3>4
        <4>2. l \in DOMAIN events /\ events'[l] = events[l]
          BY <1>3, <4>1
        <4> QED BY <3>1, <3>4, <4>2 DEF ConnectInv, ConnectSaid
      <3> QED BY <3>1, <3>3, <3>4 DEF ConnectInv, ConnectSaid
    <2> QED BY <2>1, <2>2
  <1>6. ASSUME NEW v \in alive \ heard
        PROVE  \/ wpc'[v] \in {"unborn", "connecting", "panicking"}
               \/ \E k \in DOMAIN events' : events'[k].worker = v
    <2>1. CASE v = w
      <3>1. m + 1 \in DOMAIN events' /\ events'[m + 1].worker = v
        BY <1>3, <2>1
      <3> QED BY <3>1
    <2>2. CASE v # w /\ \E k \in DOMAIN events : events[k].worker = v
      <3>1. PICK k \in DOMAIN events : events[k].worker = v
        BY <2>2
      <3>2. k \in DOMAIN events' /\ events'[k] = events[k]
        BY <1>3
      <3> QED BY <3>1, <3>2
    <2>3. CASE v # w /\ wpc[v] \in {"unborn", "connecting", "panicking"}
      BY <1>4, <2>3 DEF TypeOK
    <2> QED BY <2>1, <2>2, <2>3 DEF ConnectInv, ConnectHeard
  <1>7. \A v \in Workers \ (alive \ heard) : wpc'[v] = IF v \in alive THEN "run" ELSE "stopped"
    BY <1>1, <1>4 DEF ConnectInv, ConnectHeard
  <1>8. \A v \in Workers : wpc'[v] # "unborn" <=> wpc[v] # "unborn"
    BY <1>4
  <1>9. Counted'
    BY <1>8, Zenon DEF ConnectInv, Counted
  <1>10. ConnectSaid'
    BY <1>5 DEF ConnectSaid
  <1>11. ConnectHeard'
    BY <1>6, <1>7 DEF ConnectHeard
  <1> QED BY <1>9, <1>10, <1>11 DEF ConnectInv

LEMMA WorkerConnect ==
  ASSUME TypeOK, TypeOK', ConnectInv, pc \in {"spawn", "connect"}, NEW w \in Workers, Worker(w)
  PROVE  ConnectInv'
  <1>1. queue[w] = <<>> /\ ~Orphan
    BY DEF ConnectInv, Orphan
  <1>2. UNCHANGED <<pc, n, sid, active, alive, heard, primary>>
    <2>1. UNCHANGED coordVars
      BY Zenon DEF Worker, Connect, Serve, Hangup, Panic, ReportPanic
    <2> QED BY <2>1 DEF coordVars, callVars, errVars
  <1>3. ASSUME NEW kind \in {"ready", "stopped"}, NEW ok \in BOOLEAN, Emit0(w, kind, ok),
               wpc[w] \in {"connecting", "panicking"}, UNCHANGED <<queue, file>>,
               wpc' = [wpc EXCEPT ![w] = IF kind = "ready" /\ ok THEN "run" ELSE "stopped"]
        PROVE  ConnectInv'
    <2> DEFINE e == [kind |-> kind, worker |-> w, sid |-> 0, index |-> 0, ok |-> ok]
    <2>1. e \in Events /\ e.kind = kind /\ e.worker = w /\ e.ok = ok
      BY DEF Events, NoSize
    <2>2. events' = Append(events, e)
      BY <1>1, <1>3 DEF Emit0
    <2> HIDE DEF e
    <2> QED BY <1>2, <1>3, <2>1, <2>2, SayConnect, Zenon
  <1>4. CASE Connect(w)
    <2>1. wpc[w] = "connecting" /\ UNCHANGED <<queue, file>>
      BY <1>4 DEF Connect
    <2>2. CASE wpc' = [wpc EXCEPT ![w] = "run"] /\ Emit0(w, "ready", TRUE)
      BY <1>3, <2>1, <2>2, Zenon
    <2>3. CASE wpc' = [wpc EXCEPT ![w] = "stopped"] /\ Emit0(w, "ready", FALSE)
      BY <1>3, <2>1, <2>3, Zenon
    <2>4. CASE wpc' = [wpc EXCEPT ![w] = "panicking"] /\ UNCHANGED events
      <3>1. w \in alive \ heard /\ \A k \in DOMAIN events : events[k].worker # w
        BY <2>1 DEF ConnectInv, ConnectSaid, ConnectHeard
      <3>2. wpc'[w] = "panicking" /\ \A v \in Workers : v # w => wpc'[v] = wpc[v]
        BY <2>4 DEF TypeOK
      <3>3. \A k \in DOMAIN events : wpc'[events[k].worker] = wpc[events[k].worker]
        BY <3>1, <3>2, Zenon DEF ConnectInv, ConnectSaid, TypeOK
      <3>4. \A v \in alive \ heard : \/ wpc'[v] \in {"unborn", "connecting", "panicking"}
                                     \/ \E k \in DOMAIN events : events[k].worker = v
        BY <3>2, Zenon DEF ConnectInv, ConnectHeard, TypeOK
      <3>5. \A v \in Workers \ (alive \ heard) : wpc'[v] = IF v \in alive THEN "run" ELSE "stopped"
        BY <3>1, <3>2 DEF ConnectInv, ConnectHeard
      <3>6. \A v \in Workers : wpc'[v] # "unborn" <=> wpc[v] # "unborn"
        BY <2>1, <3>2
      <3>7. Counted'
        BY <1>2, <3>6, Zenon DEF ConnectInv, Counted
      <3>8. ConnectSaid'
        BY <1>2, <2>4, <3>3 DEF ConnectInv, ConnectSaid
      <3>9. ConnectHeard'
        BY <1>2, <2>4, <3>4, <3>5 DEF ConnectHeard
      <3> QED BY <1>2, <2>1, <3>7, <3>8, <3>9 DEF ConnectInv
    <2> QED BY <1>1, <1>4, <2>2, <2>3, <2>4, Zenon DEF Connect
  <1>5. CASE ReportPanic(w)
    BY <1>3, <1>5, Zenon DEF ReportPanic
  <1> QED BY <1>1, <1>4, <1>5 DEF Worker, Serve, Hangup, Panic

----------------------------------------------------------------------------
(* The pool as a whole.                                                    *)

\* The steps of read_stream.
Streams == \/ Begin \/ SendStart \/ StartedRecv \/ StartDone \/ Schedule \/ ReadRecv \/ Deliver \/ DeliverDone
           \/ ReadDone \/ DrainRecv \/ DrainDone \/ SendFinish \/ FinishRecv \/ Return

LEMMA StreamsOpen ==
  ASSUME TypeOK, TypeOK', PoolInv, Streams
  PROVE  OpenInv' /\ NoUnexpectedEvent' /\ pc' \notin {"spawn", "connect"}
  <1>1. Open /\ pc' \notin {"spawn", "connect"}
    BY Zenon DEF Streams, Open, Begin, SendStart, StartedRecv, StartDone, Schedule, ReadRecv, Deliver, DeliverDone,
                 ReadDone, DrainRecv, DrainDone, SendFinish, FinishRecv, Return
  <1>2. TypeOK /\ OpenInv /\ BufferInv /\ NoUnexpectedEvent
    BY <1>1 DEF PoolInv
  <1>3. CASE Begin
    BY <1>1, <1>2, <1>3, BeginOpen DEF Begin, NoUnexpectedEvent
  <1>4. CASE SendStart
    <2>1. primary' # "protocol" /\ closeError' = closeError
      BY <1>2, <1>4 DEF SendStart, First, NoUnexpectedEvent
    <2> QED BY <1>1, <1>2, <1>4, <2>1, SendStartOpen DEF NoUnexpectedEvent
  <1>5. CASE StartedRecv \/ StartDone
    BY <1>1, <1>2, <1>5, StartedRecvOpen, StartDoneOpen
  <1>6. CASE Schedule \/ ReadRecv \/ Deliver \/ DeliverDone \/ ReadDone
    BY <1>1, <1>2, <1>6, ScheduleOpen, ReadRecvOpen, DeliverOpen
  <1>7. CASE DrainRecv \/ DrainDone \/ SendFinish \/ FinishRecv \/ Return
    BY <1>1, <1>2, <1>7, DrainOpen, SendFinishOpen, FinishRecvOpen, ReturnOpen
  <1> QED BY <1>3, <1>4, <1>5, <1>6, <1>7 DEF Streams

LEMMA NextPool ==
  ASSUME TypeOK, TypeOK', PoolInv, [Next]_vars
  PROVE  PoolInv'
  <1>1. TypeOK /\ NoUnexpectedEvent /\ BufferInv'
    BY NextBuffer DEF PoolInv
  <1>2. CASE Streams
    BY <1>1, <1>2, StreamsOpen DEF PoolInv
  <1>3. CASE Spawn
    <2>1. /\ pc = "spawn" /\ pc' \in {"spawn", "connect", "detached"} /\ UNCHANGED <<primary, closeError>>
      BY <1>3 DEF Spawn, errVars
    <2>2. ConnectInv
      BY <2>1 DEF PoolInv
    <2>3. pc' \in {"spawn", "connect"} => ConnectInv'
      BY <1>1, <1>3, <2>2, SpawnConnect
    <2>4. ~Open'
      BY <2>1 DEF Open
    <2> QED BY <1>1, <2>1, <2>3, <2>4 DEF PoolInv, NoUnexpectedEvent
  <1>4. CASE ConnectRecv
    <2>1. ConnectInv
      BY <1>4 DEF PoolInv, ConnectRecv
    <2> QED BY <1>1, <1>4, <2>1, ConnectRecvConnect DEF PoolInv
  <1>5. CASE Drop \/ SendShutdown \/ Join
    <2>1. pc' \in {"drop", "join", "dropped"} /\ UNCHANGED <<primary, closeError>>
      BY <1>5 DEF Drop, SendShutdown, Join, errVars
    <2> QED BY <1>1, <2>1 DEF PoolInv, NoUnexpectedEvent, Open
  <1>6. CASE WorkerNext
    <2>1. PICK w \in Workers : Worker(w)
      BY <1>6 DEF WorkerNext
    <2>2. UNCHANGED coordVars
      BY <2>1, Zenon DEF Worker, Connect, Serve, Hangup, Panic, ReportPanic
    <2>3. UNCHANGED <<pc, primary, closeError>>
      BY <2>2 DEF coordVars, errVars
    <2>4. pc \in {"spawn", "connect"} => ConnectInv'
      BY <1>1, <2>1, WorkerConnect DEF PoolInv
    <2>5. Open => OpenInv'
      BY <1>1, <2>1, WorkerOpen DEF PoolInv
    <2> QED BY <1>1, <2>3, <2>4, <2>5 DEF PoolInv, NoUnexpectedEvent, Open
  <1>7. CASE UNCHANGED vars
    <2>1. NoUnexpectedEvent' /\ (Open' <=> Open) /\ (pc' = pc)
      BY <1>1, <1>7 DEF vars, errVars, NoUnexpectedEvent, Open
    <2>2. ConnectInv => ConnectInv'
      <3>1. UNCHANGED <<pc, n, sid, active, alive, heard, primary, queue, file, wpc, events>>
        BY <1>7 DEF vars, callVars, errVars, workerVars
      <3> QED BY <3>1, Zenon DEF ConnectInv, ConnectSaid, ConnectHeard, Counted
    <2>3. UNCHANGED coordVars /\ UNCHANGED <<queue, events, wpc, file>>
      BY <1>7 DEF vars, coordVars, workerVars
    <2>4. OpenInv => OpenInv'
      <3> SUFFICES ASSUME OpenInv PROVE OpenInv'
        OBVIOUS
      <3>1. Conversation' /\ PhaseInv'
        BY <2>3, FrameCoord, FrameConversation DEF OpenInv
      <3>2. FileInv'
        BY <2>3, FrameCoord DEF OpenInv, FileInv, Gone
      <3> QED BY <3>1, <3>2 DEF OpenInv
    <2> QED BY <1>1, <2>1, <2>2, <2>4 DEF PoolInv
  <1> QED BY <1>2, <1>3, <1>4, <1>5, <1>6, <1>7, Zenon DEF Next, Coordinator, Done, Streams

LEMMA InitPool == Init => PoolInv
  <1> SUFFICES ASSUME Init PROVE PoolInv
    OBVIOUS
  <1>1. BufferInv /\ NoUnexpectedEvent
    BY InitBuffer DEF Init, NoUnexpectedEvent
  <1>2. ~Open
    BY DEF Init, Open
  <1>3. ConnectInv
    BY DEF Init, ConnectInv, ConnectSaid, ConnectHeard, Counted, Workers
  <1> QED BY <1>1, <1>2, <1>3 DEF PoolInv

\* NfsReadPool, for any number of workers, any window, any files and any
\* number of streams: the arms of read_stream and finish_stream for an event
\* nobody expects are never taken, the buffers stay within the budget, and
\* between streams the channels are empty and no worker has a file open,
\* whichever commands fail and whichever threads panic.
THEOREM PoolKept == Spec => []PoolSound
  <1>1. Init => TypeOK /\ PoolInv
    BY InitTyped, InitPool
  <1>2. (TypeOK /\ PoolInv) /\ [Next]_vars => (TypeOK /\ PoolInv)'
    BY NextPool, NextTyped
  <1>3. TypeOK /\ PoolInv => PoolSound
    BY BufferBound, IdleReusable DEF PoolInv, PoolSound
  <1> QED BY <1>1, <1>2, <1>3, PTL DEF Spec
=============================================================================
