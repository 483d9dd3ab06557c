--------------------------- MODULE ReadPoolTalk ----------------------------
(***************************************************************************)
(* The inductive invariant of ReadPool, and what sending, receiving,       *)
(* answering and panicking do to the conversation between the coordinator  *)
(* and its workers.                                                        *)
(***************************************************************************)
EXTENDS ReadPool, TLAPS

USE PoolConstants, SMTT(10), Zenon, SMTT(30)

LEMMA WorkerZero == 0 \in Workers
  BY DEF Workers

LEMMA NextWorkerTyped == n \in Workers => NextWorker \in Workers
  BY DEF Workers, NextWorker

LEMMA ModWorkers == \A i \in Nat : i % WorkerCount \in Workers
  BY DEF Workers

LEMMA EventFields ==
  ASSUME NEW e \in Events
  PROVE  e.worker \in Workers /\ e.index \in NoSize..MaxRanges /\ e.ok \in BOOLEAN
  BY DEF Events

LEMMA CommandFields ==
  ASSUME NEW c \in Commands
  PROVE  c.sid \in Nat /\ c.index \in 0..MaxRanges
  BY DEF Commands

----------------------------------------------------------------------------
(* What is outstanding.  BufferInv bounds it; Conversation says that each  *)
(* range or answer the coordinator awaits is in exactly one place.         *)

\* Range i goes to worker i % WorkerCount, is scheduled once, lies between
\* the delivered ranges and nextJob, and is either a job or pending.
BufferInv ==
  /\ \A j \in jobs : /\ j = <<j[1], j[1] % WorkerCount>> /\ j[1] \in nextDelivery..(nextJob - 1)
                     /\ j[1] < size /\ j[1] \notin pending
  /\ pending \subseteq nextDelivery..(nextJob - 1)
  /\ nextDelivery <= nextJob /\ nextJob - nextDelivery <= InFlight
  /\ pc \in {"start", "started"} => jobs = {} /\ pending = {} /\ nextJob = 0 /\ nextDelivery = 0

\* A started pool that is not being dropped.
Open == pc \in {"idle", "start", "started", "read", "deliver", "drain", "finish", "finished"}
Reads == pc \in {"read", "deliver", "drain"}

\* What the coordinator awaits: <<range or 0, worker>>.
Owing == CASE pc \in {"start", "started", "finished"} -> active \ heard
           [] pc = "finish" -> {w \in active : w < n}
           [] OTHER -> {}
Awaited == IF Reads THEN jobs ELSE {<<0, w>> : w \in Owing}
Asked == IF Reads THEN "read" ELSE IF pc \in {"start", "started"} THEN "start" ELSE "finish"
Reply == IF Reads THEN "chunk" ELSE IF pc \in {"start", "started"} THEN "started" ELSE "finished"

\* What an answer in the event channel answers.
Subject(e) == <<IF e.kind = "chunk" THEN e.index ELSE 0, e.worker>>
Stop(k, w) == events[k].kind = "stopped" /\ events[k].worker = w
Answer(k, p) == events[k].kind # "stopped" /\ Subject(events[k]) = p
Unanswered(w) == \E p \in Awaited : p[2] = w /\ \A k \in DOMAIN events : ~Answer(k, p)
Stopping(w) == wpc[w] = "panicking" \/ \E k \in DOMAIN events : Stop(k, w)

\* Commands are of this phase and awaited, each once, and only a running
\* worker has any.
Commanded ==
  /\ \A w \in Workers : \A j \in DOMAIN queue[w] :
       LET c == queue[w][j] IN c.kind = Asked /\ c.sid = sid /\ <<c.index, w>> \in Awaited
  /\ \A w \in Workers : \A i, j \in DOMAIN queue[w] : queue[w][i].index = queue[w][j].index => i = j
  /\ \A w \in Workers : Gone(w) => queue[w] = <<>>

\* Answers are of this phase and awaited, each once, and not commanded any
\* more; a Stopped is the last word of its worker.
Replied ==
  /\ \A k \in DOMAIN events : LET e == events[k] IN
       e.kind # "stopped" => /\ e.kind = Reply /\ e.sid = sid /\ Subject(e) \in Awaited
                             /\ e.kind = "started" /\ e.ok => (e.worker = 0 <=> e.index # NoSize)
  /\ \A k \in DOMAIN events : events[k].kind = "stopped" => wpc[events[k].worker] = "stopped"
  /\ \A k, l \in DOMAIN events : k < l /\ events[k].worker = events[l].worker =>
       /\ events[k].kind # "stopped"
       /\ events[l].kind # "stopped" => Subject(events[k]) # Subject(events[l])
  /\ \A k \in DOMAIN events : \A w \in Workers : \A j \in DOMAIN queue[w] :
       ~Answer(k, <<queue[w][j].index, w>>)

\* Nothing awaited is lost: it is commanded, answered, or its worker has
\* panicked and says so; and a worker panics only over something awaited.
NothingLost ==
  /\ \A p \in Awaited : \/ \E j \in DOMAIN queue[p[2]] : queue[p[2]][j].index = p[1]
                        \/ \E k \in DOMAIN events : Answer(k, p)
                        \/ Stopping(p[2])
  /\ \A w \in Workers : Stopping(w) => Unanswered(w)
  /\ \A w \in Workers : Gone(w) /\ w \in alive => Stopping(w)
  /\ \A w \in Workers : w \notin alive => Gone(w)
  /\ \A w \in Workers : wpc[w] \in {"run", "panicking", "stopped"}

Conversation == Commanded /\ Replied /\ NothingLost

\* f numbers the workers of S from i to the last.
OneToOne(f, S, i) == /\ \A v, w \in S : f[v] = f[w] => v = w
                     /\ \A k \in i..(WorkerCount - 1) : \E v \in S : f[v] = k

\* Spawn and connect go over the workers one by one.
Counted ==
  /\ pc = "spawn" => heard = {} /\ alive = Workers /\ \A w \in Workers : w < n <=> wpc[w] # "unborn"
  /\ pc = "connect" => /\ \A w \in Workers : wpc[w] # "unborn"
                       /\ \E f \in [alive \ heard -> n..(WorkerCount - 1)] : OneToOne(f, alive \ heard, n)

\* The answers in the channel are of workers not heard of yet, one of each.
ConnectSaid ==
  \A k \in DOMAIN events :
    /\ events[k].kind \in {"ready", "stopped"} /\ events[k].worker \in alive \ heard
    /\ wpc[events[k].worker] = IF events[k].kind = "ready" /\ events[k].ok THEN "run" ELSE "stopped"
    /\ \A l \in DOMAIN events : events[k].worker = events[l].worker => k = l

\* Every worker not heard of yet is connecting, has panicked, or has answered.
ConnectHeard ==
  /\ \A w \in alive \ heard : \/ wpc[w] \in {"unborn", "connecting", "panicking"}
                              \/ \E k \in DOMAIN events : events[k].worker = w
  /\ \A w \in Workers \ (alive \ heard) : wpc[w] = IF w \in alive THEN "run" ELSE "stopped"

\* connect receives as many answers as there are workers not heard of yet.
ConnectInv ==
  /\ sid = 0 /\ active = {}
  /\ \A w \in Workers : queue[w] = <<>> /\ file[w] = 0
  /\ primary = "none" => alive = Workers
  /\ ConnectSaid /\ ConnectHeard /\ Counted

\* Where the coordinator stands.
PhaseInv ==
  /\ pc \in {"idle", "started", "read", "deliver", "drain", "finished"} => n = 0
  /\ pc \in {"start", "started", "finished"} => heard \subseteq active
  /\ pc = "finish" => heard = {}
  /\ pc = "start" => heard = {}
  /\ pc = "start" => (\A w \in active : w < n) /\ (primary = "none" => \A w \in Workers : w < n => w \in active)
  /\ pc = "started" /\ primary = "none" => 0 \in active /\ (0 \in heard => size # NoSize)
  /\ pc \in {"read", "deliver"} /\ primary = "none" =>
       \A i \in nextDelivery..(nextJob - 1) : i \in pending \/ \E j \in jobs : j[1] = i
  /\ pc = "read" /\ primary = "none" /\ verdict = "none" => nextDelivery \notin pending

\* Who has the file open.
FileInv ==
  \A w \in Workers :
    /\ file[w] \in {0, sid} /\ (Gone(w) => file[w] = 0)
    /\ pc = "idle" \/ w \notin active => file[w] = 0
    /\ (pc = "finished" \/ (pc = "finish" /\ w < n)) /\ queue[w] = <<>> => file[w] = 0

OpenInv == Conversation /\ PhaseInv /\ FileInv

PoolInv ==
  /\ NoUnexpectedEvent
  /\ BufferInv
  /\ pc \in {"spawn", "connect"} => ConnectInv
  /\ Open => OpenInv

----------------------------------------------------------------------------
(* The buffers.                                                            *)

LEMMA BufferStep ==
  ASSUME BufferInv, UNCHANGED <<jobs, pending, nextJob, nextDelivery, size>>,
         pc' \in {"start", "started"} => pc \in {"start", "started"}
  PROVE  BufferInv'
  BY DEF BufferInv

LEMMA ScheduleBuffer ==
  ASSUME TypeOK, BufferInv, Schedule
  PROVE  BufferInv'
  <1>1. /\ nextJob \in Nat /\ nextDelivery \in Nat /\ size \in Int /\ pc = "read" /\ pc' = "read"
        /\ nextJob < size /\ nextJob - nextDelivery < InFlight
        /\ UNCHANGED <<pending, nextDelivery, size>>
    BY DEF TypeOK, Schedule, InWindow, NoSize
  <1>2. CASE UNCHANGED <<jobs, nextJob>>
    BY <1>1, <1>2 DEF BufferInv
  <1>3. CASE jobs' = jobs \cup {<<nextJob, nextJob % WorkerCount>>} /\ nextJob' = nextJob + 1
    <2>1. \A j \in jobs' : /\ j = <<j[1], j[1] % WorkerCount>>
                           /\ j[1] \in nextDelivery'..(nextJob' - 1)
                           /\ j[1] < size' /\ j[1] \notin pending'
      <3> SUFFICES ASSUME NEW j \in jobs'
                   PROVE  /\ j = <<j[1], j[1] % WorkerCount>>
                          /\ j[1] \in nextDelivery'..(nextJob' - 1)
                          /\ j[1] < size' /\ j[1] \notin pending'
        OBVIOUS
      <3>1. CASE j \in jobs
        BY <1>1, <1>3, <3>1 DEF BufferInv
      <3>2. CASE j = <<nextJob, nextJob % WorkerCount>>
        BY <1>1, <1>3, <3>2 DEF BufferInv
      <3> QED BY <1>3, <3>1, <3>2
    <2>2. pending' \subseteq nextDelivery'..(nextJob' - 1)
      BY <1>1, <1>3 DEF BufferInv
    <2> QED BY <1>1, <1>3, <2>1, <2>2 DEF BufferInv
  <1> QED BY <1>2, <1>3 DEF Schedule

LEMMA ReceiveBuffer ==
  ASSUME TypeOK, BufferInv, ReadRecv \/ DrainRecv
  PROVE  BufferInv'
  <1>1. /\ UNCHANGED <<nextJob, nextDelivery, size>> /\ jobs' \subseteq jobs
        /\ pc' \in {"read", "deliver", "drain", "finish"}
    BY DEF ReadRecv, DrainRecv, TakeEvent
  <1>2. CASE pending' = pending
    BY <1>1, <1>2 DEF BufferInv
  <1>3. CASE ReadRecv /\ pending' # pending
    <2>1. primary' = "none" /\ pending' = pending \cup {Event.index}
      BY <1>3 DEF ReadRecv
    <2>2. <<Event.index, Event.worker>> \in jobs /\ jobs' = jobs \ Answered(Event.index)
      BY <1>3, <2>1 DEF ReadRecv, TakeEvent, First, Reading
    <2>3. \A j \in jobs' : j[1] # Event.index
      BY <2>2 DEF Answered
    <2>4. Event.index \in nextDelivery..(nextJob - 1)
      BY <2>2 DEF BufferInv
    <2> QED BY <1>1, <2>1, <2>3, <2>4 DEF BufferInv
  <1> QED BY <1>2, <1>3 DEF ReadRecv, DrainRecv

LEMMA DeliverBuffer ==
  ASSUME TypeOK, BufferInv, Deliver
  PROVE  BufferInv'
  <1>1. /\ nextJob \in Nat /\ nextDelivery \in Nat /\ nextDelivery \in pending
        /\ pending' = pending \ {nextDelivery} /\ nextDelivery' = nextDelivery + 1
        /\ UNCHANGED <<jobs, nextJob, size>> /\ pc' \in {"deliver", "read"}
    BY DEF TypeOK, Deliver
  <1>2. nextDelivery + 1 <= nextJob
    BY <1>1 DEF BufferInv
  <1>3. \A j \in jobs' : /\ j = <<j[1], j[1] % WorkerCount>>
                         /\ j[1] \in nextDelivery'..(nextJob' - 1)
                         /\ j[1] < size' /\ j[1] \notin pending'
    BY <1>1 DEF BufferInv
  <1>4. pending' \subseteq nextDelivery'..(nextJob' - 1)
    BY <1>1 DEF BufferInv
  <1> QED BY <1>1, <1>2, <1>3, <1>4 DEF BufferInv

LEMMA NextBuffer == TypeOK /\ BufferInv /\ [Next]_vars => BufferInv'
  <1> SUFFICES ASSUME TypeOK, BufferInv, [Next]_vars PROVE BufferInv'
    OBVIOUS
  <1> USE DEF callVars, errVars, workerVars
  <1>1. CASE Begin
    BY <1>1 DEF Begin, BufferInv
  <1>2. CASE StartedRecv
    BY <1>2 DEF StartedRecv, BufferInv
  <1>3. CASE Spawn \/ ConnectRecv \/ Drop \/ SendShutdown \/ Join \/ SendStart \/ StartDone
             \/ DeliverDone \/ ReadDone \/ DrainDone \/ SendFinish \/ FinishRecv \/ Return
    BY <1>3, BufferStep DEF Spawn, ConnectRecv, Drop, SendShutdown, Join, SendStart, StartDone,
       DeliverDone, ReadDone, DrainDone, SendFinish, FinishRecv, Return
  <1>4. CASE WorkerNext \/ UNCHANGED vars
    <2>1. UNCHANGED coordVars
      BY <1>4, Zenon DEF WorkerNext, Worker, Connect, Serve, Hangup, Panic, ReportPanic, vars, coordVars
    <2> QED BY <2>1, BufferStep DEF coordVars
  <1> QED BY <1>1, <1>2, <1>3, <1>4, ScheduleBuffer, ReceiveBuffer, DeliverBuffer
          DEF Next, Coordinator, Done

LEMMA InitBuffer == Init => BufferInv
  BY DEF Init, BufferInv

----------------------------------------------------------------------------
(* The conversation between the coordinator and the workers.               *)

LEMMA AwaitedTyped == TypeOK => Owing \subseteq Workers /\ Awaited \subseteq Nat \X Workers
  <1> SUFFICES ASSUME TypeOK PROVE Owing \subseteq Workers /\ Awaited \subseteq Nat \X Workers
    OBVIOUS
  <1>1. Owing \subseteq Workers
    BY DEF Owing, TypeOK
  <1>2. {<<0, w>> : w \in Owing} \subseteq Nat \X Workers
    BY <1>1
  <1>3. jobs \subseteq Nat \X Workers
    BY DEF TypeOK
  <1> QED BY <1>1, <1>2, <1>3, Zenon DEF Awaited

LEMMA FrameConversation ==
  ASSUME Conversation, UNCHANGED <<queue, events, wpc, sid>>,
         Awaited' = Awaited, Asked' = Asked, Reply' = Reply,
         alive' \subseteq alive, \A w \in Workers : w \in alive /\ w \notin alive' => Gone(w)
  PROVE  Conversation'
  <1>1. \A w : Gone(w)' <=> Gone(w)
    BY DEF Gone
  <1>2. \A w : (Stopping(w)' <=> Stopping(w)) /\ (Unanswered(w)' <=> Unanswered(w))
    BY DEF Stopping, Unanswered, Stop, Answer
  <1>3. Commanded'
    BY <1>1 DEF Conversation, Commanded
  <1>4. Replied'
    BY DEF Conversation, Replied, Answer
  <1>5. NothingLost'
    BY <1>1, <1>2 DEF Conversation, NothingLost, Answer
  <1> QED BY <1>3, <1>4, <1>5 DEF Conversation

\* When nothing is awaited the channels are empty and nobody panics.
LEMMA QuietConversation ==
  ASSUME TypeOK, Conversation, Awaited = {}
  PROVE  events = <<>> /\ \A w \in Workers : queue[w] = <<>> /\ ~Stopping(w)
  <1>1. \A w \in Workers : ~Stopping(w)
    BY DEF Conversation, NothingLost, Unanswered
  <1>2. \A w \in Workers : queue[w] = <<>>
    <2> TAKE w \in Workers
    <2>1. queue[w] \in Seq(Commands) /\ DOMAIN queue[w] = {}
      BY DEF Conversation, Commanded, TypeOK
    <2>2. PICK s \in Seq(Commands) : s = queue[w]
      BY <2>1
    <2>3. Len(s) \in Nat /\ DOMAIN s = 1..Len(s)
      BY <2>2
    <2>4. 1 \notin 1..Len(s)
      BY <2>1, <2>2, <2>3, Zenon
    <2>5. Len(s) = 0
      BY <2>3, <2>4
    <2> QED BY <2>2, <2>5
  <1>3. events \in Seq(Events)
    BY DEF TypeOK
  <1>4. DOMAIN events = {}
    <2> SUFFICES ASSUME NEW k \in DOMAIN events PROVE FALSE
      BY Zenon
    <2>1. events[k].worker \in Workers
      BY <1>3, EventFields
    <2>2. CASE events[k].kind = "stopped"
      BY <1>1, <2>1, <2>2 DEF Stopping, Stop
    <2>3. CASE events[k].kind # "stopped"
      BY <2>3 DEF Conversation, Replied
    <2> QED BY <2>2, <2>3
  <1> QED BY <1>1, <1>2, <1>3, <1>4

LEMMA NewPhase ==
  ASSUME TypeOK, Conversation, Awaited = {}, Awaited' = {}, UNCHANGED <<queue, events, wpc, alive>>
  PROVE  Conversation'
  <1>1. events = <<>> /\ \A w \in Workers : queue[w] = <<>> /\ ~Stopping(w)
    BY QuietConversation
  <1>2. DOMAIN events' = {} /\ \A w \in Workers : DOMAIN queue'[w] = {}
    BY <1>1
  <1>3. \A w \in Workers : (Gone(w)' <=> Gone(w)) /\ ~Stopping(w)'
    BY <1>1, <1>2 DEF Gone, Stopping
  <1>4. Commanded'
    BY <1>1, <1>2 DEF Commanded
  <1>5. Replied'
    BY <1>2 DEF Replied
  <1>6. NothingLost'
    BY <1>1, <1>3 DEF Conversation, NothingLost
  <1> QED BY <1>4, <1>5, <1>6 DEF Conversation

\* The coordinator sends a command to a running worker.
LEMMA AskConversation ==
  ASSUME TypeOK, Conversation, NEW w \in Workers, NEW i \in 0..MaxRanges, ~Gone(w),
         <<i, w>> \notin Awaited, Awaited' = Awaited \cup {<<i, w>>},
         Asked' = Asked, Reply' = Reply, UNCHANGED <<events, wpc, sid, alive>>,
         queue' = [queue EXCEPT ![w] = Append(@, Command(Asked, i))]
  PROVE  Conversation'
  <1> DEFINE c == Command(Asked, i)
  <1>1. c.kind = Asked /\ c.sid = sid /\ c.index = i
    BY DEF Command
  <1>2. queue \in [Workers -> Seq(Commands)] /\ queue[w] \in Seq(Commands) /\ events \in Seq(Events)
    BY DEF TypeOK
  <1> DEFINE m == Len(queue[w])
  <1>3. /\ m \in Nat /\ DOMAIN queue[w] = 1..m /\ DOMAIN queue'[w] = 1..(m + 1)
        /\ queue'[w][m + 1] = c /\ \A j \in 1..m : queue'[w][j] = queue[w][j]
    <2> HIDE DEF c
    <2>1. queue'[w] = Append(queue[w], c)
      BY <1>2 DEF c
    <2> QED BY <1>2, <2>1
  <1>4. \A v \in Workers : v # w => queue'[v] = queue[v]
    BY <1>2
  <1> HIDE DEF c, m
  <1>5. \A v : Gone(v)' <=> Gone(v)
    BY DEF Gone
  <1>6. \A k, p : Answer(k, p)' <=> Answer(k, p)
    BY DEF Answer
  <1>7. \A v : Stopping(v)' <=> Stopping(v)
    BY DEF Stopping, Stop
  <1>8. Commanded'
    <2>1. \A v \in Workers : \A j \in DOMAIN queue'[v] :
             /\ queue'[v][j].kind = Asked' /\ queue'[v][j].sid = sid'
             /\ <<queue'[v][j].index, v>> \in Awaited'
      <3> SUFFICES ASSUME NEW v \in Workers, NEW j \in DOMAIN queue'[v]
                   PROVE  /\ queue'[v][j].kind = Asked' /\ queue'[v][j].sid = sid'
                          /\ <<queue'[v][j].index, v>> \in Awaited'
        BY Zenon
      <3>1. CASE v = w /\ j = m + 1
        BY <1>1, <1>3, <3>1
      <3>2. CASE v = w /\ j # m + 1
        <4>1. j \in 1..m
          BY <1>3, <3>2
        <4> QED BY <1>3, <3>2, <4>1 DEF Conversation, Commanded
      <3>3. CASE v # w
        BY <1>4, <3>3 DEF Conversation, Commanded
      <3> QED BY <3>1, <3>2, <3>3
    <2>2. \A v \in Workers : \A a, b \in DOMAIN queue'[v] : queue'[v][a].index = queue'[v][b].index => a = b
      <3> SUFFICES ASSUME NEW v \in Workers, NEW a \in DOMAIN queue'[v], NEW b \in DOMAIN queue'[v],
                          queue'[v][a].index = queue'[v][b].index
                   PROVE  a = b
        OBVIOUS
      <3>1. CASE v = w
        <4>1. \A j \in 1..m : queue'[w][j].index # i
          BY <1>3 DEF Conversation, Commanded
        <4>2. CASE a = m + 1 \/ b = m + 1
          BY <1>1, <1>3, <3>1, <4>1, <4>2
        <4>3. CASE a # m + 1 /\ b # m + 1
          <5>1. a \in 1..m /\ b \in 1..m
            BY <1>3, <3>1, <4>3
          <5> QED BY <1>3, <3>1, <5>1 DEF Conversation, Commanded
        <4> QED BY <4>2, <4>3
      <3>2. CASE v # w
        BY <1>4, <3>2 DEF Conversation, Commanded
      <3> QED BY <3>1, <3>2
    <2>3. \A v \in Workers : Gone(v)' => queue'[v] = <<>>
      BY <1>4, <1>5 DEF Conversation, Commanded
    <2> QED BY <2>1, <2>2, <2>3, Zenon DEF Commanded
  <1>9. Replied'
    <2>1. \A k \in DOMAIN events : \A v \in Workers : \A j \in DOMAIN queue'[v] :
             ~Answer(k, <<queue'[v][j].index, v>>)
      <3> SUFFICES ASSUME NEW k \in DOMAIN events, NEW v \in Workers, NEW j \in DOMAIN queue'[v]
                   PROVE  ~Answer(k, <<queue'[v][j].index, v>>)
        OBVIOUS
      <3>1. CASE v = w /\ j = m + 1
        <4>1. ~Answer(k, <<i, w>>)
          BY DEF Conversation, Replied, Answer
        <4> QED BY <1>1, <1>3, <3>1, <4>1, Zenon
      <3>2. CASE v = w /\ j # m + 1
        <4>1. j \in 1..m
          BY <1>3, <3>2
        <4> QED BY <1>3, <3>2, <4>1 DEF Conversation, Replied
      <3>3. CASE v # w
        BY <1>4, <3>3 DEF Conversation, Replied
      <3> QED BY <3>1, <3>2, <3>3, Zenon
    <2>2. Awaited \subseteq Awaited'
      OBVIOUS
    <2> QED BY <1>6, <2>1, <2>2, Zenon DEF Conversation, Replied
  <1>10. NothingLost'
    <2>1. \A p \in Awaited' : \/ \E j \in DOMAIN queue'[p[2]] : queue'[p[2]][j].index = p[1]
                              \/ \E k \in DOMAIN events : Answer(k, p)
                              \/ Stopping(p[2])
      <3> SUFFICES ASSUME NEW p \in Awaited'
                   PROVE  \/ \E j \in DOMAIN queue'[p[2]] : queue'[p[2]][j].index = p[1]
                          \/ \E k \in DOMAIN events : Answer(k, p)
                          \/ Stopping(p[2])
        OBVIOUS
      <3>1. CASE p = <<i, w>>
        BY <1>1, <1>3, <3>1
      <3>2. CASE p \in Awaited /\ \E j \in DOMAIN queue[p[2]] : queue[p[2]][j].index = p[1]
        <4>1. PICK j \in DOMAIN queue[p[2]] : queue[p[2]][j].index = p[1]
          BY <3>2
        <4>2. CASE p[2] = w
          BY <1>3, <4>1, <4>2
        <4>3. CASE p[2] # w
          <5>1. queue'[p[2]] = queue[p[2]]
            BY <1>2, <4>3
          <5> QED BY <4>1, <5>1
        <4> QED BY <4>2, <4>3
      <3> QED BY <3>1, <3>2 DEF Conversation, NothingLost
    <2>2. \A v : Unanswered(v) => Unanswered(v)'
      BY <1>6 DEF Unanswered
    <2> QED BY <1>5, <1>6, <1>7, <2>1, <2>2 DEF Conversation, NothingLost
  <1> QED BY <1>8, <1>9, <1>10 DEF Conversation

\* Receiving takes the first event and shifts the others.
LEMMA TailFacts ==
  ASSUME TypeOK, events # <<>>, events' = Tail(events)
  PROVE  /\ 1 \in DOMAIN events /\ Event = events[1] /\ Event \in Events
         /\ \A k \in DOMAIN events' : /\ k + 1 \in DOMAIN events /\ events'[k] = events[k + 1]
                                      /\ k \in Nat \ {0} /\ k + 1 # 1
         /\ \A k \in DOMAIN events : k # 1 => k - 1 \in DOMAIN events' /\ events'[k - 1] = events[k]
  <1>1. PICK s \in Seq(Events) : s = events
    BY DEF TypeOK
  <1>2. Len(s) \in Nat \ {0} /\ DOMAIN s = 1..Len(s) /\ s[1] \in Events /\ Head(s) = s[1]
    BY <1>1
  <1>3. DOMAIN Tail(s) = 1..(Len(s) - 1) /\ \A k \in 1..(Len(s) - 1) : Tail(s)[k] = s[k + 1]
    BY <1>1, <1>2
  <1>4. \A k \in 1..Len(s) : k # 1 => k - 1 \in 1..(Len(s) - 1) /\ (k - 1) + 1 = k
    BY <1>2
  <1>5. \A k \in 1..(Len(s) - 1) : k + 1 \in 1..Len(s) /\ k \in Nat \ {0} /\ k + 1 # 1
    BY <1>2
  <1>6. Event = s[1]
    BY <1>1, <1>2 DEF Event
  <1>7. \A k \in DOMAIN events : k # 1 => k - 1 \in DOMAIN events' /\ events'[k - 1] = events[k]
    BY <1>1, <1>2, <1>3, <1>4
  <1>8. \A k \in DOMAIN events' : /\ k + 1 \in DOMAIN events /\ events'[k] = events[k + 1]
                                  /\ k \in Nat \ {0} /\ k + 1 # 1
    BY <1>1, <1>2, <1>3, <1>5
  <1>9. 1 \in DOMAIN events
    BY <1>1, <1>2
  <1> QED BY <1>1, <1>2, <1>6, <1>7, <1>8, <1>9

\* The coordinator takes an answer, which it no longer awaits.
LEMMA AnswerConversation ==
  ASSUME TypeOK, Conversation, events # <<>>, events' = Tail(events), Event.kind # "stopped",
         Awaited' = Awaited \ {Subject(Event)},
         Asked' = Asked, Reply' = Reply, UNCHANGED <<queue, wpc, sid, alive>>
  PROVE  Conversation'
  <1>1. /\ 1 \in DOMAIN events /\ Event = events[1]
        /\ \A k \in DOMAIN events' : /\ k + 1 \in DOMAIN events /\ events'[k] = events[k + 1]
                                     /\ k \in Nat \ {0} /\ k + 1 # 1
        /\ \A k \in DOMAIN events : k # 1 => k - 1 \in DOMAIN events' /\ events'[k - 1] = events[k]
    BY TailFacts
  <1>2. \A w : Gone(w)' <=> Gone(w)
    BY DEF Gone
  <1>3. \A k \in DOMAIN events' : events[k + 1].kind # "stopped" => Subject(events[k + 1]) # Subject(Event)
    <2> SUFFICES ASSUME NEW k \in DOMAIN events', events[k + 1].kind # "stopped",
                        Subject(events[k + 1]) = Subject(Event)
                 PROVE  FALSE
      OBVIOUS
    <2>1. events[k + 1].worker = events[1].worker
      BY <1>1 DEF Subject
    <2>2. 1 < k + 1 /\ k + 1 \in DOMAIN events
      BY <1>1
    <2> QED BY <1>1, <2>1, <2>2 DEF Conversation, Replied
  <1>4. \A w \in Workers : \A j \in DOMAIN queue[w] : <<queue[w][j].index, w>> # Subject(Event)
    BY <1>1 DEF Conversation, Replied, Answer
  <1>5. \A w : Stopping(w)' <=> Stopping(w)
    <2>1. \A w : Stopping(w)' => Stopping(w)
      BY <1>1 DEF Stopping, Stop
    <2>2. ASSUME NEW w, NEW k \in DOMAIN events, Stop(k, w) PROVE \E l \in DOMAIN events' : Stop(l, w)'
      <3>1. k # 1
        BY <1>1, <2>2 DEF Stop
      <3>2. k - 1 \in DOMAIN events' /\ events'[k - 1] = events[k]
        BY <1>1, <3>1
      <3> QED BY <2>2, <3>2 DEF Stop
    <2> QED BY <2>1, <2>2 DEF Stopping
  <1>6. \A k \in DOMAIN events' : \A p : Answer(k, p)' <=> Answer(k + 1, p)
    BY <1>1 DEF Answer, Subject
  <1>7. Commanded'
    BY <1>2, <1>4 DEF Conversation, Commanded
  <1>8. Replied'
    <2>1. \A k \in DOMAIN events' :
            events'[k].kind # "stopped" =>
              /\ events'[k].kind = Reply' /\ events'[k].sid = sid' /\ Subject(events'[k]) \in Awaited'
              /\ events'[k].kind = "started" /\ events'[k].ok
                   => (events'[k].worker = 0 <=> events'[k].index # NoSize)
      <3> TAKE k \in DOMAIN events'
      <3>1. k + 1 \in DOMAIN events /\ events'[k] = events[k + 1]
        BY <1>1
      <3> QED BY <1>3, <3>1 DEF Conversation, Replied
    <2>2. \A k \in DOMAIN events' : events'[k].kind = "stopped" => wpc'[events'[k].worker] = "stopped"
      BY <1>1 DEF Conversation, Replied
    <2>3. \A k, l \in DOMAIN events' : k < l /\ events'[k].worker = events'[l].worker =>
            /\ events'[k].kind # "stopped"
            /\ events'[l].kind # "stopped" => Subject(events'[k]) # Subject(events'[l])
      <3> SUFFICES ASSUME NEW k \in DOMAIN events', NEW l \in DOMAIN events',
                          k < l, events'[k].worker = events'[l].worker
                   PROVE  /\ events'[k].kind # "stopped"
                          /\ events'[l].kind # "stopped" => Subject(events'[k]) # Subject(events'[l])
        BY Zenon
      <3>1. k + 1 < l + 1
        BY <1>1
      <3>2. k + 1 \in DOMAIN events /\ l + 1 \in DOMAIN events
        BY <1>1
      <3>3. events'[k] = events[k + 1] /\ events'[l] = events[l + 1]
        BY <1>1
      <3> QED BY <3>1, <3>2, <3>3 DEF Conversation, Replied
    <2>4. \A k \in DOMAIN events' : \A w \in Workers : \A j \in DOMAIN queue'[w] :
            ~Answer(k, <<queue[w][j].index, w>>)'
      BY <1>1, <1>6 DEF Conversation, Replied
    <2> QED BY <2>1, <2>2, <2>3, <2>4, Zenon DEF Replied, Subject
  <1>9. NothingLost'
    <2>1. \A p \in Awaited' : \/ \E j \in DOMAIN queue[p[2]] : queue[p[2]][j].index = p[1]
                              \/ \E k \in DOMAIN events' : Answer(k, p)'
                              \/ Stopping(p[2])
      <3> SUFFICES ASSUME NEW p \in Awaited', NEW k \in DOMAIN events, Answer(k, p)
                   PROVE  \E l \in DOMAIN events' : Answer(l, p)'
        BY DEF Conversation, NothingLost
      <3>1. k # 1
        BY <1>1 DEF Answer
      <3>2. k - 1 \in DOMAIN events' /\ events'[k - 1] = events[k]
        BY <1>1, <3>1
      <3> QED BY <3>2 DEF Answer, Subject
    <2>2. \A w : Unanswered(w) => Unanswered(w)'
      <3> SUFFICES ASSUME NEW w, NEW p \in Awaited, p[2] = w, \A k \in DOMAIN events : ~Answer(k, p)
                   PROVE  Unanswered(w)'
        BY DEF Unanswered
      <3>1. p # Subject(Event)
        BY <1>1 DEF Answer
      <3> QED BY <1>1, <1>6, <3>1 DEF Unanswered
    <2> QED BY <1>2, <1>5, <2>1, <2>2 DEF Conversation, NothingLost
  <1> QED BY <1>7, <1>8, <1>9 DEF Conversation

\* The coordinator hears that a worker has stopped and awaits nothing more
\* of it.
LEMMA StopConversation ==
  ASSUME TypeOK, Conversation, events # <<>>, events' = Tail(events), Event.kind = "stopped",
         Awaited' = {p \in Awaited : p[2] # Event.worker}, alive' = alive \ {Event.worker},
         Asked' = Asked, Reply' = Reply, UNCHANGED <<queue, wpc, sid>>
  PROVE  Conversation'
  <1>1. /\ 1 \in DOMAIN events /\ Event = events[1] /\ Event.worker \in Workers
        /\ \A k \in DOMAIN events' : /\ k + 1 \in DOMAIN events /\ events'[k] = events[k + 1]
                                     /\ k \in Nat \ {0} /\ k + 1 # 1
        /\ \A k \in DOMAIN events : k # 1 => k - 1 \in DOMAIN events' /\ events'[k - 1] = events[k]
    BY TailFacts, EventFields
  <1>2. \A w : Gone(w)' <=> Gone(w)
    BY DEF Gone
  <1>3. \A k \in DOMAIN events' : events[k + 1].worker # Event.worker
    <2> SUFFICES ASSUME NEW k \in DOMAIN events', events[k + 1].worker = Event.worker
                 PROVE  FALSE
      OBVIOUS
    <2>2. 1 < k + 1 /\ k + 1 \in DOMAIN events
      BY <1>1
    <2> QED BY <1>1, <2>2 DEF Conversation, Replied
  <1>4. wpc[Event.worker] = "stopped" /\ queue[Event.worker] = <<>>
    BY <1>1 DEF Conversation, Replied, Commanded, Gone
  <1>5. \A w \in Workers : w # Event.worker => (Stopping(w)' <=> Stopping(w))
    <2>1. \A w : Stopping(w)' => Stopping(w)
      BY <1>1 DEF Stopping, Stop
    <2>2. ASSUME NEW w, w # Event.worker, NEW k \in DOMAIN events, Stop(k, w)
          PROVE  \E l \in DOMAIN events' : Stop(l, w)'
      <3>1. k # 1
        BY <1>1, <2>2 DEF Stop
      <3>2. k - 1 \in DOMAIN events' /\ events'[k - 1] = events[k]
        BY <1>1, <3>1
      <3> QED BY <2>2, <3>2 DEF Stop
    <2> QED BY <2>1, <2>2 DEF Stopping
  <1>6. \A k \in DOMAIN events' : \A p : Answer(k, p)' <=> Answer(k + 1, p)
    BY <1>1 DEF Answer, Subject
  <1>10. \A w \in Workers : w = Event.worker => ~Stopping(w)'
    <2> SUFFICES ASSUME NEW w \in Workers, w = Event.worker PROVE ~Stopping(w)'
      OBVIOUS
    <2>1. \A k \in DOMAIN events' : ~Stop(k, w)'
      BY <1>1, <1>3 DEF Stop
    <2>2. wpc'[w] # "panicking"
      BY <1>4
    <2> QED BY <2>1, <2>2 DEF Stopping
  <1>7. Commanded'
    <2>1. \A w \in Workers : \A j \in DOMAIN queue[w] : w # Event.worker
      BY <1>4
    <2> QED BY <1>2, <2>1 DEF Conversation, Commanded
  <1>8. Replied'
    <2>1. \A k \in DOMAIN events' :
            events'[k].kind # "stopped" =>
              /\ events'[k].kind = Reply' /\ events'[k].sid = sid' /\ Subject(events'[k]) \in Awaited'
              /\ events'[k].kind = "started" /\ events'[k].ok
                   => (events'[k].worker = 0 <=> events'[k].index # NoSize)
      <3> TAKE k \in DOMAIN events'
      <3>1. k + 1 \in DOMAIN events /\ events'[k] = events[k + 1]
        BY <1>1
      <3>2. Subject(events[k + 1])[2] # Event.worker
        BY <1>3 DEF Subject
      <3> QED BY <3>1, <3>2 DEF Conversation, Replied
    <2>2. \A k \in DOMAIN events' : events'[k].kind = "stopped" => wpc'[events'[k].worker] = "stopped"
      BY <1>1 DEF Conversation, Replied
    <2>3. \A k, l \in DOMAIN events' : k < l /\ events'[k].worker = events'[l].worker =>
            /\ events'[k].kind # "stopped"
            /\ events'[l].kind # "stopped" => Subject(events'[k]) # Subject(events'[l])
      <3> SUFFICES ASSUME NEW k \in DOMAIN events', NEW l \in DOMAIN events',
                          k < l, events'[k].worker = events'[l].worker
                   PROVE  /\ events'[k].kind # "stopped"
                          /\ events'[l].kind # "stopped" => Subject(events'[k]) # Subject(events'[l])
        BY Zenon
      <3>1. k + 1 < l + 1
        BY <1>1
      <3>2. k + 1 \in DOMAIN events /\ l + 1 \in DOMAIN events
        BY <1>1
      <3>3. events'[k] = events[k + 1] /\ events'[l] = events[l + 1]
        BY <1>1
      <3> QED BY <3>1, <3>2, <3>3 DEF Conversation, Replied
    <2>4. \A k \in DOMAIN events' : \A w \in Workers : \A j \in DOMAIN queue'[w] :
            ~Answer(k, <<queue[w][j].index, w>>)'
      BY <1>1, <1>6 DEF Conversation, Replied
    <2> QED BY <2>1, <2>2, <2>3, <2>4, Zenon DEF Replied, Subject
  <1>9. NothingLost'
    <2>1. \A p \in Awaited' : \/ \E j \in DOMAIN queue[p[2]] : queue[p[2]][j].index = p[1]
                              \/ \E k \in DOMAIN events' : Answer(k, p)'
                              \/ Stopping(p[2])'
      <3> SUFFICES ASSUME NEW p \in Awaited'
                   PROVE  \/ \E j \in DOMAIN queue[p[2]] : queue[p[2]][j].index = p[1]
                          \/ \E k \in DOMAIN events' : Answer(k, p)'
                          \/ Stopping(p[2])'
        OBVIOUS
      <3>1. ASSUME NEW k \in DOMAIN events, Answer(k, p) PROVE \E l \in DOMAIN events' : Answer(l, p)'
        <4>1. k # 1
          BY <1>1, <3>1 DEF Answer
        <4>2. k - 1 \in DOMAIN events' /\ events'[k - 1] = events[k]
          BY <1>1, <4>1
        <4> QED BY <3>1, <4>2 DEF Answer, Subject
      <3>2. ASSUME Stopping(p[2]) PROVE Stopping(p[2])'
        <4>1. CASE wpc[p[2]] = "panicking"
          BY <4>1 DEF Stopping
        <4>2. ASSUME NEW k \in DOMAIN events, Stop(k, p[2]) PROVE \E l \in DOMAIN events' : Stop(l, p[2])'
          <5>1. k # 1
            BY <1>1, <4>2 DEF Stop
          <5>2. k - 1 \in DOMAIN events' /\ events'[k - 1] = events[k]
            BY <1>1, <5>1
          <5> QED BY <4>2, <5>2 DEF Stop
        <4> QED BY <3>2, <4>1, <4>2 DEF Stopping
      <3> QED BY <3>1, <3>2 DEF Conversation, NothingLost
    <2>2. \A w : w # Event.worker /\ Unanswered(w) => Unanswered(w)'
      BY <1>1, <1>6 DEF Unanswered
    <2>3. \A w \in Workers : Stopping(w)' => Unanswered(w)'
      <3> SUFFICES ASSUME NEW w \in Workers, Stopping(w)' PROVE Unanswered(w)'
        OBVIOUS
      <3>1. w # Event.worker
        BY <1>10
      <3>2. Stopping(w)
        BY <1>5, <3>1
      <3>3. Unanswered(w)
        BY <3>2 DEF Conversation, NothingLost
      <3> QED BY <2>2, <3>1, <3>3
    <2>4. \A w \in Workers : Gone(w)' /\ w \in alive' => Stopping(w)'
      BY <1>2, <1>5 DEF Conversation, NothingLost
    <2>5. \A w \in Workers : w \notin alive' => Gone(w)'
      BY <1>2, <1>4 DEF Conversation, NothingLost, Gone
    <2>6. \A w \in Workers : wpc'[w] \in {"run", "panicking", "stopped"}
      BY DEF Conversation, NothingLost
    <2> QED BY <2>1, <2>3, <2>4, <2>5, <2>6 DEF NothingLost
  <1> QED BY <1>7, <1>8, <1>9 DEF Conversation

\* Appending an event.
LEMMA AppendFacts ==
  ASSUME TypeOK, NEW e \in Events, events' = Append(events, e)
  PROVE  \E m \in Nat : /\ DOMAIN events = 1..m /\ DOMAIN events' = 1..(m + 1) /\ events'[m + 1] = e
                        /\ \A k \in 1..m : events'[k] = events[k]
  <1>1. PICK s \in Seq(Events) : s = events
    BY DEF TypeOK
  <1>2. Len(s) \in Nat /\ DOMAIN s = 1..Len(s)
    OBVIOUS
  <1>3. DOMAIN Append(s, e) = 1..(Len(s) + 1) /\ Append(s, e)[Len(s) + 1] = e
    OBVIOUS
  <1>4. \A k \in 1..Len(s) : Append(s, e)[k] = s[k]
    OBVIOUS
  <1> QED BY <1>1, <1>2, <1>3, <1>4, Zenon

\* A worker panics over its first command and loses the others.
LEMMA PanicConversation ==
  ASSUME TypeOK, Conversation, NEW w \in Workers, wpc[w] = "run", queue[w] # <<>>,
         wpc' = [wpc EXCEPT ![w] = "panicking"], queue' = [queue EXCEPT ![w] = <<>>],
         Awaited' = Awaited, Asked' = Asked, Reply' = Reply, UNCHANGED <<events, sid, alive>>
  PROVE  Conversation'
  <1>1. /\ wpc'[w] = "panicking" /\ DOMAIN queue'[w] = {} /\ queue'[w] = <<>>
        /\ \A v \in Workers : v # w => wpc'[v] = wpc[v] /\ queue'[v] = queue[v]
    BY DEF TypeOK
  <1>2. \A k, p : Answer(k, p)' <=> Answer(k, p)
    BY DEF Answer
  <1>3. Gone(w)' /\ Stopping(w)' /\ \A v \in Workers : v # w => (Gone(v)' <=> Gone(v)) /\ (Stopping(v)' <=> Stopping(v))
    BY <1>1 DEF Gone, Stopping, Stop
  <1>4. \A v : Unanswered(v)' <=> Unanswered(v)
    BY <1>2 DEF Unanswered
  <1>5. Unanswered(w)
    <2>1. 1 \in DOMAIN queue[w]
      <3>1. PICK s \in Seq(Commands) : s = queue[w]
        BY DEF TypeOK
      <3>2. Len(s) \in Nat \ {0} /\ DOMAIN s = 1..Len(s)
        BY <3>1
      <3>3. 1 \in 1..Len(s)
        BY <3>2
      <3> QED BY <3>1, <3>2, <3>3
    <2>2. <<queue[w][1].index, w>> \in Awaited
      BY <2>1 DEF Conversation, Commanded
    <2>3. \A k \in DOMAIN events : ~Answer(k, <<queue[w][1].index, w>>)
      BY <2>1, Zenon DEF Conversation, Replied
    <2> QED BY <2>2, <2>3 DEF Unanswered
  <1>6. Commanded'
    <2>1. \A v \in Workers : \A j \in DOMAIN queue'[v] : v # w
      BY <1>1
    <2>2. \A v \in Workers : Gone(v)' => queue'[v] = <<>>
      BY <1>1, <1>3 DEF Conversation, Commanded
    <2>3. \A v \in Workers : \A j \in DOMAIN queue'[v] :
             /\ queue'[v][j].kind = Asked' /\ queue'[v][j].sid = sid'
             /\ <<queue'[v][j].index, v>> \in Awaited'
      BY <1>1, <2>1 DEF Conversation, Commanded
    <2>4. \A v \in Workers : \A a, b \in DOMAIN queue'[v] : queue'[v][a].index = queue'[v][b].index => a = b
      BY <1>1, <2>1 DEF Conversation, Commanded
    <2> QED BY <2>2, <2>3, <2>4, Zenon DEF Commanded
  <1>7. Replied'
    <2>1. \A k \in DOMAIN events : events[k].kind = "stopped" => wpc'[events[k].worker] = "stopped"
      <3> SUFFICES ASSUME NEW k \in DOMAIN events, events[k].kind = "stopped"
                   PROVE  wpc'[events[k].worker] = "stopped"
        OBVIOUS
      <3>1. events[k].worker \in Workers
        BY EventFields DEF TypeOK
      <3>2. wpc[events[k].worker] = "stopped"
        BY DEF Conversation, Replied
      <3> QED BY <1>1, <3>1, <3>2
    <2>2. \A k \in DOMAIN events : \A v \in Workers : \A j \in DOMAIN queue'[v] :
             ~Answer(k, <<queue'[v][j].index, v>>)
      <3>1. \A v \in Workers : \A j \in DOMAIN queue'[v] : queue'[v] = queue[v]
        BY <1>1
      <3> QED BY <3>1 DEF Conversation, Replied
    <2> QED BY <1>2, <2>1, <2>2, Zenon DEF Conversation, Replied
  <1>8. NothingLost'
    <2>1. \A p \in Awaited' : \/ \E j \in DOMAIN queue'[p[2]] : queue'[p[2]][j].index = p[1]
                              \/ \E k \in DOMAIN events : Answer(k, p)
                              \/ Stopping(p[2])'
      <3> SUFFICES ASSUME NEW p \in Awaited
                   PROVE  \/ \E j \in DOMAIN queue'[p[2]] : queue'[p[2]][j].index = p[1]
                          \/ \E k \in DOMAIN events : Answer(k, p)
                          \/ Stopping(p[2])'
        BY Zenon
      <3>1. p[2] \in Workers
        BY AwaitedTyped
      <3>2. CASE p[2] = w
        BY <1>3, <3>2
      <3>3. CASE p[2] # w
        <4>1. queue'[p[2]] = queue[p[2]] /\ (Stopping(p[2]) => Stopping(p[2])')
          BY <1>1, <1>3, <3>1, <3>3
        <4> QED BY <4>1 DEF Conversation, NothingLost
      <3> QED BY <3>2, <3>3
    <2>2. \A v \in Workers : Stopping(v)' => Unanswered(v)'
      BY <1>3, <1>4, <1>5, Zenon DEF Conversation, NothingLost
    <2>3. \A v \in Workers : Gone(v)' /\ v \in alive' => Stopping(v)'
      BY <1>3 DEF Conversation, NothingLost
    <2>4. \A v \in Workers : v \notin alive' => Gone(v)'
      BY <1>3 DEF Conversation, NothingLost
    <2>5. \A v \in Workers : wpc'[v] \in {"run", "panicking", "stopped"}
      BY <1>1, Zenon DEF Conversation, NothingLost
    <2> QED BY <1>2, <2>1, <2>2, <2>3, <2>4, <2>5 DEF NothingLost
  <1> QED BY <1>6, <1>7, <1>8 DEF Conversation

\* The thread of a panicked worker says so.
LEMMA ReportConversation ==
  ASSUME TypeOK, Conversation, NEW w \in Workers, wpc[w] = "panicking",
         wpc' = [wpc EXCEPT ![w] = "stopped"],
         NEW e \in Events, events' = Append(events, e), e.kind = "stopped", e.worker = w,
         Awaited' = Awaited, Asked' = Asked, Reply' = Reply, UNCHANGED <<queue, sid, alive>>
  PROVE  Conversation'
  <1>1. PICK m \in Nat : /\ DOMAIN events = 1..m /\ DOMAIN events' = 1..(m + 1) /\ events'[m + 1] = e
                         /\ \A k \in 1..m : events'[k] = events[k]
    BY AppendFacts
  <1>0. m + 1 \in DOMAIN events' /\ DOMAIN events \subseteq DOMAIN events'
    BY <1>1
  <1>2. wpc'[w] = "stopped" /\ \A v \in Workers : v # w => wpc'[v] = wpc[v]
    BY DEF TypeOK
  <1>3. \A v \in Workers : Gone(v)' <=> Gone(v)
    BY <1>2 DEF Gone
  <1>4. \A p : /\ \A k \in 1..m : Answer(k, p)' <=> Answer(k, p)
               /\ ~Answer(m + 1, p)'
    BY <1>1 DEF Answer, Subject
  <1>5. \A v \in Workers : Stopping(v)' <=> Stopping(v)
    <2>1. Stopping(w)' /\ Stopping(w)
      BY <1>0, <1>1 DEF Stopping, Stop
    <2>2. ASSUME NEW v \in Workers, v # w PROVE Stopping(v)' <=> Stopping(v)
      <3>1. Stopping(v) => Stopping(v)'
        BY <1>0, <1>1, <1>2, <2>2 DEF Stopping, Stop
      <3>2. ASSUME NEW k \in DOMAIN events', Stop(k, v)' PROVE \E l \in DOMAIN events : Stop(l, v)
        <4>1. k # m + 1
          BY <1>1, <2>2, <3>2 DEF Stop
        <4>2. k \in 1..m
          BY <1>1, <4>1
        <4> QED BY <1>1, <3>2, <4>2 DEF Stop
      <3> QED BY <1>2, <2>2, <3>1, <3>2 DEF Stopping
    <2> QED BY <2>1, <2>2
  <1>6. \A v : Unanswered(v) => Unanswered(v)'
    <2> SUFFICES ASSUME NEW v, NEW p \in Awaited, p[2] = v, \A k \in DOMAIN events : ~Answer(k, p)
                 PROVE  Unanswered(v)'
      BY DEF Unanswered
    <2>1. ASSUME NEW k \in DOMAIN events' PROVE ~Answer(k, p)'
      <3>1. CASE k = m + 1
        BY <1>4, <3>1
      <3>2. CASE k # m + 1
        <4>1. k \in 1..m
          BY <1>1, <3>2
        <4> QED BY <1>1, <1>4, <4>1
      <3> QED BY <3>1, <3>2
    <2> QED BY <2>1 DEF Unanswered
  <1>7. Commanded'
    BY <1>3 DEF Conversation, Commanded
  <1>8. Replied'
    <2>1. \A k \in DOMAIN events' :
            events'[k].kind # "stopped" =>
              /\ events'[k].kind = Reply' /\ events'[k].sid = sid' /\ Subject(events'[k]) \in Awaited'
              /\ events'[k].kind = "started" /\ events'[k].ok
                   => (events'[k].worker = 0 <=> events'[k].index # NoSize)
      <3> SUFFICES ASSUME NEW k \in DOMAIN events', events'[k].kind # "stopped"
                   PROVE  /\ events'[k].kind = Reply' /\ events'[k].sid = sid' /\ Subject(events'[k]) \in Awaited'
                          /\ events'[k].kind = "started" /\ events'[k].ok
                               => (events'[k].worker = 0 <=> events'[k].index # NoSize)
        BY Zenon
      <3>1. k \in 1..m /\ events'[k] = events[k]
        BY <1>1
      <3> QED BY <1>1, <3>1 DEF Conversation, Replied
    <2>2. \A k \in DOMAIN events' : events'[k].kind = "stopped" => wpc'[events'[k].worker] = "stopped"
      <3> SUFFICES ASSUME NEW k \in DOMAIN events', events'[k].kind = "stopped"
                   PROVE  wpc'[events'[k].worker] = "stopped"
        BY Zenon
      <3>1. CASE k = m + 1
        BY <1>1, <1>2, <3>1
      <3>2. CASE k # m + 1
        <4>1. k \in 1..m /\ events'[k] = events[k]
          BY <1>1, <3>2
        <4>2. wpc[events[k].worker] = "stopped"
          BY <1>1, <4>1, Zenon DEF Conversation, Replied
        <4>3. events[k].worker \in Workers
          BY <1>1, <4>1, EventFields DEF TypeOK
        <4> QED BY <1>2, <4>1, <4>2, <4>3
      <3> QED BY <3>1, <3>2
    <2>3. \A k, l \in DOMAIN events' : k < l /\ events'[k].worker = events'[l].worker =>
            /\ events'[k].kind # "stopped"
            /\ events'[l].kind # "stopped" => Subject(events'[k]) # Subject(events'[l])
      <3> SUFFICES ASSUME NEW k \in DOMAIN events', NEW l \in DOMAIN events',
                          k < l, events'[k].worker = events'[l].worker
                   PROVE  /\ events'[k].kind # "stopped"
                          /\ events'[l].kind # "stopped" => Subject(events'[k]) # Subject(events'[l])
        BY Zenon
      <3>1. k \in 1..m /\ events'[k] = events[k]
        BY <1>1
      <3>2. CASE l = m + 1
        <4>1. events[k].kind # "stopped"
          BY <1>1, <3>1, <3>2 DEF Conversation, Replied
        <4> QED BY <1>1, <3>1, <3>2, <4>1
      <3>3. CASE l # m + 1
        <4>1. l \in 1..m /\ events'[l] = events[l]
          BY <1>1, <3>3
        <4> QED BY <1>1, <3>1, <4>1 DEF Conversation, Replied
      <3> QED BY <3>2, <3>3
    <2>4. \A k \in DOMAIN events' : \A v \in Workers : \A j \in DOMAIN queue'[v] :
            ~Answer(k, <<queue[v][j].index, v>>)'
      <3> SUFFICES ASSUME NEW k \in DOMAIN events', NEW v \in Workers, NEW j \in DOMAIN queue[v]
                   PROVE  ~Answer(k, <<queue[v][j].index, v>>)'
        BY Zenon
      <3>1. CASE k = m + 1
        BY <1>4, <3>1
      <3>2. CASE k # m + 1
        <4>1. k \in 1..m
          BY <1>1, <3>2
        <4>2. ~Answer(k, <<queue[v][j].index, v>>)
          BY <1>1, <4>1 DEF Conversation, Replied
        <4> QED BY <1>4, <4>1, <4>2, Zenon
      <3> QED BY <3>1, <3>2
    <2> QED BY <2>1, <2>2, <2>3, <2>4, Zenon DEF Replied, Subject
  <1>9. NothingLost'
    <2>1. \A p \in Awaited' : \/ \E j \in DOMAIN queue'[p[2]] : queue'[p[2]][j].index = p[1]
                              \/ \E k \in DOMAIN events' : Answer(k, p)'
                              \/ Stopping(p[2])'
      <3> SUFFICES ASSUME NEW p \in Awaited
                   PROVE  \/ \E j \in DOMAIN queue[p[2]] : queue[p[2]][j].index = p[1]
                          \/ \E k \in DOMAIN events' : Answer(k, p)'
                          \/ Stopping(p[2])'
        BY Zenon
      <3>1. p[2] \in Workers
        BY AwaitedTyped
      <3>2. ASSUME NEW k \in DOMAIN events, Answer(k, p) PROVE \E l \in DOMAIN events' : Answer(l, p)'
        BY <1>0, <1>1, <1>4, <3>2
      <3> QED BY <1>5, <3>1, <3>2, Zenon DEF Conversation, NothingLost
    <2>2. \A v \in Workers : Stopping(v)' => Unanswered(v)'
      BY <1>5, <1>6 DEF Conversation, NothingLost
    <2>3. \A v \in Workers : Gone(v)' /\ v \in alive' => Stopping(v)'
      BY <1>3, <1>5 DEF Conversation, NothingLost
    <2>4. \A v \in Workers : v \notin alive' => Gone(v)'
      BY <1>3, Zenon DEF Conversation, NothingLost
    <2>5. \A v \in Workers : wpc'[v] \in {"run", "panicking", "stopped"}
      BY <1>2 DEF Conversation, NothingLost
    <2> QED BY <2>1, <2>2, <2>3, <2>4, <2>5 DEF NothingLost
  <1> QED BY <1>7, <1>8, <1>9 DEF Conversation
=============================================================================
