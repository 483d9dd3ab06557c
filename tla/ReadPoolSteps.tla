--------------------------- MODULE ReadPoolSteps ---------------------------
(***************************************************************************)
(* Each action of ReadPool keeps the invariant of ReadPoolTalk.            *)
(***************************************************************************)
EXTENDS ReadPoolTalk

USE PoolConstants, SMTT(10), Zenon, SMTT(30)

----------------------------------------------------------------------------
(* The threads of an open pool.                                            *)

\* A worker takes its first command.
LEMMA TakeFacts ==
  ASSUME TypeOK, NEW w \in Workers, queue[w] # <<>>, queue' = [queue EXCEPT ![w] = Tail(@)]
  PROVE  /\ 1 \in DOMAIN queue[w] /\ Head(queue[w]) = queue[w][1] /\ Head(queue[w]) \in Commands
         /\ \A j \in DOMAIN queue'[w] : j + 1 \in DOMAIN queue[w] /\ queue'[w][j] = queue[w][j + 1] /\ j \in Nat \ {0}
         /\ \A j \in DOMAIN queue[w] : j # 1 => j - 1 \in DOMAIN queue'[w] /\ queue'[w][j - 1] = queue[w][j]
         /\ \A v \in Workers : v # w => queue'[v] = queue[v]
  <1>0. queue \in [Workers -> Seq(Commands)]
    BY DEF TypeOK
  <1>1. PICK s \in Seq(Commands) : s = queue[w]
    BY <1>0
  <1>2. Len(s) \in Nat \ {0} /\ DOMAIN s = 1..Len(s) /\ Head(s) = s[1] /\ s[1] \in Commands
    BY <1>1
  <1>3. DOMAIN Tail(s) = 1..(Len(s) - 1) /\ \A k \in 1..(Len(s) - 1) : Tail(s)[k] = s[k + 1]
    BY <1>1, <1>2
  <1>4. queue'[w] = Tail(s) /\ \A v \in Workers : v # w => queue'[v] = queue[v]
    BY <1>0, <1>1
  <1>5. \A j \in 1..(Len(s) - 1) : j + 1 \in 1..Len(s) /\ Tail(s)[j] = s[j + 1] /\ j \in Nat \ {0}
    BY <1>2, <1>3
  <1>6. \A j \in 1..Len(s) : j # 1 => j - 1 \in 1..(Len(s) - 1) /\ Tail(s)[j - 1] = s[j]
    BY <1>2, <1>3
  <1>7. 1 \in 1..Len(s)
    BY <1>2
  <1>8. \A j \in DOMAIN queue'[w] : j + 1 \in DOMAIN queue[w] /\ queue'[w][j] = queue[w][j + 1] /\ j \in Nat \ {0}
    BY <1>1, <1>2, <1>3, <1>4, <1>5, Zenon
  <1>9. \A j \in DOMAIN queue[w] : j # 1 => j - 1 \in DOMAIN queue'[w] /\ queue'[w][j - 1] = queue[w][j]
    BY <1>1, <1>2, <1>3, <1>4, <1>6, Zenon
  <1> QED BY <1>1, <1>2, <1>4, <1>7, <1>8, <1>9

\* A worker serves a command: its answer is in the channel instead.
LEMMA ServeConversation ==
  ASSUME TypeOK, Conversation, NEW w \in Workers, wpc[w] = "run", queue[w] # <<>>,
         queue' = [queue EXCEPT ![w] = Tail(@)],
         NEW e \in Events, events' = Append(events, e), e.kind = Reply, e.sid = sid, Reply # "stopped",
         Subject(e) = <<Head(queue[w]).index, w>>,
         e.kind = "started" /\ e.ok => (e.worker = 0 <=> e.index # NoSize),
         Awaited' = Awaited, Asked' = Asked, Reply' = Reply, UNCHANGED <<wpc, sid, alive>>
  PROVE  Conversation'
  <1> DEFINE i == Head(queue[w]).index
  <1>1. PICK m \in Nat : /\ DOMAIN events = 1..m /\ DOMAIN events' = 1..(m + 1) /\ events'[m + 1] = e
                         /\ \A k \in 1..m : events'[k] = events[k]
    BY AppendFacts
  <1>2. /\ 1 \in DOMAIN queue[w] /\ queue[w][1].index = i
        /\ \A j \in DOMAIN queue'[w] : j + 1 \in DOMAIN queue[w] /\ queue'[w][j] = queue[w][j + 1] /\ j \in Nat \ {0}
        /\ \A j \in DOMAIN queue[w] : j # 1 => j - 1 \in DOMAIN queue'[w] /\ queue'[w][j - 1] = queue[w][j]
        /\ \A v \in Workers : v # w => queue'[v] = queue[v]
    BY TakeFacts, Zenon
  <1> HIDE DEF i
  <1>3. e.worker = w /\ Subject(e) = <<i, w>> /\ <<i, w>> \in Awaited
    BY <1>2 DEF Conversation, Commanded, Subject, i
  <1>4. \A v : Gone(v)' <=> Gone(v)
    BY DEF Gone
  <1>5. \A v : Stopping(v)' <=> Stopping(v)
    <2>1. \A v : Stopping(v) => Stopping(v)'
      BY <1>1 DEF Stopping, Stop
    <2>2. ASSUME NEW v, NEW k \in DOMAIN events', Stop(k, v)' PROVE \E l \in DOMAIN events : Stop(l, v)
      <3>1. k # m + 1
        BY <1>1, <2>2 DEF Stop
      <3>2. k \in 1..m
        BY <1>1, <3>1
      <3> QED BY <1>1, <2>2, <3>2 DEF Stop
    <2> QED BY <2>1, <2>2 DEF Stopping
  <1>6. \A p : /\ \A k \in 1..m : Answer(k, p)' <=> Answer(k, p)
               /\ Answer(m + 1, p)' <=> p = <<i, w>>
    BY <1>1, <1>3 DEF Answer, Subject
  <1>7. ~Stopping(w) /\ \A k \in 1..m : ~Answer(k, <<i, w>>)
    <2>1. ~Stopping(w)
      BY DEF Conversation, Replied, Stopping, Stop
    <2>2. \A k \in 1..m : ~Answer(k, <<i, w>>)
      BY <1>1, <1>2, Zenon DEF Conversation, Replied
    <2> QED BY <2>1, <2>2
  <1>8. \A j \in DOMAIN queue'[w] : queue'[w][j].index # i
    BY <1>2 DEF Conversation, Commanded
  <1>9. Commanded'
    <2>1. \A v \in Workers : \A j \in DOMAIN queue'[v] :
             /\ queue'[v][j].kind = Asked' /\ queue'[v][j].sid = sid'
             /\ <<queue'[v][j].index, v>> \in Awaited'
      <3> SUFFICES ASSUME NEW v \in Workers, NEW j \in DOMAIN queue'[v]
                   PROVE  /\ queue'[v][j].kind = Asked' /\ queue'[v][j].sid = sid'
                          /\ <<queue'[v][j].index, v>> \in Awaited'
        BY Zenon
      <3>1. PICK l \in DOMAIN queue[v] : queue'[v][j] = queue[v][l]
        BY <1>2
      <3>2. queue[v][l].kind = Asked /\ queue[v][l].sid = sid /\ <<queue[v][l].index, v>> \in Awaited
        BY Zenon DEF Conversation, Commanded
      <3> QED BY <3>1, <3>2
    <2>2. \A v \in Workers : \A a, b \in DOMAIN queue'[v] : queue'[v][a].index = queue'[v][b].index => a = b
      <3> SUFFICES ASSUME NEW v \in Workers, NEW a \in DOMAIN queue'[v], NEW b \in DOMAIN queue'[v],
                          queue'[v][a].index = queue'[v][b].index
                   PROVE  a = b
        BY Zenon
      <3>1. CASE v = w
        <4>1. a + 1 = b + 1 /\ a \in Nat /\ b \in Nat
          BY <1>2, <3>1 DEF Conversation, Commanded
        <4> QED BY <4>1
      <3>2. CASE v # w
        BY <1>2, <3>2 DEF Conversation, Commanded
      <3> QED BY <3>1, <3>2
    <2>3. \A v \in Workers : Gone(v)' => queue'[v] = <<>>
      BY <1>2, <1>4 DEF Conversation, Commanded, Gone
    <2> QED BY <2>1, <2>2, <2>3, Zenon DEF Commanded
  <1>10. Replied'
    <2>1. \A k \in DOMAIN events' :
            events'[k].kind # "stopped" =>
              /\ events'[k].kind = Reply' /\ events'[k].sid = sid' /\ Subject(events'[k]) \in Awaited'
              /\ events'[k].kind = "started" /\ events'[k].ok
                   => (events'[k].worker = 0 <=> events'[k].index # NoSize)
      <3> TAKE k \in DOMAIN events'
      <3>1. CASE k = m + 1
        BY <1>1, <1>3, <3>1, Zenon
      <3>2. CASE k # m + 1
        <4>1. k \in 1..m
          BY <1>1, <3>2
        <4> QED BY <1>1, <4>1 DEF Conversation, Replied
      <3> QED BY <3>1, <3>2
    <2>2. \A k \in DOMAIN events' : events'[k].kind = "stopped" => wpc'[events'[k].worker] = "stopped"
      <3> TAKE k \in DOMAIN events'
      <3>1. CASE k = m + 1
        BY <1>1, <1>3, <3>1
      <3>2. CASE k # m + 1
        <4>1. k \in 1..m
          BY <1>1, <3>2
        <4> QED BY <1>1, <4>1 DEF Conversation, Replied
      <3> QED BY <3>1, <3>2
    <2>3. \A k, l \in DOMAIN events' : k < l /\ events'[k].worker = events'[l].worker =>
            /\ events'[k].kind # "stopped"
            /\ events'[l].kind # "stopped" => Subject(events'[k]) # Subject(events'[l])
      <3> SUFFICES ASSUME NEW k \in DOMAIN events', NEW l \in DOMAIN events',
                          k < l, events'[k].worker = events'[l].worker
                   PROVE  /\ events'[k].kind # "stopped"
                          /\ events'[l].kind # "stopped" => Subject(events'[k]) # Subject(events'[l])
        BY Zenon
      <3>1. k \in 1..m /\ events'[k] = events[k]
        BY <1>1
      <3>2. CASE l = m + 1
        <4>1. events'[k].kind # "stopped"
          BY <1>1, <1>3, <1>7, <3>1, <3>2 DEF Stopping, Stop
        <4>2. Subject(events[k]) # <<i, w>>
          BY <1>7, <3>1, <4>1 DEF Answer
        <4> QED BY <1>1, <1>3, <3>1, <3>2, <4>1, <4>2
      <3>3. CASE l # m + 1
        <4>1. l \in 1..m /\ events'[l] = events[l]
          BY <1>1, <3>3
        <4> QED BY <1>1, <3>1, <4>1 DEF Conversation, Replied
      <3> QED BY <3>2, <3>3
    <2>4. \A k \in DOMAIN events' : \A v \in Workers : \A j \in DOMAIN queue'[v] :
            ~Answer(k, <<queue[v][j].index, v>>)'
      <3> SUFFICES ASSUME NEW k \in DOMAIN events', NEW v \in Workers, NEW j \in DOMAIN queue'[v]
                   PROVE  ~Answer(k, <<queue[v][j].index, v>>)'
        BY Zenon
      <3>1. CASE k = m + 1
        <4>1. <<queue'[v][j].index, v>> # <<i, w>>
          BY <1>8
        <4> QED BY <1>6, <3>1, <4>1
      <3>2. CASE k # m + 1
        <4>1. k \in 1..m
          BY <1>1, <3>2
        <4>2. \E l \in DOMAIN queue[v] : queue'[v][j].index = queue[v][l].index
          BY <1>2
        <4>3. ~Answer(k, <<queue'[v][j].index, v>>)
          BY <1>1, <4>1, <4>2 DEF Conversation, Replied
        <4> QED BY <1>6, <4>1, <4>3, Zenon
      <3> QED BY <3>1, <3>2
    <2> QED BY <2>1, <2>2, <2>3, <2>4, Zenon DEF Replied, Subject
  <1>11. NothingLost'
    <2>1. \A p \in Awaited' : \/ \E j \in DOMAIN queue'[p[2]] : queue'[p[2]][j].index = p[1]
                              \/ \E k \in DOMAIN events' : Answer(k, p)'
                              \/ Stopping(p[2])
      <3> SUFFICES ASSUME NEW p \in Awaited
                   PROVE  \/ \E j \in DOMAIN queue'[p[2]] : queue'[p[2]][j].index = p[1]
                          \/ \E k \in DOMAIN events' : Answer(k, p)'
                          \/ Stopping(p[2])
        BY Zenon
      <3>0. m + 1 \in DOMAIN events' /\ DOMAIN events \subseteq DOMAIN events'
        BY <1>1
      <3>1. CASE p = <<i, w>>
        BY <1>6, <3>0, <3>1, Zenon
      <3>2. ASSUME p # <<i, w>>, NEW j \in DOMAIN queue[p[2]], queue[p[2]][j].index = p[1]
            PROVE  \E l \in DOMAIN queue'[p[2]] : queue'[p[2]][l].index = p[1]
        <4>0. p \in Nat \X Workers
          BY AwaitedTyped
        <4>1. CASE p[2] = w
          <5>1. p[1] # i
            BY <3>2, <4>0, <4>1
          <5>2. j # 1
            BY <1>2, <3>2, <4>1, <5>1
          <5>3. j - 1 \in DOMAIN queue'[w] /\ queue'[w][j - 1] = queue[w][j]
            BY <1>2, <3>2, <4>1, <5>2
          <5> QED BY <3>2, <4>1, <5>3
        <4>2. CASE p[2] # w
          <5>1. queue'[p[2]] = queue[p[2]]
            BY <1>2, <4>0, <4>2
          <5> QED BY <3>2, <5>1, Zenon
        <4> QED BY <4>1, <4>2, Zenon
      <3>3. ASSUME NEW k \in DOMAIN events, Answer(k, p) PROVE \E l \in DOMAIN events' : Answer(l, p)'
        BY <1>1, <1>6, <3>0, <3>3
      <3> QED BY <3>1, <3>2, <3>3, Zenon DEF Conversation, NothingLost
    <2>2. \A v \in Workers : Stopping(v)' => Unanswered(v)'
      <3> SUFFICES ASSUME NEW v \in Workers, Stopping(v)' PROVE Unanswered(v)'
        OBVIOUS
      <3>1. v # w /\ Unanswered(v)
        BY <1>5, <1>7 DEF Conversation, NothingLost
      <3>2. PICK p \in Awaited : p[2] = v /\ \A k \in DOMAIN events : ~Answer(k, p)
        BY <3>1, Zenon DEF Unanswered
      <3>3. \A k \in DOMAIN events' : ~Answer(k, p)'
        <4> TAKE k \in DOMAIN events'
        <4>1. CASE k = m + 1
          BY <1>6, <3>1, <3>2, <4>1
        <4>2. CASE k # m + 1
          <5>1. k \in 1..m
            BY <1>1, <4>2
          <5> QED BY <1>1, <1>6, <3>2, <5>1
        <4> QED BY <4>1, <4>2
      <3> QED BY <3>2, <3>3 DEF Unanswered
    <2>3. \A v \in Workers : Gone(v)' /\ v \in alive' => Stopping(v)'
      BY <1>4, <1>5 DEF Conversation, NothingLost
    <2>4. \A v \in Workers : v \notin alive' => Gone(v)'
      BY <1>4 DEF Conversation, NothingLost
    <2>5. \A v \in Workers : wpc'[v] \in {"run", "panicking", "stopped"}
      BY Zenon DEF Conversation, NothingLost
    <2> QED BY <1>5, <2>1, <2>2, <2>3, <2>4, <2>5 DEF NothingLost
  <1> QED BY <1>9, <1>10, <1>11 DEF Conversation

LEMMA FrameCoord ==
  ASSUME UNCHANGED coordVars
  PROVE  /\ Awaited' = Awaited /\ Asked' = Asked /\ Reply' = Reply
         /\ UNCHANGED <<pc, n, active, sid, alive>> /\ (PhaseInv => PhaseInv')
  <1> USE DEF coordVars, callVars, errVars
  <1>1. Awaited' = Awaited
    BY DEF Awaited, Reads, Owing
  <1>2. Asked' = Asked /\ Reply' = Reply
    BY DEF Asked, Reply, Reads
  <1>3. UNCHANGED <<pc, n, active, sid, alive>>
    OBVIOUS
  <1>4. PhaseInv => PhaseInv'
    BY Zenon DEF PhaseInv
  <1> QED BY <1>1, <1>2, <1>3, <1>4

\* The first command of a worker.
LEMMA FirstCommand ==
  ASSUME TypeOK, Conversation, NEW w \in Workers, queue[w] # <<>>
  PROVE  /\ Head(queue[w]).kind = Asked /\ Head(queue[w]).sid = sid
         /\ <<Head(queue[w]).index, w>> \in Awaited
         /\ Head(queue[w]).index \in 0..MaxRanges
  <1>1. PICK s \in Seq(Commands) : s = queue[w]
    BY DEF TypeOK
  <1>2. 1 \in DOMAIN s /\ Head(s) = s[1] /\ Head(s) \in Commands
    BY <1>1
  <1>3. Head(queue[w]).index \in 0..MaxRanges
    BY <1>1, <1>2, CommandFields
  <1>4. 1 \in DOMAIN queue[w] /\ Head(queue[w]) = queue[w][1]
    BY <1>1, <1>2
  <1>5. queue[w][1].kind = Asked /\ queue[w][1].sid = sid /\ <<queue[w][1].index, w>> \in Awaited
    BY <1>4, Zenon DEF Conversation, Commanded
  <1> QED BY <1>3, <1>4, <1>5, Zenon

LEMMA FileStep ==
  ASSUME TypeOK, FileInv, NEW w \in Workers, UNCHANGED <<pc, n, active, sid>>,
         \A v \in Workers : v # w => file'[v] = file[v] /\ queue'[v] = queue[v] /\ wpc'[v] = wpc[v],
         file'[w] \in {0, sid}, Gone(w)' => file'[w] = 0,
         pc = "idle" \/ w \notin active => file'[w] = 0,
         (pc = "finished" \/ (pc = "finish" /\ w < n)) /\ queue'[w] = <<>> => file'[w] = 0
  PROVE  FileInv'
  <1> SUFFICES ASSUME NEW v \in Workers
               PROVE  /\ file'[v] \in {0, sid} /\ (Gone(v)' => file'[v] = 0)
                      /\ pc = "idle" \/ v \notin active => file'[v] = 0
                      /\ (pc = "finished" \/ (pc = "finish" /\ v < n)) /\ queue'[v] = <<>> => file'[v] = 0
    BY Zenon DEF FileInv
  <1>1. CASE v = w
    BY <1>1
  <1>2. CASE v # w
    BY <1>2 DEF FileInv, Gone
  <1> QED BY <1>1, <1>2

LEMMA ServeOpen ==
  ASSUME TypeOK, TypeOK', Open, OpenInv, NEW w \in Workers, Serve(w)
  PROVE  OpenInv'
  <1>1. /\ wpc[w] = "run" /\ queue[w] # <<>> /\ queue' = [queue EXCEPT ![w] = Tail(@)]
        /\ UNCHANGED coordVars
    BY DEF Serve
  <1>2. Conversation /\ PhaseInv /\ FileInv
    BY DEF OpenInv
  <1> DEFINE c == Head(queue[w])
  <1>3. /\ c.kind = Asked /\ c.sid = sid /\ <<c.index, w>> \in Awaited /\ c.index \in 0..MaxRanges
    BY <1>1, <1>2, FirstCommand
  <1>4. /\ Awaited' = Awaited /\ Asked' = Asked /\ Reply' = Reply /\ PhaseInv'
        /\ UNCHANGED <<pc, n, active, sid, alive>>
    BY <1>1, <1>2, FrameCoord
  <1>5. ~Orphan
    BY DEF Orphan, Open
  <1>6. sid \in Nat
    BY DEF TypeOK
  <1>7. \A v \in Workers : v # w => queue'[v] = queue[v]
    BY <1>1 DEF TypeOK
  <1>8. file[w] \in {0, sid} /\ ~Gone(w)
    BY <1>1, <1>2 DEF FileInv, Gone
  <1> HIDE DEF c
  <1>9. CASE c.kind = "start" /\ ServeStart(w)
    <2>1. pc \in {"start", "started"} /\ Reply = "started" /\ ~Reads
      BY <1>3, <1>9 DEF Asked, Reply, Reads
    <2>2. c.index = 0 /\ w \in active
      BY <1>3, <2>1 DEF Awaited, Owing
    <2>3. PICK i \in NoSize..MaxRanges, ok \in BOOLEAN :
            /\ ok => (w = 0 <=> i # NoSize)
            /\ Emit(w, "started", i, ok)
      <3>1. NoSize \in NoSize..MaxRanges /\ 0..MaxRanges \subseteq NoSize..MaxRanges /\ NoSize \notin 0..MaxRanges
        BY DEF NoSize
      <3>2. CASE \E s \in OpenStreamFile(w) : Emit(w, "started", s, TRUE)
        <4>1. PICK s \in OpenStreamFile(w) : Emit(w, "started", s, TRUE)
          BY <3>2, Zenon
        <4>2. s \in NoSize..MaxRanges /\ (w = 0 <=> s # NoSize)
          BY <3>1, <4>1, Zenon DEF OpenStreamFile
        <4> QED BY <4>1, <4>2, Zenon
      <3>3. CASE Emit(w, "started", NoSize, FALSE)
        BY <3>1, <3>3, Zenon
      <3> QED BY <1>9, <3>2, <3>3, Zenon DEF ServeStart
    <2> DEFINE e == [kind |-> "started", worker |-> w, sid |-> c.sid, index |-> i, ok |-> ok]
    <2>4. /\ e \in Events /\ e.kind = "started" /\ e.sid = sid /\ Subject(e) = <<0, w>>
          /\ e.worker = w /\ e.index = i /\ e.ok = ok
      BY <1>3, <1>6 DEF Events, Subject
    <2>5. events' = Append(events, e)
      BY <1>5, <2>3 DEF Emit, c
    <2> HIDE DEF e
    <2>6. UNCHANGED wpc
      BY <1>9 DEF ServeStart
    <2>7. Conversation'
      BY <1>1, <1>2, <1>4, <2>1, <2>2, <2>3, <2>4, <2>5, <2>6, ServeConversation, Zenon DEF c
    <2>8. (file'[w] = sid \/ file'[w] = file[w]) /\ \A v \in Workers : v # w => file'[v] = file[v]
      BY <1>3, <1>9, Zenon DEF ServeStart, TypeOK, c
    <2>9. FileInv'
      <3>1. ~Gone(w)' /\ file'[w] \in {0, sid} /\ \A v \in Workers : v # w => wpc'[v] = wpc[v]
        BY <1>8, <2>6, <2>8 DEF Gone
      <3> QED BY <1>2, <1>4, <1>7, <2>1, <2>2, <2>8, <3>1, FileStep
    <2> QED BY <1>4, <2>7, <2>9 DEF OpenInv
  <1>10. CASE c.kind = "read" /\ ServeRead(w)
    <2>1. pc \in {"read", "deliver", "drain"} /\ Reply = "chunk"
      BY <1>3, <1>10 DEF Asked, Reply, Reads
    <2>2. PICK ok \in BOOLEAN : Emit(w, "chunk", c.index, ok)
      BY <1>10, Zenon DEF ServeRead, ReadRange, c
    <2> DEFINE e == [kind |-> "chunk", worker |-> w, sid |-> c.sid, index |-> c.index, ok |-> ok]
    <2>3. c.index \in NoSize..MaxRanges
      BY <1>3 DEF NoSize
    <2>4. e \in Events /\ e.kind = "chunk" /\ e.sid = sid /\ Subject(e) = <<c.index, w>>
      BY <1>3, <1>6, <2>3 DEF Events, Subject
    <2>5. events' = Append(events, e)
      BY <1>5, <2>2 DEF Emit, c
    <2> HIDE DEF e
    <2>6. UNCHANGED wpc /\ UNCHANGED file
      BY <1>10 DEF ServeRead, workerVars
    <2>7. Conversation'
      BY <1>1, <1>2, <1>4, <2>1, <2>4, <2>5, <2>6, ServeConversation, Zenon DEF c
    <2>8. w \notin active => file[w] = 0
      BY <1>2 DEF FileInv
    <2>9. ~Gone(w)' /\ \A v \in Workers : v # w => wpc'[v] = wpc[v] /\ file'[v] = file[v]
      BY <1>8, <2>6 DEF Gone
    <2>10. FileInv'
      BY <1>2, <1>4, <1>7, <1>8, <2>1, <2>6, <2>8, <2>9, FileStep
    <2> QED BY <1>4, <2>7, <2>10 DEF OpenInv
  <1>11. CASE c.kind = "finish" /\ ServeFinish(w)
    <2>1. ~Reads /\ pc \notin {"start", "started"} /\ Reply = "finished"
      BY <1>3, <1>11 DEF Asked, Reply
    <2>2. c.index = 0
      BY <1>3, <2>1 DEF Awaited
    <2>3. PICK ok \in BOOLEAN : Emit(w, "finished", 0, ok)
      BY <1>11, Zenon DEF ServeFinish
    <2> DEFINE e == [kind |-> "finished", worker |-> w, sid |-> c.sid, index |-> 0, ok |-> ok]
    <2>4. e \in Events /\ e.kind = "finished" /\ e.sid = sid /\ Subject(e) = <<0, w>>
      BY <1>3, <1>6 DEF Events, Subject, NoSize
    <2>5. events' = Append(events, e)
      BY <1>5, <2>3 DEF Emit, c
    <2> HIDE DEF e
    <2>6. UNCHANGED wpc
      BY <1>11 DEF ServeFinish
    <2>7. Conversation'
      BY <1>1, <1>2, <1>4, <2>1, <2>2, <2>4, <2>5, <2>6, ServeConversation, Zenon DEF c
    <2>8. file'[w] = 0 /\ \A v \in Workers : v # w => file'[v] = file[v]
      BY <1>3, <1>8, <1>11, Zenon DEF ServeFinish, TypeOK, c
    <2>9. ~Gone(w)' /\ \A v \in Workers : v # w => wpc'[v] = wpc[v]
      BY <1>8, <2>6 DEF Gone
    <2>10. FileInv'
      BY <1>2, <1>4, <1>7, <2>8, <2>9, FileStep
    <2> QED BY <1>4, <2>7, <2>10 DEF OpenInv
  <1>12. c.kind # "shutdown"
    BY <1>3 DEF Asked
  <1> QED BY <1>9, <1>10, <1>11, <1>12 DEF Serve, c

LEMMA PanicOpen ==
  ASSUME TypeOK, TypeOK', Open, OpenInv, NEW w \in Workers, Panic(w)
  PROVE  OpenInv'
  <1>1. /\ wpc[w] = "run" /\ queue[w] # <<>> /\ queue' = [queue EXCEPT ![w] = <<>>]
        /\ wpc' = [wpc EXCEPT ![w] = "panicking"] /\ file' = [file EXCEPT ![w] = 0]
        /\ UNCHANGED coordVars /\ UNCHANGED events
    BY DEF Panic
  <1>2. Conversation /\ PhaseInv /\ FileInv
    BY DEF OpenInv
  <1>3. /\ Awaited' = Awaited /\ Asked' = Asked /\ Reply' = Reply /\ PhaseInv'
        /\ UNCHANGED <<pc, n, active, sid, alive>>
    BY <1>1, <1>2, FrameCoord
  <1>4. Conversation'
    BY <1>1, <1>2, <1>3, PanicConversation, Zenon
  <1>5. /\ file'[w] = 0
        /\ \A v \in Workers : v # w => queue'[v] = queue[v] /\ wpc'[v] = wpc[v] /\ file'[v] = file[v]
    BY <1>1 DEF TypeOK
  <1>6. FileInv'
    BY <1>2, <1>3, <1>5, FileStep
  <1> QED BY <1>3, <1>4, <1>6 DEF OpenInv

LEMMA ReportOpen ==
  ASSUME TypeOK, TypeOK', Open, OpenInv, NEW w \in Workers, ReportPanic(w)
  PROVE  OpenInv'
  <1> DEFINE e == [kind |-> "stopped", worker |-> w, sid |-> 0, index |-> 0, ok |-> FALSE]
  <1>1. /\ wpc[w] = "panicking" /\ wpc' = [wpc EXCEPT ![w] = "stopped"]
        /\ UNCHANGED coordVars /\ UNCHANGED <<file, queue>>
    BY DEF ReportPanic
  <1>2. events' = Append(events, e)
    BY DEF ReportPanic, Emit0, Orphan, Open
  <1>3. e \in Events /\ e.kind = "stopped" /\ e.worker = w
    BY DEF Events, NoSize
  <1> HIDE DEF e
  <1>4. Conversation /\ PhaseInv /\ FileInv
    BY DEF OpenInv
  <1>5. /\ Awaited' = Awaited /\ Asked' = Asked /\ Reply' = Reply /\ PhaseInv'
        /\ UNCHANGED <<pc, n, active, sid, alive>>
    BY <1>1, <1>4, FrameCoord
  <1>6. Conversation'
    BY <1>1, <1>2, <1>3, <1>4, <1>5, ReportConversation, Zenon
  <1>7. \A v \in Workers : v # w => queue'[v] = queue[v] /\ wpc'[v] = wpc[v] /\ file'[v] = file[v]
    BY <1>1 DEF TypeOK
  <1>8. file'[w] = 0
    BY <1>1, <1>4 DEF FileInv, Gone
  <1>9. FileInv'
    BY <1>4, <1>5, <1>7, <1>8, FileStep
  <1> QED BY <1>5, <1>6, <1>9 DEF OpenInv

LEMMA WorkerOpen ==
  ASSUME TypeOK, TypeOK', Open, OpenInv, NEW w \in Workers, Worker(w)
  PROVE  OpenInv'
  <1>1. ~Connect(w)
    BY Zenon DEF Connect, OpenInv, Conversation, NothingLost
  <1>2. ~Hangup(w)
    BY DEF Hangup, Orphan, Open
  <1> QED BY <1>1, <1>2, ServeOpen, PanicOpen, ReportOpen DEF Worker

----------------------------------------------------------------------------
(* The coordinator of an open pool.                                        *)

LEMMA FileFrame ==
  ASSUME FileInv, UNCHANGED <<file, wpc, sid>>,
         \A w \in Workers : pc' = "idle" \/ w \notin active' => file[w] = 0,
         \A w \in Workers : (pc' = "finished" \/ (pc' = "finish" /\ w < n')) /\ queue'[w] = <<>> => file[w] = 0
  PROVE  FileInv'
  BY Zenon DEF FileInv, Gone

\* While something is awaited the channel does not close, and the next event
\* is an answer to it or the end of a worker that owes one.
LEMMA ReceiveOpen ==
  ASSUME TypeOK, Conversation, Awaited # {}, Receive
  PROVE  /\ events # <<>> /\ events' = Tail(events) /\ Event \in Events /\ Event # Closed
         /\ Event.kind # "stopped" =>
              /\ Event.kind = Reply /\ Event.sid = sid /\ Subject(Event) \in Awaited
              /\ Event.kind = "started" /\ Event.ok => (Event.worker = 0 <=> Event.index # NoSize)
         /\ Event.kind = "stopped" => \E p \in Awaited : p[2] = Event.worker
  <1>1. events # <<>>
    <2> SUFFICES ASSUME events = <<>> PROVE FALSE
      OBVIOUS
    <2>1. PICK p \in Awaited : p[2] \in Workers
      BY AwaitedTyped
    <2>2. wpc[p[2]] = "stopped" /\ DOMAIN events = {}
      BY <2>1 DEF Receive
    <2>3. queue[p[2]] = <<>>
      BY <2>1, <2>2 DEF Conversation, Commanded, Gone
    <2>4. DOMAIN queue[p[2]] = {}
      BY <2>3
    <2> QED BY <2>1, <2>2, <2>4 DEF Conversation, NothingLost, Stopping
  <1>2. events' = Tail(events)
    BY <1>1 DEF Receive
  <1>3. 1 \in DOMAIN events /\ Event = events[1] /\ Event \in Events
    BY <1>1, <1>2, TailFacts
  <1>4. Event # Closed
    BY <1>3 DEF Events, Closed
  <1>5. ASSUME Event.kind # "stopped"
        PROVE  /\ Event.kind = Reply /\ Event.sid = sid /\ Subject(Event) \in Awaited
               /\ Event.kind = "started" /\ Event.ok => (Event.worker = 0 <=> Event.index # NoSize)
    BY <1>3, <1>5 DEF Conversation, Replied
  <1>6. ASSUME Event.kind = "stopped" PROVE \E p \in Awaited : p[2] = Event.worker
    <2>1. Event.worker \in Workers /\ Stopping(Event.worker)
      BY <1>3, <1>6, EventFields DEF Stopping, Stop
    <2> QED BY <2>1 DEF Conversation, NothingLost, Unanswered
  <1> QED BY <1>1, <1>2, <1>3, <1>4, <1>5, <1>6

LEMMA BeginOpen ==
  ASSUME TypeOK, TypeOK', Open, OpenInv, Begin
  PROVE  OpenInv'
  <1>1. Conversation /\ PhaseInv /\ FileInv
    BY DEF OpenInv
  <1>2. pc = "idle" /\ pc' = "start" /\ active' = {} /\ heard' = {} /\ n' = n /\ n = 0
    BY <1>1 DEF Begin, PhaseInv
  <1>3. Awaited = {} /\ Awaited' = {}
    BY <1>2 DEF Awaited, Owing, Reads
  <1>4. UNCHANGED <<queue, events, wpc, alive, file>>
    BY DEF Begin, workerVars
  <1>5. Conversation'
    BY <1>1, <1>3, <1>4, NewPhase
  <1>6. PhaseInv'
    BY <1>2 DEF PhaseInv, Workers
  <1>7. FileInv'
    <2>1. \A w \in Workers : file'[w] = 0
      BY <1>1, <1>2, <1>4 DEF FileInv
    <2> QED BY <2>1, Zenon DEF FileInv
  <1> QED BY <1>5, <1>6, <1>7 DEF OpenInv

LEMMA SendStartOpen ==
  ASSUME TypeOK, TypeOK', Open, OpenInv, SendStart
  PROVE  OpenInv'
  <1>1. TypeOK /\ Conversation /\ PhaseInv /\ FileInv
    BY DEF OpenInv
  <1>2. /\ pc = "start" /\ pc' = (IF n + 1 = WorkerCount THEN "started" ELSE pc) /\ n' = NextWorker
        /\ UNCHANGED <<heard, events, wpc, file, sid, size>> /\ heard = {}
    BY <1>1 DEF SendStart, callVars, workerVars, PhaseInv
  <1>3. n \in Workers /\ n \notin active /\ pc' \in {"start", "started"} /\ n \in 0..(WorkerCount - 1)
    BY <1>1, <1>2 DEF TypeOK, PhaseInv, Workers
  <1>4. /\ Awaited = {<<0, w>> : w \in active} /\ Awaited' = {<<0, w>> : w \in active'}
        /\ Asked = "start" /\ Asked' = "start" /\ Reply = "started" /\ Reply' = "started"
    BY <1>2, <1>3 DEF Awaited, Owing, Reads, Asked, Reply
  <1>5. /\ pc' = "start" => n' = n + 1
        /\ pc' = "started" => n' = 0 /\ \A w \in Workers : w # n => w < n
    BY <1>2, <1>3 DEF NextWorker, Workers
  <1>6. CASE Gone(n)
    <2>1. alive' = alive \ {n} /\ UNCHANGED <<active, queue>> /\ primary' # "none"
      BY <1>6 DEF SendStart, Sent, First
    <2>2. Conversation'
      BY <1>1, <1>2, <1>4, <1>6, <2>1, FrameConversation
    <2>3. PhaseInv'
      <3>1. \A w \in active' : w < n + 1
        BY <1>1, <1>2, <1>3, <2>1 DEF PhaseInv, TypeOK, Workers
      <3> QED BY <1>2, <1>3, <1>5, <2>1, <3>1 DEF PhaseInv
    <2>4. FileInv'
      BY <1>1, <1>2, <1>3, <2>1, FileFrame DEF FileInv
    <2> QED BY <2>2, <2>3, <2>4 DEF OpenInv
  <1>7. CASE ~Gone(n)
    <2>1. /\ active' = active \cup {n} /\ UNCHANGED <<alive, primary>>
          /\ queue' = [queue EXCEPT ![n] = Append(@, Command(Asked, 0))]
      BY <1>4, <1>7 DEF SendStart, Sent
    <2>2. Awaited' = Awaited \cup {<<0, n>>} /\ <<0, n>> \notin Awaited
      BY <1>3, <1>4, <2>1
    <2>3. 0 \in 0..MaxRanges
      OBVIOUS
    <2>4. Conversation'
      BY <1>1, <1>2, <1>3, <1>4, <1>7, <2>1, <2>2, <2>3, AskConversation, Zenon
    <2>5. PhaseInv'
      <3>1. \A w \in active' : w < n + 1
        BY <1>1, <1>2, <1>3, <2>1 DEF PhaseInv, TypeOK, Workers
      <3>2. primary = "none" => \A w \in Workers : w < n + 1 => w \in active'
        BY <1>1, <1>2, <1>3, <2>1 DEF PhaseInv, Workers
      <3>3. pc' = "started" /\ primary = "none" => 0 \in active'
        BY <1>3, <1>5, <3>2, WorkerZero DEF Workers
      <3> QED BY <1>2, <1>3, <1>5, <2>1, <3>1, <3>2, <3>3 DEF PhaseInv
    <2>6. FileInv'
      BY <1>1, <1>2, <1>3, <2>1, FileFrame DEF FileInv
    <2> QED BY <2>4, <2>5, <2>6 DEF OpenInv
  <1> QED BY <1>6, <1>7

LEMMA StartedRecvOpen ==
  ASSUME TypeOK, TypeOK', Open, OpenInv, NoUnexpectedEvent, StartedRecv
  PROVE  OpenInv' /\ NoUnexpectedEvent'
  <1>1. Conversation /\ PhaseInv /\ FileInv
    BY DEF OpenInv
  <1>2. /\ pc = "started" /\ heard # active /\ Receive
        /\ UNCHANGED <<n, active, sid, closeError, wpc, file, queue>>
    BY DEF StartedRecv, workerVars
  <1>3. /\ Awaited = {<<0, w>> : w \in active \ heard} /\ heard \subseteq active
        /\ Asked = "start" /\ Reply = "started"
    BY <1>1, <1>2 DEF Awaited, Owing, Reads, Asked, Reply, PhaseInv
  <1>4. Awaited # {}
    BY <1>2, <1>3, Zenon
  <1> DEFINE e == Event
  <1>5. /\ events # <<>> /\ events' = Tail(events) /\ e \in Events /\ e # Closed
        /\ e.kind # "stopped" =>
              /\ e.kind = Reply /\ e.sid = sid /\ Subject(e) \in Awaited
              /\ e.kind = "started" /\ e.ok => (e.worker = 0 <=> e.index # NoSize)
        /\ e.kind = "stopped" => \E p \in Awaited : p[2] = e.worker
    BY <1>1, <1>2, <1>4, ReceiveOpen
  <1>6. e.worker \in active \ heard
    <2>1. CASE e.kind = "stopped"
      BY <1>3, <1>5, <2>1
    <2>2. CASE e.kind # "stopped"
      BY <1>3, <1>5, <2>2 DEF Subject
    <2> QED BY <2>1, <2>2
  <1>7. heard' = heard \cup {e.worker} /\ pc' = "started"
    BY <1>2, <1>3, <1>5, <1>6 DEF StartedRecv, Answers, Stops
  <1>8. /\ Awaited' = {<<0, w>> : w \in active \ heard'} /\ Asked' = Asked /\ Reply' = Reply
    BY <1>2, <1>3, <1>7 DEF Awaited, Owing, Reads, Asked, Reply
  <1>9. CASE e.kind = "stopped"
    <2>1. alive' = alive \ {e.worker} /\ primary' = First(primary, "stopped") /\ size' = size
      BY <1>6, <1>9 DEF StartedRecv, Stops, Answers
    <2>2. Awaited' = {p \in Awaited : p[2] # e.worker}
      BY <1>3, <1>7, <1>8
    <2>3. Conversation'
      BY <1>1, <1>2, <1>5, <1>8, <1>9, <2>1, <2>2, StopConversation
    <2>4. primary' # "none" /\ primary' # "protocol"
      BY <2>1 DEF First, NoUnexpectedEvent
    <2>5. PhaseInv'
      BY <1>1, <1>2, <1>6, <1>7, <2>4 DEF PhaseInv
    <2>6. FileInv'
      BY <1>1, <1>2, <1>7, FileFrame DEF FileInv
    <2> QED BY <1>2, <2>3, <2>4, <2>5, <2>6 DEF OpenInv, NoUnexpectedEvent
  <1>10. CASE e.kind # "stopped"
    <2>1. /\ Answers(e, "started") /\ ~Stops(e) /\ Subject(e) = <<0, e.worker>>
          /\ e.ok => (e.worker = 0 <=> e.index # NoSize)
      BY <1>3, <1>5, <1>6, <1>10 DEF Answers, Stops, Subject
    <2>2. alive' = alive
      BY <2>1 DEF StartedRecv
    <2>3. /\ e.ok => primary' = primary
          /\ ~e.ok => primary' = First(primary, "io")
      BY <2>1 DEF StartedRecv
    <2>4. size' = IF e.ok /\ e.worker = 0 THEN e.index ELSE size
      BY <2>1 DEF StartedRecv
    <2>5. Awaited' = Awaited \ {Subject(e)}
      BY <1>3, <1>7, <1>8, <2>1
    <2>6. Conversation'
      BY <1>1, <1>2, <1>5, <1>8, <1>10, <2>2, <2>5, AnswerConversation
    <2>7. primary' # "protocol" /\ (primary' = "none" => primary = "none" /\ e.ok)
      BY <2>3 DEF First, NoUnexpectedEvent
    <2>8. PhaseInv'
      BY <1>1, <1>2, <1>6, <1>7, <2>1, <2>4, <2>7 DEF PhaseInv
    <2>9. FileInv'
      BY <1>1, <1>2, <1>7, FileFrame DEF FileInv
    <2> QED BY <1>2, <2>6, <2>7, <2>8, <2>9 DEF OpenInv, NoUnexpectedEvent
  <1> QED BY <1>9, <1>10

LEMMA StartDoneOpen ==
  ASSUME TypeOK, TypeOK', Open, OpenInv, BufferInv, NoUnexpectedEvent, StartDone
  PROVE  OpenInv' /\ NoUnexpectedEvent'
  <1>1. Conversation /\ PhaseInv /\ FileInv
    BY DEF OpenInv
  <1>2. /\ pc = "started" /\ pc' = "read" /\ heard = active
        /\ UNCHANGED <<n, active, sid, closeError, wpc, file, queue, events, alive>>
        /\ UNCHANGED <<jobs, pending, nextJob, nextDelivery>>
    BY DEF StartDone, workerVars, callVars
  <1>3. jobs = {} /\ pending = {} /\ nextJob = 0 /\ nextDelivery = 0
    BY <1>2 DEF BufferInv
  <1>4. Awaited = {} /\ Awaited' = {}
    BY <1>2, <1>3 DEF Awaited, Owing, Reads
  <1>5. Conversation'
    BY <1>1, <1>2, <1>4, NewPhase
  <1>6. primary' # "protocol"
    <2>1. primary = "none" => size # NoSize
      BY <1>1, <1>2 DEF PhaseInv
    <2> QED BY <2>1 DEF StartDone, First, NoUnexpectedEvent
  <1>7. PhaseInv'
    BY <1>1, <1>2, <1>3 DEF PhaseInv
  <1>8. FileInv'
    BY <1>1, <1>2, FileFrame DEF FileInv
  <1> QED BY <1>2, <1>5, <1>6, <1>7, <1>8 DEF OpenInv, NoUnexpectedEvent

----------------------------------------------------------------------------
LEMMA ScheduleOpen ==
  ASSUME TypeOK, TypeOK', Open, OpenInv, BufferInv, NoUnexpectedEvent, Schedule
  PROVE  OpenInv' /\ NoUnexpectedEvent'
  <1>1. Conversation /\ PhaseInv /\ FileInv
    BY DEF OpenInv
  <1>2. /\ pc = "read" /\ pc' = "read" /\ primary = "none"
        /\ UNCHANGED <<n, active, sid, closeError, wpc, file, events, pending, nextDelivery, verdict>>
    BY DEF Schedule, workerVars, Reading
  <1>0. nextJob \in Nat
    BY DEF TypeOK
  <1>3. PICK w \in Workers : w = nextJob % WorkerCount
    BY <1>0, ModWorkers
  <1>4. /\ Awaited = jobs /\ Awaited' = jobs' /\ Asked = "read" /\ Asked' = "read" /\ Reply' = Reply
    BY <1>2 DEF Awaited, Reads, Asked, Reply
  <1>5. FileInv'
    BY <1>1, <1>2, FileFrame DEF FileInv
  <1>6. CASE Gone(w)
    <2>1. alive' = alive \ {w} /\ primary' = "stopped" /\ UNCHANGED <<jobs, queue>>
      BY <1>3, <1>6, Zenon DEF Schedule, Sent
    <2>2. Conversation'
      BY <1>1, <1>2, <1>4, <1>6, <2>1, FrameConversation
    <2>3. PhaseInv'
      BY <1>1, <1>2, <2>1 DEF PhaseInv
    <2> QED BY <1>2, <1>5, <2>1, <2>2, <2>3 DEF OpenInv, NoUnexpectedEvent
  <1>7. CASE ~Gone(w)
    <2>1. /\ jobs' = jobs \cup {<<nextJob, w>>} /\ nextJob' = nextJob + 1 /\ UNCHANGED <<alive, primary>>
          /\ queue' = [queue EXCEPT ![w] = Append(@, Command("read", nextJob))]
      BY <1>3, <1>7, Zenon DEF Schedule, Sent
    <2>2. nextJob \in 0..MaxRanges /\ nextDelivery \in Nat
      BY DEF TypeOK
    <2>3. <<nextJob, w>> \notin jobs
      BY <2>2 DEF BufferInv
    <2>4. Conversation'
      BY <1>1, <1>2, <1>4, <1>7, <2>1, <2>2, <2>3, AskConversation, Zenon
    <2>5. PhaseInv'
      <3>1. ASSUME NEW i \in nextDelivery'..(nextJob' - 1) PROVE i \in pending' \/ \E j \in jobs' : j[1] = i
        <4>1. CASE i = nextJob
          <5>1. <<nextJob, w>> \in jobs' /\ <<nextJob, w>>[1] = nextJob
            BY <2>1
          <5> QED BY <4>1, <5>1, Zenon
        <4>2. CASE i # nextJob
          <5>1. i \in nextDelivery..(nextJob - 1)
            BY <1>2, <2>1, <2>2, <4>2
          <5> QED BY <1>1, <1>2, <2>1, <5>1 DEF PhaseInv
        <4> QED BY <4>1, <4>2
      <3> QED BY <1>1, <1>2, <2>1, <3>1, Zenon DEF PhaseInv
    <2> QED BY <1>2, <1>5, <2>1, <2>4, <2>5 DEF OpenInv, NoUnexpectedEvent
  <1> QED BY <1>6, <1>7

\* What read_stream does with an event while ranges are outstanding.
LEMMA TakeOpen ==
  ASSUME TypeOK, Open, Conversation, BufferInv, NoUnexpectedEvent, pc \in {"read", "drain"}, jobs # {},
         Receive, TakeEvent(Event), Awaited' = jobs', Asked' = Asked, Reply' = Reply, UNCHANGED <<queue, wpc, sid>>
  PROVE  /\ Conversation' /\ primary' # "protocol" /\ Event # Closed
         /\ primary' = "none" => /\ primary = "none" /\ <<Event.index, Event.worker>> \in jobs
                                 /\ jobs' = jobs \ {<<Event.index, Event.worker>>}
  <1>1. Awaited = jobs /\ Awaited # {} /\ Reply = "chunk"
    BY DEF Awaited, Reads, Reply
  <1> DEFINE e == Event
  <1>2. /\ events # <<>> /\ events' = Tail(events) /\ e \in Events /\ e # Closed
        /\ e.kind # "stopped" => e.kind = Reply /\ e.sid = sid /\ Subject(e) \in Awaited
    BY <1>1, ReceiveOpen
  <1>3. CASE e.kind = "stopped"
    <2>1. alive' = alive \ {e.worker} /\ primary' = First(primary, "stopped") /\ jobs' = jobs \ JobsOf(e.worker)
      BY <1>3 DEF TakeEvent
    <2>2. Awaited' = {p \in Awaited : p[2] # e.worker}
      BY <1>1, <2>1 DEF JobsOf
    <2>3. Conversation'
      BY <1>2, <1>3, <2>1, <2>2, StopConversation
    <2>4. primary' # "none" /\ primary' # "protocol"
      BY <2>1 DEF First, NoUnexpectedEvent
    <2> QED BY <1>2, <2>3, <2>4
  <1>4. CASE e.kind # "stopped"
    <2>1. e.kind = "chunk" /\ e.sid = sid /\ <<e.index, e.worker>> \in jobs /\ Subject(e) = <<e.index, e.worker>>
      BY <1>1, <1>2, <1>4 DEF Subject
    <2>2. alive' = alive /\ jobs' = jobs \ Answered(e.index)
      BY <1>4, <2>1 DEF TakeEvent
    <2>3. Answered(e.index) = {<<e.index, e.worker>>}
      <3>1. \A j \in jobs : j = <<j[1], j[1] % WorkerCount>>
        BY DEF BufferInv
      <3>2. <<e.index, e.worker>> = <<e.index, e.index % WorkerCount>>
        BY <2>1, <3>1
      <3> QED BY <2>1, <3>1, <3>2 DEF Answered
    <2>4. e.index < size /\ e.index \notin pending
      BY <2>1 DEF BufferInv
    <2>5. e.index \in Int /\ size \in Int
      BY <1>2, EventFields DEF TypeOK, NoSize
    <2>6. primary' = IF ~e.ok THEN First(primary, "io") ELSE primary
      BY <2>1, <2>4, <2>5 DEF TakeEvent
    <2>7. Conversation'
      BY <1>1, <1>2, <1>4, <2>1, <2>2, <2>3, AnswerConversation
    <2>8. primary' # "protocol" /\ (primary' = "none" => primary = "none")
      BY <2>6 DEF First, NoUnexpectedEvent
    <2> QED BY <1>2, <2>1, <2>2, <2>3, <2>7, <2>8
  <1> QED BY <1>3, <1>4

LEMMA ReadRecvOpen ==
  ASSUME TypeOK, TypeOK', Open, OpenInv, BufferInv, NoUnexpectedEvent, ReadRecv
  PROVE  OpenInv' /\ NoUnexpectedEvent'
  <1>1. Conversation /\ PhaseInv /\ FileInv
    BY DEF OpenInv
  <1>2. /\ pc = "read" /\ primary = "none" /\ verdict = "none" /\ nextDelivery < size /\ ~InWindow
        /\ UNCHANGED <<n, active, sid, closeError, wpc, file, queue, nextJob, nextDelivery>>
        /\ Receive /\ TakeEvent(Event) /\ pc' \in {"read", "deliver"}
    BY DEF ReadRecv, workerVars, Reading
  <1>3. jobs # {}
    <2>1. nextDelivery < nextJob /\ nextJob \in Int /\ nextDelivery \in Int
      BY <1>2 DEF InWindow, TypeOK, NoSize
    <2>2. nextDelivery \in nextDelivery..(nextJob - 1)
      BY <2>1
    <2> QED BY <1>1, <1>2, <2>2 DEF PhaseInv
  <1>4. Awaited' = jobs' /\ Asked' = Asked /\ Reply' = Reply
    BY <1>2 DEF Awaited, Reads, Asked, Reply
  <1>5. /\ Conversation' /\ primary' # "protocol"
        /\ primary' = "none" => /\ <<Event.index, Event.worker>> \in jobs
                                /\ jobs' = jobs \ {<<Event.index, Event.worker>>}
    BY <1>1, <1>2, <1>3, <1>4, TakeOpen
  <1>6. FileInv'
    BY <1>1, <1>2, FileFrame DEF FileInv
  <1>7. PhaseInv'
    <2>1. CASE primary' # "none"
      BY <1>1, <1>2, <2>1 DEF PhaseInv
    <2>2. CASE primary' = "none"
      <3>1. pc' = "deliver" /\ pending' = pending \cup {Event.index}
        BY <2>2 DEF ReadRecv
      <3>2. ASSUME NEW i \in nextDelivery..(nextJob - 1) PROVE i \in pending' \/ \E j \in jobs' : j[1] = i
        <4>1. i \in pending \/ \E j \in jobs : j[1] = i
          BY <1>1, <1>2 DEF PhaseInv
        <4>2. CASE i \in pending \/ i = Event.index
          BY <3>1, <4>2
        <4>3. CASE i \notin pending /\ i # Event.index
          <5>1. PICK j \in jobs : j[1] = i
            BY <4>1, <4>3
          <5>2. j # <<Event.index, Event.worker>>
            BY <4>3, <5>1
          <5> QED BY <1>5, <2>2, <5>1, <5>2
        <4> QED BY <4>2, <4>3
      <3> QED BY <1>1, <1>2, <3>1, <3>2, Zenon DEF PhaseInv
    <2> QED BY <2>1, <2>2
  <1> QED BY <1>2, <1>5, <1>6, <1>7 DEF OpenInv, NoUnexpectedEvent

LEMMA DeliverOpen ==
  ASSUME TypeOK, TypeOK', Open, OpenInv, NoUnexpectedEvent, Deliver \/ DeliverDone \/ ReadDone
  PROVE  OpenInv' /\ NoUnexpectedEvent'
  <1>1. Conversation /\ PhaseInv /\ FileInv
    BY DEF OpenInv
  <1>2. /\ pc \in {"read", "deliver"} /\ pc' \in {"read", "deliver", "drain"}
        /\ UNCHANGED <<n, active, sid, primary, closeError, wpc, file, queue, events, alive, jobs, nextJob>>
    BY DEF Deliver, DeliverDone, ReadDone, workerVars, callVars, errVars
  <1>3. Awaited' = Awaited /\ Asked' = Asked /\ Reply' = Reply
    BY <1>2 DEF Awaited, Reads, Asked, Reply
  <1>4. Conversation'
    BY <1>1, <1>2, <1>3, FrameConversation
  <1>5. FileInv'
    BY <1>1, <1>2, FileFrame DEF FileInv
  <1>6. PhaseInv'
    <2>1. CASE Deliver
      <3>1. /\ pending' = pending \ {nextDelivery} /\ nextDelivery' = nextDelivery + 1 /\ pc = "deliver"
            /\ pc' = "read" => verdict' # "none"
        BY <2>1 DEF Deliver
      <3>2. ASSUME primary = "none", NEW i \in nextDelivery'..(nextJob - 1)
            PROVE  i \in pending' \/ \E j \in jobs : j[1] = i
        <4>1. i \in nextDelivery..(nextJob - 1) /\ i # nextDelivery
          BY <3>1 DEF TypeOK
        <4> QED BY <1>1, <3>1, <3>2, <4>1 DEF PhaseInv
      <3> QED BY <1>1, <1>2, <3>1, <3>2 DEF PhaseInv
    <2>2. CASE DeliverDone
      <3>1. pc = "deliver" /\ pc' = "read" /\ nextDelivery \notin pending /\ UNCHANGED <<pending, nextDelivery>>
        BY <2>2 DEF DeliverDone, callVars
      <3> QED BY <1>1, <1>2, <3>1 DEF PhaseInv
    <2>3. CASE ReadDone
      BY <1>1, <1>2, <2>3 DEF PhaseInv, ReadDone
    <2> QED BY <2>1, <2>2, <2>3
  <1> QED BY <1>2, <1>4, <1>5, <1>6 DEF OpenInv, NoUnexpectedEvent

LEMMA DrainOpen ==
  ASSUME TypeOK, TypeOK', Open, OpenInv, BufferInv, NoUnexpectedEvent, DrainRecv \/ DrainDone
  PROVE  OpenInv' /\ NoUnexpectedEvent'
  <1>1. Conversation /\ PhaseInv /\ FileInv
    BY DEF OpenInv
  <1>2. pc = "drain" /\ n = 0 /\ UNCHANGED <<n, active, sid, closeError, wpc, file, queue>>
    BY <1>1 DEF DrainRecv, DrainDone, callVars, errVars, workerVars, PhaseInv
  <1>3. CASE DrainRecv
    <2>1. /\ jobs # {} /\ Receive /\ TakeEvent(Event) /\ pc' = IF Event = Closed THEN "finish" ELSE pc
      BY <1>3 DEF DrainRecv
    <2>2. Awaited = jobs /\ Awaited # {}
      BY <1>2, <2>1 DEF Awaited, Reads
    <2>3. pc' = "drain"
      BY <1>1, <1>2, <2>1, <2>2, ReceiveOpen
    <2>4. Awaited' = jobs' /\ Asked' = Asked /\ Reply' = Reply
      BY <1>2, <2>3 DEF Awaited, Reads, Asked, Reply
    <2>5. Conversation' /\ primary' # "protocol"
      BY <1>1, <1>2, <2>1, <2>4, TakeOpen
    <2>6. PhaseInv'
      BY <1>2, <2>3 DEF PhaseInv
    <2>7. FileInv'
      BY <1>1, <1>2, <2>3, FileFrame DEF FileInv
    <2> QED BY <1>2, <2>5, <2>6, <2>7 DEF OpenInv, NoUnexpectedEvent
  <1>4. CASE DrainDone
    <2>1. jobs = {} /\ pc' = "finish" /\ heard' = {} /\ UNCHANGED <<alive, events, primary>>
      BY <1>4 DEF DrainDone, errVars
    <2>2. Awaited = {} /\ Awaited' = {}
      BY <1>2, <2>1 DEF Awaited, Owing, Reads, TypeOK, Workers
    <2>3. Conversation'
      BY <1>1, <1>2, <2>1, <2>2, NewPhase
    <2>4. PhaseInv'
      BY <2>1 DEF PhaseInv
    <2>5. FileInv'
      <3>1. \A w \in Workers : ~(w < n')
        BY <1>2 DEF Workers
      <3> QED BY <1>1, <1>2, <2>1, <3>1, FileFrame DEF FileInv
    <2> QED BY <1>2, <2>1, <2>3, <2>4, <2>5 DEF OpenInv, NoUnexpectedEvent
  <1> QED BY <1>3, <1>4

LEMMA SendFinishOpen ==
  ASSUME TypeOK, TypeOK', Open, OpenInv, NoUnexpectedEvent, SendFinish
  PROVE  OpenInv' /\ NoUnexpectedEvent'
  <1>1. Conversation /\ PhaseInv /\ FileInv
    BY DEF OpenInv
  <1>2. /\ pc = "finish" /\ pc' = (IF n + 1 = WorkerCount THEN "finished" ELSE pc) /\ n' = NextWorker
        /\ UNCHANGED <<heard, events, wpc, file, sid, primary>> /\ heard = {}
    BY <1>1 DEF SendFinish, callVars, workerVars, PhaseInv
  <1>3. n \in Workers /\ n \in 0..(WorkerCount - 1) /\ pc' \in {"finish", "finished"} /\ active \subseteq Workers
    BY <1>2 DEF TypeOK, Workers
  <1>4. /\ pc' = "finish" => n' = n + 1
        /\ pc' = "finished" => n' = 0 /\ \A w \in Workers : w < n + 1
    BY <1>2, <1>3 DEF NextWorker, Workers
  <1>5. /\ Awaited = {<<0, w>> : w \in {v \in active : v < n}}
        /\ Asked = "finish" /\ Asked' = "finish" /\ Reply = "finished" /\ Reply' = "finished"
    BY <1>2, <1>3 DEF Awaited, Owing, Reads, Asked, Reply
  <1>6. active' \subseteq active
    BY DEF SendFinish
  <1>7. Awaited' = {<<0, w>> : w \in {v \in active' : v < n + 1}}
    <2>1. Owing' = {v \in active' : v < n + 1}
      BY <1>2, <1>3, <1>4, <1>6 DEF Owing
    <2> QED BY <1>3, <2>1 DEF Awaited, Reads
  <1>8. PhaseInv'
    BY <1>2, <1>3, <1>4 DEF PhaseInv
  <1>9. \A w \in Workers : w < n + 1 <=> w < n \/ w = n
    BY <1>3 DEF Workers
  <1>10. \A w \in Workers : /\ w \notin active => file[w] = 0
                            /\ w < n /\ queue[w] = <<>> => file[w] = 0
                            /\ Gone(w) => file[w] = 0
    BY <1>1, <1>2 DEF FileInv
  <1>11. \A w \in Workers : pc' = "finished" \/ (pc' = "finish" /\ w < n') => w < n \/ w = n
    BY <1>3, <1>4, <1>9
  <1>12. CASE FinishSkips(n)
    <2>1. active' = active \ {n} /\ UNCHANGED <<alive, queue, closeError>>
      BY <1>12 DEF SendFinish
    <2>2. Awaited' = Awaited
      <3>1. ~(n < n)
        BY <1>3
      <3>2. {v \in active' : v < n + 1} = {v \in active : v < n}
        BY <1>3, <1>9, <2>1, <3>1, Zenon
      <3> QED BY <1>5, <1>7, <3>2
    <2>3. Conversation'
      BY <1>1, <1>2, <1>5, <2>1, <2>2, FrameConversation, Zenon
    <2>4. file[n] = 0
      BY <1>1, <1>3, <1>10, <1>12 DEF FinishSkips, Conversation, NothingLost
    <2>5. FileInv'
      BY <1>1, <1>2, <1>3, <1>10, <1>11, <2>1, <2>4, FileFrame
    <2> QED BY <1>2, <1>8, <2>1, <2>3, <2>5 DEF OpenInv, NoUnexpectedEvent
  <1>13. CASE ~FinishSkips(n)
    <2>1. n \in active /\ n \in alive
      BY <1>13 DEF FinishSkips
    <2>2. ~Gone(n)
      <3> SUFFICES ASSUME Gone(n) PROVE FALSE
        OBVIOUS
      <3>1. Unanswered(n)
        BY <1>1, <1>3, <2>1 DEF Conversation, NothingLost
      <3>2. PICK p \in Awaited : p[2] = n
        BY <3>1 DEF Unanswered
      <3>3. p[2] < n
        BY <1>5, <3>2
      <3> QED BY <1>3, <3>2, <3>3
    <2>3. /\ UNCHANGED <<active, alive, closeError>>
          /\ queue' = [queue EXCEPT ![n] = Append(@, Command("finish", 0))]
      BY <1>13, <2>2 DEF SendFinish, Sent
    <2>4. Awaited' = Awaited \cup {<<0, n>>} /\ <<0, n>> \notin Awaited
      BY <1>3, <1>5, <1>7, <1>9, <2>1, <2>3
    <2>5. 0 \in 0..MaxRanges
      OBVIOUS
    <2>6. Conversation'
      BY <1>1, <1>2, <1>3, <1>5, <2>2, <2>3, <2>4, <2>5, AskConversation, Zenon
    <2>7. queue'[n] # <<>> /\ \A w \in Workers : w # n => queue'[w] = queue[w]
      <3>1. PICK s \in Seq(Commands) : s = queue[n]
        BY <1>3 DEF TypeOK
      <3>2. Append(s, Command("finish", 0)) # <<>>
        OBVIOUS
      <3> QED BY <1>3, <2>3, <3>1, <3>2, Zenon DEF TypeOK
    <2>8. FileInv'
      BY <1>1, <1>2, <1>3, <1>10, <1>11, <2>3, <2>7, FileFrame
    <2> QED BY <1>2, <1>8, <2>3, <2>6, <2>8 DEF OpenInv, NoUnexpectedEvent
  <1> QED BY <1>12, <1>13

LEMMA FinishRecvOpen ==
  ASSUME TypeOK, TypeOK', Open, OpenInv, NoUnexpectedEvent, FinishRecv
  PROVE  OpenInv' /\ NoUnexpectedEvent'
  <1>1. Conversation /\ PhaseInv /\ FileInv
    BY DEF OpenInv
  <1>2. /\ pc = "finished" /\ pc' = "finished" /\ heard # active /\ Receive
        /\ UNCHANGED <<n, active, sid, primary, wpc, file, queue>>
    BY DEF FinishRecv, workerVars, callVars
  <1>3. /\ Awaited = {<<0, w>> : w \in active \ heard} /\ heard \subseteq active
        /\ Asked = "finish" /\ Reply = "finished"
    BY <1>1, <1>2 DEF Awaited, Owing, Reads, Asked, Reply, PhaseInv
  <1>4. Awaited # {}
    BY <1>2, <1>3, Zenon
  <1> DEFINE e == Event
  <1>5. /\ events # <<>> /\ events' = Tail(events) /\ e \in Events /\ e # Closed
        /\ e.kind # "stopped" => e.kind = Reply /\ e.sid = sid /\ Subject(e) \in Awaited
        /\ e.kind = "stopped" => \E p \in Awaited : p[2] = e.worker
    BY <1>1, <1>2, <1>4, ReceiveOpen
  <1>6. e.worker \in active \ heard
    <2>1. CASE e.kind = "stopped"
      BY <1>3, <1>5, <2>1
    <2>2. CASE e.kind # "stopped"
      BY <1>3, <1>5, <2>2 DEF Subject
    <2> QED BY <2>1, <2>2
  <1>7. heard' = heard \cup {e.worker}
    BY <1>2, <1>3, <1>5, <1>6 DEF FinishRecv, Answers, Stops
  <1>8. /\ Awaited' = {<<0, w>> : w \in active \ heard'} /\ Asked' = Asked /\ Reply' = Reply
    BY <1>2, <1>3 DEF Awaited, Owing, Reads, Asked, Reply
  <1>9. PhaseInv'
    BY <1>1, <1>2, <1>3, <1>6, <1>7 DEF PhaseInv
  <1>10. FileInv'
    BY <1>1, <1>2, FileFrame DEF FileInv
  <1>11. CASE e.kind = "stopped"
    <2>1. alive' = alive \ {e.worker} /\ closeError' = First(closeError, "stopped")
      BY <1>5, <1>6, <1>11 DEF FinishRecv, Stops, Answers
    <2>2. Awaited' = {p \in Awaited : p[2] # e.worker}
      BY <1>3, <1>7, <1>8
    <2>3. Conversation'
      BY <1>1, <1>2, <1>5, <1>8, <1>11, <2>1, <2>2, StopConversation
    <2> QED BY <1>2, <1>9, <1>10, <2>1, <2>3 DEF OpenInv, NoUnexpectedEvent, First
  <1>12. CASE e.kind # "stopped"
    <2>1. Answers(e, "finished") /\ ~Stops(e) /\ Subject(e) = <<0, e.worker>>
      BY <1>3, <1>5, <1>6, <1>12 DEF Answers, Stops, Subject
    <2>2. alive' = alive /\ closeError' = IF e.ok THEN closeError ELSE First(closeError, "io")
      BY <1>5, <2>1 DEF FinishRecv
    <2>3. Awaited' = Awaited \ {Subject(e)}
      BY <1>3, <1>7, <1>8, <2>1
    <2>4. Conversation'
      BY <1>1, <1>2, <1>5, <1>8, <1>12, <2>2, <2>3, AnswerConversation
    <2> QED BY <1>2, <1>9, <1>10, <2>2, <2>4 DEF OpenInv, NoUnexpectedEvent, First
  <1> QED BY <1>11, <1>12

LEMMA ReturnOpen ==
  ASSUME TypeOK, TypeOK', Open, OpenInv, NoUnexpectedEvent, Return
  PROVE  OpenInv' /\ NoUnexpectedEvent'
  <1>1. Conversation /\ PhaseInv /\ FileInv
    BY DEF OpenInv
  <1>2. /\ pc = "finished" /\ pc' = "idle" /\ heard = active /\ n = 0
        /\ UNCHANGED <<n, active, sid, primary, closeError, wpc, file, queue, events, alive>>
    BY <1>1 DEF Return, workerVars, callVars, PhaseInv
  <1>3. Awaited = {} /\ Awaited' = {}
    BY <1>2 DEF Awaited, Owing, Reads
  <1>4. Conversation'
    BY <1>1, <1>2, <1>3, NewPhase
  <1>5. PhaseInv'
    BY <1>2 DEF PhaseInv
  <1>6. \A w \in Workers : file[w] = 0
    BY <1>1, <1>2, <1>3, QuietConversation DEF FileInv
  <1>7. FileInv'
    BY <1>1, <1>2, <1>6, FileFrame
  <1> QED BY <1>2, <1>4, <1>5, <1>7 DEF OpenInv, NoUnexpectedEvent

LEMMA IdleReusable == TypeOK /\ (Open => OpenInv) => PoolReusable
  <1> SUFFICES ASSUME TypeOK, Open => OpenInv, pc = "idle"
               PROVE  events = <<>> /\ \A w \in Workers : file[w] = 0 /\ queue[w] = <<>>
    BY DEF PoolReusable
  <1>1. Conversation /\ FileInv
    BY DEF Open, OpenInv
  <1>2. Awaited = {}
    BY DEF Awaited, Owing, Reads
  <1>3. events = <<>> /\ \A w \in Workers : queue[w] = <<>>
    BY <1>1, <1>2, QuietConversation
  <1> QED BY <1>1, <1>3 DEF FileInv
=============================================================================
