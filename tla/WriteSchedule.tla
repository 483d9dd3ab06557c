---------------------------- MODULE WriteSchedule ---------------------------
(***************************************************************************)
(* The conflict test and the interval map (WriteFrontier) of               *)
(* crates/vfsi-sync/src/client/write.rs, as operators.  F is the map: a    *)
(* set of fragments [left, right, writer]; r a range [start, end, append]. *)
(***************************************************************************)
EXTENDS Integers, FiniteSets, Sequences, Functions, FileBytes

CONSTANTS
  MinPrior,    \* 16 in the code: fewer earlier writes are always compared
  MaxPrior     \* 256 in the code: more are never compared

\* The comparison of the linear path.
Conflict(p, q) == p.append \/ q.append \/ (q.start < p.end /\ p.start < q.end)

\* ranges.range(..=start).next_back() if it reaches past start, and every
\* fragment that starts inside the range.
Hit(F, r) ==
  {x \in F : /\ x.left <= r.start /\ x.right > r.start
             /\ \A y \in F : y.left <= r.start => y.left <= x.left}
  \cup {x \in F : r.start <= x.left /\ x.left < r.end}

\* What is left of overwritten fragments before and after the new range.
Heads(F, r) == {[x EXCEPT !.right = r.start] : x \in {y \in Hit(F, r) : y.left < r.start}}
Tails(F, r) == {[x EXCEPT !.left = r.end] : x \in {y \in Hit(F, r) : r.end < y.right}}

\* WriteFrontier::insert: the fragments afterwards, the last append, and the
\* writers the new one depends on.
Replaced(F, r, i) ==
  IF r.append THEN {}
  ELSE (F \ Hit(F, r)) \cup Heads(F, r) \cup Tails(F, r)
       \cup {[left |-> r.start, right |-> r.end, writer |-> i]}

LastAppend(a, r, i) == IF r.append THEN i ELSE a

Depends(F, a, r) ==
  ({a} \ {0}) \cup {x.writer : x \in IF r.append THEN F ELSE Hit(F, r)}

\* Is it time to leave the linear path?  into: dependencies of the last write.
UseFrontier(count, into) == count >= MinPrior /\ (count >= MaxPrior \/ into > count \div 4)

-----------------------------------------------------------------------------
(***************************************************************************)
(* add_write_dependencies and WriteFrontier of                             *)
(* crates/vfsi-sync/src/client/write.rs: the dependency graph of the       *)
(* writes of one vector to one object.  Writes arrive in input order.      *)
(* While there are few, a write is compared with every earlier one; later  *)
(* a map of disjoint byte intervals remembers only the latest writer of    *)
(* each byte, and an overwritten writer is ordered through its successors. *)
(*                                                                         *)
(* Writes are numbered from 1.  A range is [start, end) and never empty;   *)
(* the range of an append starts at 0, because its place is chosen later.  *)
(***************************************************************************)

CONSTANTS
  MaxWrites,   \* bound: writes to the object
  MaxByte      \* bound: end of the last byte range

Ranges == {r \in [start: 0..MaxByte, end: 0..MaxByte, append: BOOLEAN] :
             r.start < r.end /\ (r.append => r.start = 0)}

VARIABLES
  writes,     \* the ranges that arrived, in input order
  adding,     \* the last one is being added
  dense,      \* prior.frontier is in use
  ranges,     \* frontier.ranges: fragments [left, right, writer]
  append,     \* frontier.append: the last append, 0 if none
  moved,      \* writes 1..moved are in the frontier
  edges,      \* <<i, j>>: j waits for i
  before      \* history: pairs ordered by a chain of edges

vars == <<writes, adding, dense, ranges, append, moved, edges, before>>

n == Len(writes)

Init ==
  /\ writes = <<>> /\ adding = FALSE /\ dense = FALSE
  /\ ranges = {} /\ append = 0 /\ moved = 0
  /\ edges = {} /\ before = {}

-----------------------------------------------------------------------------
(* add_write_dependencies                                                  *)

Into(j) == Cardinality({e \in edges : e[2] = j})

Arrive ==
  /\ ~adding /\ n < MaxWrites
  /\ \E r \in Ranges : writes' = Append(writes, r)
  /\ adding' = TRUE
  /\ dense' = (dense \/ UseFrontier(n, Into(n)))
  /\ UNCHANGED <<ranges, append, moved, edges, before>>

\* Mutant: the frontier starts empty.
DrainEmpty ==
  /\ adding /\ dense /\ moved < n - 1
  /\ moved' = moved + 1
  /\ UNCHANGED <<writes, adding, dense, ranges, append, edges, before>>

\* The frontier is built from the earlier writes; their edges exist.
Drain ==
  /\ adding /\ dense /\ moved < n - 1
  /\ ranges' = Replaced(ranges, writes[moved + 1], moved + 1)
  /\ append' = LastAppend(append, writes[moved + 1], moved + 1)
  /\ moved' = moved + 1
  /\ UNCHANGED <<writes, adding, dense, edges, before>>

\* depend: an edge from every writer in D to the new write.
Depend(D) ==
  /\ edges' = edges \cup {<<i, n>> : i \in D}
  /\ before' = before \cup {<<i, n>> : i \in {k \in 1..n : k \in D \/ \E d \in D : <<k, d>> \in before}}

AddLinear ==
  /\ adding /\ ~dense
  /\ Depend({i \in 1..(n - 1) : Conflict(writes[i], writes[n])})
  /\ adding' = FALSE
  /\ UNCHANGED <<writes, dense, ranges, append, moved>>

AddFrontier ==
  /\ adding /\ dense /\ moved = n - 1
  /\ Depend(Depends(ranges, append, writes[n]))
  /\ ranges' = Replaced(ranges, writes[n], n)
  /\ append' = LastAppend(append, writes[n], n)
  /\ moved' = n
  /\ adding' = FALSE
  /\ UNCHANGED <<writes, dense>>

Next == Arrive \/ Drain \/ AddLinear \/ AddFrontier

Spec == Init /\ [][Next]_vars

-----------------------------------------------------------------------------
\* Overlapping writes and appends through one object complete in input order
\* ("Overlapping requests through the same object complete in input order",
\* vwrite_all_native): every two conflicting writes are ordered by a chain of
\* edges, also when the frontier forgot the earlier one long ago.
ConflictsOrdered ==
  \A j \in 1..(IF adding THEN n - 1 ELSE n) : \A i \in 1..(j - 1) :
    Conflict(writes[i], writes[j]) => <<i, j>> \in before

\* No write waits without need: an edge goes from an earlier write to a later
\* one that conflicts with it, so independent writes share a wave.
EdgesConflict ==
  \A e \in edges : e[1] < e[2] /\ Conflict(writes[e[1]], writes[e[2]])

\* The frontier is a map of disjoint intervals, and a fragment belongs to the
\* latest write of its bytes ("remember only the latest writer of each
\* disjoint byte interval").
LatestWriter ==
  /\ \A x, y \in ranges : x = y \/ x.right <= y.left \/ y.right <= x.left
  /\ \A x \in ranges :
       /\ x.writer \in (append + 1)..moved
       /\ writes[x.writer].start <= x.left /\ x.right <= writes[x.writer].end
       /\ \A j \in (x.writer + 1)..moved :
            writes[j].end <= x.left \/ x.right <= writes[j].start

-----------------------------------------------------------------------------
(***************************************************************************)
(* FsClient::vwrite_all_mapped_native of                                   *)
(* crates/vfsi-sync/src/client/write.rs: a vector of complete writes runs  *)
(* in waves.  Writes that conflict wait for each other; a short write is   *)
(* continued in the next wave.                                             *)
(*                                                                         *)
(* A request is [obj, known, start, len, append]: obj is the object behind *)
(* its handle, known says whether open_object_ref can name it.  The        *)
(* backend (external) executes a wave in any order, may write any part of  *)
(* a request and may fail in the middle.  Stability flags are left out.    *)
(***************************************************************************)

CONSTANTS
  Objects,    \* files
  Vectors     \* request vectors a caller may pass

VARIABLES
  reqs,       \* the argument
  pc,         \* "schedule", "wave", "sent", "done" or "failed"
  next,       \* the request to add to the graph
  unknown,    \* an unknown identity was met
  groups,     \* prior_by_object, and prior_unknown
  scheduleEdges,      \* successors: <<i, j>> where j waits for i
  remaining,  \* remaining_dependencies
  wave,       \* wave_indices
  totals,     \* bytes acknowledged, per request
  offs,       \* the offset prepared for a request and reported in the end
  pending,    \* requests of the wave the backend has not executed so far
  got,        \* its results: [off, n]
  file,       \* contents, per object
  wrote       \* history: bytes written, per request

scheduleVars == <<reqs, pc, next, unknown, groups, scheduleEdges, remaining, wave, totals, offs, pending, got, file, wrote>>

Idx == 1..Len(reqs)
RangeOf(r) == LET at == IF r.append THEN 0 ELSE r.start
              IN  [start |-> at, end |-> at + r.len, append |-> r.append]

NoGroup == [prior |-> <<>>, dense |-> FALSE, ranges |-> {}, append |-> 0]
NoGroups == [k \in Objects \cup {"unknown"} |-> NoGroup]

ScheduleInit ==
  /\ reqs \in Vectors
  /\ pc = "schedule" /\ next = 1 /\ unknown = FALSE
  /\ groups = NoGroups
  /\ scheduleEdges = {} /\ wave = {} /\ pending = {}
  /\ remaining = [i \in Idx |-> 0] /\ totals = [i \in Idx |-> 0]
  /\ offs = [i \in Idx |-> IF reqs[i].append /\ reqs[i].len > 0 THEN 0 ELSE reqs[i].start]
  /\ got = [i \in Idx |-> [off |-> 0, n |-> 0]]
  /\ file = [o \in Objects |-> <<>>]
  /\ wrote = [i \in Idx |-> 0]

-----------------------------------------------------------------------------
(* The graph.  A group holds the writes that may touch one object.         *)

\* WriteFrontier::insert of request i.
InsertInto(g, i) ==
  [g EXCEPT !.ranges = Replaced(@, RangeOf(reqs[i]), i),
            !.append = LastAppend(@, RangeOf(reqs[i]), i)]

\* The prior requests of g move to its frontier.
Drained(g) ==
  LET f[k \in 0..Len(g.prior)] ==
        IF k = 0 THEN [g EXCEPT !.dense = TRUE, !.prior = <<>>]
        ELSE InsertInto(f[k - 1], g.prior[k])
  IN  f[Len(g.prior)]

\* add_write_dependencies: the group before and after request i joins it.
Prepared(g) ==
  LET count == Len(g.prior)
  IN  IF ~g.dense /\ count > 0 /\ UseFrontier(count, remaining[g.prior[count]])
      THEN Drained(g) ELSE g

Predecessors(g, i) ==
  IF g.dense THEN Depends(g.ranges, g.append, RangeOf(reqs[i]))
  ELSE {k \in Range(g.prior) : Conflict(RangeOf(reqs[k]), RangeOf(reqs[i]))}

Joined(g, i) == IF g.dense THEN InsertInto(g, i) ELSE [g EXCEPT !.prior = Append(@, i)]

Nonempty == {i \in Idx : reqs[i].len > 0}

\* An unknown identity may be any object: the prefix is scheduled again with
\* all of the vector in one group.
FirstUnknown(i) == ~reqs[i].known /\ ~unknown

\* A single request needs neither identity nor graph.
ScheduleScalar ==
  /\ pc = "schedule" /\ Cardinality(Nonempty) < 2
  /\ wave' = Nonempty /\ pc' = "wave"
  /\ UNCHANGED <<reqs, next, unknown, groups, scheduleEdges, remaining, totals, offs, pending, got, file, wrote>>

ScheduleNext ==
  /\ pc = "schedule" /\ Cardinality(Nonempty) >= 2 /\ next \in Idx
  /\ IF next \notin Nonempty
     THEN next' = next + 1 /\ UNCHANGED <<unknown, groups, scheduleEdges, remaining, wave>>
     ELSE IF FirstUnknown(next)
     THEN /\ unknown' = TRUE /\ next' = 1 /\ groups' = NoGroups /\ scheduleEdges' = {}
          /\ remaining' = [i \in Idx |-> 0] /\ wave' = {}
     ELSE LET k == IF unknown \/ ~reqs[next].known THEN "unknown" ELSE reqs[next].obj
              g == Prepared(groups[k])
              D == Predecessors(g, next)
          IN  /\ groups' = [groups EXCEPT ![k] = Joined(g, next)]
              /\ scheduleEdges' = scheduleEdges \cup {<<i, next>> : i \in D}
              /\ remaining' = [remaining EXCEPT ![next] = Cardinality(D)]
              /\ wave' = IF D = {} THEN wave \cup {next} ELSE wave
              /\ next' = next + 1 /\ UNCHANGED unknown
  /\ UNCHANGED <<reqs, pc, totals, offs, pending, got, file, wrote>>

\* prepare_object_refs or open_object_ref fails.
ScheduleFails ==
  /\ pc = "schedule" /\ Cardinality(Nonempty) >= 2 /\ next \in Idx
  /\ pc' = "failed"
  /\ UNCHANGED <<reqs, next, unknown, groups, scheduleEdges, remaining, wave, totals, offs, pending, got, file, wrote>>

Scheduled ==
  /\ pc = "schedule" /\ next > Len(reqs) /\ Cardinality(Nonempty) >= 2
  /\ pc' = "wave"
  /\ UNCHANGED <<reqs, next, unknown, groups, scheduleEdges, remaining, wave, totals, offs, pending, got, file, wrote>>

-----------------------------------------------------------------------------
(* Waves.                                                                  *)

SendWave ==
  /\ pc = "wave"
  /\ pc' = IF wave = {} THEN "done" ELSE "sent"
  /\ pending' = wave
  /\ UNCHANGED <<reqs, next, unknown, groups, scheduleEdges, remaining, wave, totals, offs, got, file, wrote>>

\* Where the wave's entry for i goes: an append resolves EOF every time.
OffsetOf(i) == IF reqs[i].append THEN Len(file[reqs[i].obj]) ELSE reqs[i].start + totals[i]

BackendWrites(i) ==
  /\ pc = "sent" /\ i \in pending
  /\ \E count \in 0..(reqs[i].len - totals[i]) :
       /\ file' = [file EXCEPT ![reqs[i].obj] = Put(@, OffsetOf(i), i, totals[i], count)]
       /\ got' = [got EXCEPT ![i] = [off |-> OffsetOf(i), n |-> count]]
       /\ wrote' = [wrote EXCEPT ![i] = @ + count]
  /\ pending' = pending \ {i}
  /\ UNCHANGED <<reqs, pc, next, unknown, groups, scheduleEdges, remaining, wave, totals, offs>>

BackendFails ==
  /\ pc = "sent" /\ pending # {}
  /\ pc' = "failed"
  /\ UNCHANGED <<reqs, next, unknown, groups, scheduleEdges, remaining, wave, totals, offs, pending, got, file, wrote>>

Finished(tot) == {i \in wave : tot[i] = reqs[i].len}

Released(done, rem) == {j \in Idx : rem[j] = 0 /\ \E i \in done : <<i, j>> \in scheduleEdges}

Continued(done) == wave \ done

NoProgress == \E i \in wave : got[i].n = 0

\* "An aggregate completion offset": the last reported end less all bytes.
AppendOffset(i, tot) == got[i].off + got[i].n - tot[i]

\* The results of a wave: an empty one ends the call, a complete one releases
\* its successors, a short one stays.
ApplyWave ==
  /\ pc = "sent" /\ pending = {}
  /\ IF NoProgress
     THEN /\ pc' = "failed"
          /\ UNCHANGED <<remaining, wave, totals, offs>>
     ELSE /\ pc' = "wave"
          /\ totals' = [i \in Idx |-> IF i \in wave THEN totals[i] + got[i].n ELSE totals[i]]
          /\ offs' = [i \in Idx |-> IF i \in wave /\ reqs[i].append
                                    THEN AppendOffset(i, totals') ELSE offs[i]]
          /\ LET done == Finished(totals')
             IN  /\ remaining' = [j \in Idx |->
                       remaining[j] - Cardinality({i \in done : <<i, j>> \in scheduleEdges})]
                 /\ wave' = Continued(done) \cup Released(done, remaining')
  /\ UNCHANGED <<reqs, next, unknown, groups, scheduleEdges, pending, got, file, wrote>>

Ended == pc \in {"done", "failed"} /\ UNCHANGED scheduleVars

Call == ScheduleScalar \/ ScheduleNext \/ ScheduleFails \/ Scheduled \/ SendWave \/ ApplyWave \/ BackendFails \/ \E i \in Idx : BackendWrites(i)
ScheduleStep == Call \/ Ended

\* The loop is sequential code and the backend answers or fails every call.
ScheduleSpec == ScheduleInit /\ [][ScheduleStep]_scheduleVars /\ WF_scheduleVars(Call)

-----------------------------------------------------------------------------
(* Reference: the requests one after the other.                            *)
Sequential(v) ==
  LET run[k \in 0..Len(v)] ==
        IF k = 0 THEN [file |-> [o \in Objects |-> <<>>], offs |-> <<>>]
        ELSE LET s  == run[k - 1]
                 r  == v[k]
                 at == IF r.append /\ r.len > 0 THEN Len(s.file[r.obj]) ELSE r.start
             IN  [file |-> [s.file EXCEPT ![r.obj] = Put(@, at, k, 0, r.len)],
                  offs |-> Append(s.offs, at)]
  IN  run[Len(v)]

\* vwrite_all_native succeeds only with every byte written, and the files look
\* as if the requests had run one after the other in input order, whatever
\* the backend's order inside a wave and however short its writes were.
SequentialResult ==
  pc = "done" => /\ \A i \in Idx : totals[i] = reqs[i].len /\ wrote[i] = reqs[i].len
                 /\ file = Sequential(reqs).file

\* The reported offset of an append is where its bytes are, also when it was
\* continued after a short write.
OffsetsReported == pc = "done" => offs = Sequential(reqs).offs

\* Also in a call that fails: no byte of a request is written before every
\* earlier conflicting request of the same object is complete.
InputOrder ==
  \A i, j \in Idx :
    /\ i < j /\ reqs[i].obj = reqs[j].obj /\ wrote[j] > 0 /\ reqs[i].len > 0
    /\ Conflict(RangeOf(reqs[i]), RangeOf(reqs[j]))
    => wrote[i] = reqs[i].len

\* The loop ends: no request is left waiting for one that never finishes.
CallReturns == <>(pc \in {"done", "failed"})
=============================================================================
