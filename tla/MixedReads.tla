----------------------------- MODULE MixedReads -----------------------------
(* Vfsi::vread over the local backend.  A vector mixes whole files, ranges  *)
(* and caller's buffers.  consume_ops (vfsi-core: api/read.rs) sends the    *)
(* buffers first, then read_batch the ranges, then the whole files, each    *)
(* with what is left of one budget, and puts results and errors back in the *)
(* caller's order.  Whole files are opened in cohorts and read in rounds    *)
(* (vfsi-local: vread_all_with_options_impl, vfsi-sync:                     *)
(* stream_read_chunks), while other processes replace and grow them.        *)
EXTENDS Integers, Sequences, SequencesExt, FiniteSets, FiniteSetsExt

CONSTANTS Objs,       \* files
          Paths,
          Starts,     \* what the paths name at first
          MaxSize,    \* sizes of files
          Vectors,    \* vectors of reads: [kind, obj, off, len]; of a whole file obj is a path
          Budgets,    \* max_total_bytes
          Batch,      \* path_read_batch_size of the executor
          MaxChunk,   \* largest chunk (1 MiB in the code)
          MinChunk,   \* smallest share of a file in a round (4096 in the code)
          MaxForeign  \* replacements and growths

VARIABLES size, bind, broken, call, foreign,
          vector      \* what the caller reads
vars == <<size, bind, broken, call, foreign, vector>>

MinOf(a, b) == IF a < b THEN a ELSE b
MaxOf(a, b) == IF a > b THEN a ELSE b
SumOf(s) == FoldSeq(+, 0, s)
Idle == [pc |-> "idle"]

Init ==
    /\ size \in [Objs -> 0..MaxSize] /\ bind \in Starts /\ broken \in {{}} \cup {{o} : o \in Objs}
    /\ call = Idle /\ foreign = 0 /\ vector \in Vectors

(* The places in a vector of the requests of some kinds.                    *)
Indices(ops, kinds) == SelectSeq([i \in DOMAIN ops |-> i], LAMBDA i : ops[i].kind \in kinds)
Picked(ops, idx) == [k \in DOMAIN idx |-> ops[idx[k]]]
BufferIdx == Indices(call.ops, {"into"})
OwnedIdx == Indices(call.ops, {"range", "whole"})
Owned == Picked(call.ops, OwnedIdx)
RangeIdx == Indices(Owned, {"range"})
PathIdx == Indices(Owned, {"whole"})

(* remap_read_error, once for each level a request went through.            *)
Unmapped(indices, k) == k
Remap(indices, k) == indices[k]

FailAt(c, i, code) == [c EXCEPT !.pc = "done", !.ok = FALSE, !.error = [at |-> i, code |-> code]]

(* The lengths asked for must fit the budget, whatever is then returned.    *)
FirstOver(lens, max) ==
    LET sum[k \in 0..Len(lens)] == IF k = 0 THEN 0 ELSE sum[k - 1] + lens[k]
        over == {k \in DOMAIN lens : sum[k] > max}
    IN  IF over = {} THEN 0 ELSE CHOOSE k \in over : \A j \in over : k <= j
Lengths(ops) == [k \in DOMAIN ops |-> IF ops[k].kind = "whole" THEN 0 ELSE ops[k].len]

VRead(budget) ==
    /\ call.pc = "idle"
    /\ LET c == [pc |-> "buffers", ops |-> vector, budget |-> budget, left |-> budget, buffered |-> <<>>,
                 ranges |-> <<>>, whole |-> <<>>, first |-> 1, opened |-> <<>>, pending |-> <<>>, data |-> <<>>,
                 asked |-> 0, over |-> 0, out |-> <<>>, ok |-> TRUE, error |-> [at |-> 0, code |-> "none"],
                 quiet |-> TRUE]
           over == FirstOver(Lengths(vector), budget)
       IN  call' = IF over # 0 THEN FailAt(c, over, "efbig") ELSE c
    /\ UNCHANGED <<size, bind, broken, foreign, vector>>

(* One vread_into_impl or vread_impl of the backend: all results, or the    *)
(* first request that fails.                                                *)
Got(op) == [obj |-> op.obj, off |-> op.off, n |-> MinOf(op.len, MaxOf(0, size[op.obj] - op.off))]
FirstBroken(ops) ==
    LET bad == {k \in DOMAIN ops : ops[k].obj \in broken}
    IN  IF bad = {} THEN 0 ELSE CHOOSE k \in bad : \A j \in bad : k <= j
Counts(results) == [k \in DOMAIN results |-> results[k].n]

(* vread_into_with_limit_native                                             *)
Buffers ==
    /\ call.pc = "buffers"
    /\ LET ops == Picked(call.ops, BufferIdx)
           bad == FirstBroken(ops)
           got == [k \in DOMAIN ops |-> Got(ops[k])]
       IN  call' = IF bad # 0 THEN FailAt(call, Remap(BufferIdx, bad), "io")
                   ELSE [call EXCEPT !.pc = "ranges", !.buffered = got, !.left = @ - SumOf(Counts(got))]
    /\ UNCHANGED <<size, bind, broken, foreign, vector>>

(* read_batch, vread_with_limit_projected_native                            *)
Ranges ==
    /\ call.pc = "ranges"
    /\ LET ops == Picked(Owned, RangeIdx)
           over == FirstOver(Lengths(ops), call.left)
           bad == FirstBroken(ops)
           got == [k \in DOMAIN ops |-> Got(ops[k])]
           At(k) == Remap(OwnedIdx, Remap(RangeIdx, k))
       IN  call' = IF over # 0 THEN FailAt(call, At(over), "efbig")
                   ELSE IF bad # 0 THEN FailAt(call, At(bad), "io")
                   ELSE [call EXCEPT !.pc = IF PathIdx = <<>> THEN "assemble" ELSE "open",
                                     !.ranges = got, !.left = @ - SumOf(Counts(got))]
    /\ UNCHANGED <<size, bind, broken, foreign, vector>>

-----------------------------------------------------------------------------
(* vread_all_with_options_impl: a cohort of paths is opened, read to the    *)
(* end of each, and closed, also when something failed.                     *)
CohortLen == MinOf(Batch, Len(PathIdx) - call.first + 1)
PathAt(k) == Owned[PathIdx[call.first + k - 1]].obj
OpenPath ==
    /\ call.pc = "open"
    /\ LET k == Len(call.opened) + 1
           o == bind[PathAt(k)]
       IN  call' = IF o = "none"
                   THEN [call EXCEPT !.pc = "close", !.ok = FALSE, !.error = [at |-> k, code |-> "noent"]]
                   ELSE [call EXCEPT !.opened = Append(@, o),
                           !.data = Append(@, <<>>), !.pending = Append(@, k),
                           !.pc = IF k = CohortLen THEN "round" ELSE "open"]
    /\ UNCHANGED <<size, bind, broken, foreign, vector>>

(* stream_read_chunks: one round.  A file's share of the budget grows as    *)
(* others end; the files just read go to the back.                          *)
StreamBudget == MaxOf(1, call.left)
Share(pending) ==
    MinOf(MinOf(StreamBudget, MaxChunk), MaxOf(StreamBudget \div MaxOf(1, MinOf(pending, Batch)), MinChunk))
RoundOf(pending) ==
    LET chunk == Share(Len(pending))
        length[k \in DOMAIN pending] == MaxOf(0, MinOf(chunk, StreamBudget - chunk * (k - 1)))
        size0 == Cardinality({k \in DOMAIN pending : length[k] > 0})
    IN  [k \in 1..size0 |-> [idx |-> pending[k], len |-> length[k]]]

(* Results in order: charged to the limit, appended, the file dropped at    *)
(* its end.                                                                 *)
Total(c) == SumOf([k \in DOMAIN c.data |-> Len(c.data[k])])
PassesLimit(c, n) == Total(c) + n > c.left
Source(c, k) == c.opened[k]
Take(c, r) ==
    LET o == Source(c, r.idx)
        at == Len(c.data[r.idx])
        n == MinOf(r.len, MaxOf(0, size[o] - at))
    IN  IF c.over # 0 THEN c
        ELSE IF PassesLimit(c, n) THEN [c EXCEPT !.over = r.idx]
        ELSE [c EXCEPT !.data[r.idx] = @ \o [j \in 1..n |-> <<o, at + j>>],
                       !.pending = IF n = 0 THEN @ ELSE Append(@, r.idx)]
Round ==
    /\ call.pc = "round"
    /\ LET batch == RoundOf(call.pending)
           bad == {k \in DOMAIN batch : call.opened[batch[k].idx] \in broken}
           c0 == [call EXCEPT !.pending = SubSeq(@, Len(batch) + 1, Len(@)),
                              !.asked = SumOf([k \in DOMAIN batch |-> batch[k].len])]
           taken[k \in 0..Len(batch)] == IF k = 0 THEN c0 ELSE LET p == taken[k - 1] IN Take(p, batch[k])
           c == taken[Len(batch)]
       IN  call' = IF bad # {}
                   THEN [c0 EXCEPT !.pc = "close", !.ok = FALSE,
                           !.error = [at |-> batch[CHOOSE k \in bad : \A j \in bad : k <= j].idx, code |-> "io"]]
                   ELSE IF c.over # 0
                   THEN [c EXCEPT !.pc = "close", !.ok = FALSE, !.error = [at |-> c.over, code |-> "efbig"]]
                   ELSE IF c.pending = <<>> THEN [c EXCEPT !.pc = "close"]
                   ELSE c
    /\ UNCHANGED <<size, bind, broken, foreign, vector>>

Closes(c) == <<>>
CloseCohort ==
    /\ call.pc = "close"
    /\ LET c == [call EXCEPT !.opened = Closes(call), !.data = <<>>, !.pending = <<>>, !.asked = 0]
           last == call.first + CohortLen > Len(PathIdx)
       IN  call' = IF ~call.ok
                   THEN FailAt(c, Remap(OwnedIdx, Remap(PathIdx, call.first - 1 + call.error.at)), call.error.code)
                   ELSE [c EXCEPT !.whole = @ \o call.data, !.left = @ - Total(call), !.first = @ + CohortLen,
                                  !.pc = IF last THEN "assemble" ELSE "open"]
    /\ UNCHANGED <<size, bind, broken, foreign, vector>>

-----------------------------------------------------------------------------
(* Results in the order of the requests.                                    *)
PlaceIn(idx, i) == CHOOSE k \in DOMAIN idx : idx[k] = i
Assembled(i) ==
    LET kind == call.ops[i].kind
        own == PlaceIn(OwnedIdx, i)
    IN  CASE kind = "into" -> [kind |-> kind, got |-> <<call.buffered[PlaceIn(BufferIdx, i)]>>, data |-> <<>>]
          [] kind = "range" -> [kind |-> kind, got |-> <<call.ranges[PlaceIn(RangeIdx, own)]>>, data |-> <<>>]
          [] OTHER -> [kind |-> kind, got |-> <<>>, data |-> call.whole[PlaceIn(PathIdx, own)]]
Grouped(i) ==
    LET all == [k \in DOMAIN call.buffered |-> [kind |-> "into", got |-> <<call.buffered[k]>>, data |-> <<>>]]
               \o [k \in DOMAIN call.ranges |-> [kind |-> "range", got |-> <<call.ranges[k]>>, data |-> <<>>]]
               \o [k \in DOMAIN call.whole |-> [kind |-> "whole", got |-> <<>>, data |-> call.whole[k]]]
    IN  all[i]
InOrder(i) == Assembled(i)
Assemble ==
    /\ call.pc = "assemble"
    /\ call' = [call EXCEPT !.pc = "done", !.out = [i \in DOMAIN call.ops |-> InOrder(i)]]
    /\ UNCHANGED <<size, bind, broken, foreign, vector>>
Return ==
    /\ call.pc = "done" /\ call' = Idle
    /\ UNCHANGED <<size, bind, broken, foreign, vector>>

(* Others replace what a path names, or make a file longer.                 *)
Foreign ==
    /\ foreign < MaxForeign /\ foreign' = foreign + 1 /\ call.pc \in {"open", "round"}
    /\ \/ \E p \in Paths, o \in Objs : o # bind[p] /\ bind' = [bind EXCEPT ![p] = o] /\ UNCHANGED size
       \/ \E o \in Objs : size[o] < MaxSize /\ size' = [size EXCEPT ![o] = @ + 1] /\ UNCHANGED bind
    /\ call' = [call EXCEPT !.quiet = FALSE]
    /\ UNCHANGED <<broken, vector>>

Step == Buffers \/ Ranges \/ OpenPath \/ Round \/ CloseCohort \/ Assemble \/ Return
Next == Step \/ Foreign \/ \E b \in Budgets : VRead(b)
Spec == Init /\ [][Next]_vars

-----------------------------------------------------------------------------
Done == call.pc = "done" /\ call.ok
Refused == call.pc = "done" /\ ~call.ok

(* Every result stands at the place of its own request: the same file and   *)
(* offset, a whole file at the place of a path.                             *)
OwnPlace ==
    Done => \A i \in DOMAIN call.ops :
        LET op == call.ops[i]
            r == call.out[i]
        IN  /\ r.kind = op.kind
            /\ op.kind # "whole" => r.got[1].obj = op.obj /\ r.got[1].off = op.off
            /\ op.kind = "whole" /\ call.quiet => \A k \in DOMAIN r.data : r.data[k][1] = bind[op.obj]

(* An error names the request that caused it, through every regrouping on   *)
(* the way.                                                                 *)
OwnError ==
    Refused /\ call.quiet =>
        LET op == call.ops[call.error.at]
        IN  CASE call.error.code = "noent" -> op.kind = "whole" /\ bind[op.obj] = "none"
              [] call.error.code = "io" -> (IF op.kind = "whole" THEN bind[op.obj] ELSE op.obj) \in broken
              [] OTHER -> TRUE

(* A whole file is one unbroken copy of one object, though its path is      *)
(* given to another file between two rounds.                                *)
OneObject ==
    Done => \A i \in DOMAIN call.ops :
        LET data == call.out[i].data
        IN  \A k \in DOMAIN data : data[k] = <<data[1][1], k>>

(* No more is returned than the budget, and a vector is refused for its     *)
(* size only if the lengths it asks for, or the files at rest, do not fit.  *)
Returned == SumOf([i \in DOMAIN call.out |->
              IF call.out[i].kind = "whole" THEN Len(call.out[i].data) ELSE call.out[i].got[1].n])
Needed ==
    SumOf([i \in DOMAIN call.ops |-> LET op == call.ops[i] IN
             IF op.kind = "whole" THEN IF bind[op.obj] = "none" THEN 0 ELSE size[bind[op.obj]] ELSE Got(op).n])
BudgetExact ==
    /\ Done => Returned <= call.budget
    /\ Refused /\ call.quiet /\ call.error.code = "efbig" =>
         SumOf(Lengths(call.ops)) > call.budget \/ Needed > call.budget

(* A round holds no more than is left of the budget, or the one byte that   *)
(* tells a full budget from a passed one.                                   *)
RoundFits == call.pc \in {"round", "close"} => call.asked <= MaxOf(1, call.left)

(* The descriptors of a cohort are closed when the call returns, also after *)
(* a path that does not open or a read that fails.                          *)
AllClosed == call.pc = "done" => call.opened = <<>>

-----------------------------------------------------------------------------
(* vstream of the native clients (vfsi-sync application.rs): files are opened *)
(* and their first chunks read ahead in cohorts, and handed to the caller's  *)
(* callback in order; a later file's failure waits for the earlier files.    *)

CONSTANTS N,          \* files 1..N
          Capacity,   \* files in a cohort
          Sizes,      \* chunks in a file
          MaxBad, MaxFaults

VARIABLES streamSize,       \* size[i]
          missing,    \* files whose OPEN fails
          unread,     \* unread[i]: the chunk whose READ fails, 0 if none
          stop,       \* the callback breaks at this <<file, chunk>>
          base, opened, ahead,   \* files of the cohort opened and read ahead
          late,       \* the failure kept for after the loop: <<kind, local index>>
          streamAt, file, streamChunk,
          seen,       \* the callbacks: <<file, chunk>>
          output,     \* files completed or stopped
          handles,    \* files the stream has open
          result,     \* <<kind, index>>
          faults

streamVars == <<streamSize, missing, unread, stop, base, opened, ahead, late, streamAt, file, streamChunk, seen, output, handles, result, faults>>

Files == 1..N
Fault == faults < MaxFaults /\ faults' = faults + 1
None == <<"none", 0>>

StreamInit ==
  /\ streamSize \in [Files -> Sizes] /\ missing \in SUBSET Files
  /\ unread \in {u \in [Files -> 0..Max(Sizes)] : \A i \in Files : u[i] <= streamSize[i]}
  /\ Cardinality(missing) + Cardinality({i \in Files : unread[i] # 0}) <= MaxBad
  /\ stop \in {<<0, 0>>} \union {<<i, k>> : i \in Files, k \in 1..Max(Sizes)}
  /\ base = 0 /\ opened = 0 /\ ahead = 0 /\ late = None /\ streamAt = "open" /\ file = 0 /\ streamChunk = 0
  /\ seen = <<>> /\ output = 0 /\ handles = {} /\ result = None /\ faults = 0

Cohort == {i \in Files : base < i /\ i <= base + Capacity}

\* read_only_prefix: the files before the first one that fails.  If that is the
\* first of them the error is returned at once.
FirstOf(S, bad) == IF S \cap bad = {} THEN 0 ELSE Min(S \cap bad)

\* The operation ends with r; the cohort is closed first.
Ends(r) == streamAt' = "close" /\ result' = r

\* vopen of a cohort.
Open ==
  /\ streamAt = "open" /\ Cohort # {}
  /\ LET f == FirstOf(Cohort, missing) IN
     \/ /\ f = base + 1 /\ streamAt' = "end" /\ result' = <<"error", f>> /\ UNCHANGED <<opened, late, handles, faults>>
     \/ /\ f # base + 1 /\ streamAt' = "ahead" /\ opened' = IF f = 0 THEN Max(Cohort) ELSE f - 1
        /\ handles' = (base + 1)..opened'
        /\ late' = IF f = 0 THEN None ELSE <<"open", f - base>>
        /\ UNCHANGED <<result, faults>>
     \/ Fault /\ streamAt' = "end" /\ result' = <<"transport", 0>> /\ UNCHANGED <<opened, late, handles>>
  /\ UNCHANGED <<streamSize, missing, unread, stop, base, ahead, file, streamChunk, seen, output>>

Finished ==
  /\ streamAt = "open" /\ Cohort = {} /\ streamAt' = "end" /\ result' = <<"ok", 0>>
  /\ UNCHANGED <<streamSize, missing, unread, stop, base, opened, ahead, late, file, streamChunk, seen, output, handles, faults>>

\* A failed READ ends the stream at once only for the cohort's first file.
Immediate(f) == f = base + 1

\* The first chunks of the opened files.
ReadAhead ==
  /\ streamAt = "ahead"
  /\ LET f == FirstOf((base + 1)..opened, {i \in Files : unread[i] = 1}) IN
     \/ Immediate(f) /\ Ends(<<"error", f>>) /\ UNCHANGED <<ahead, late, file, streamChunk, faults>>
     \/ /\ ~Immediate(f) /\ streamAt' = "callback" /\ file' = base + 1 /\ streamChunk' = 1
        /\ ahead' = IF f = 0 THEN opened ELSE f - 1
        /\ late' = IF f = 0 THEN late ELSE <<"read", f - base>>
        /\ UNCHANGED <<result, faults>>
     \/ Fault /\ Ends(<<"transport", 0>>) /\ UNCHANGED <<ahead, late, file, streamChunk>>
  /\ UNCHANGED <<streamSize, missing, unread, stop, base, opened, seen, output, handles>>

\* The kept failure: a READ's index is the cohort's, an OPEN's the caller's.
LateError == IF late[1] = "read" THEN <<"error", late[2]>> ELSE <<"error", base + late[2]>>

\* The loop over the cohort is over: the kept failure is returned.
AfterLoop == IF late = None THEN Ends(None) ELSE Ends(LateError)

FileDone ==
  /\ output' = output + 1
  /\ IF file = ahead THEN AfterLoop /\ UNCHANGED <<file, streamChunk>>
     ELSE file' = file + 1 /\ streamChunk' = 1 /\ UNCHANGED <<streamAt, result>>

\* A chunk goes to the callback, which may break or fail; then the file ends or
\* its next chunk is read.
Callback ==
  /\ streamAt = "callback"
  /\ IF streamSize[file] = 0 THEN FileDone /\ UNCHANGED <<seen, faults>>
     ELSE /\ seen' = Append(seen, <<file, streamChunk>>)
          /\ \/ /\ stop = <<file, streamChunk>> /\ output' = output + 1 /\ Ends(<<"stopped", file>>)
                /\ UNCHANGED <<file, streamChunk, faults>>
             \/ Fault /\ stop # <<file, streamChunk>> /\ Ends(<<"callback", 0>>) /\ UNCHANGED <<file, streamChunk, output>>
             \/ /\ stop # <<file, streamChunk>> /\ UNCHANGED faults
                /\ IF streamChunk = streamSize[file] THEN FileDone
                   ELSE IF unread[file] = streamChunk + 1 THEN Ends(<<"error", file>>) /\ UNCHANGED <<file, streamChunk, output>>
                   ELSE streamChunk' = streamChunk + 1 /\ UNCHANGED <<streamAt, result, file, output>>
             \/ /\ Fault /\ stop # <<file, streamChunk>> /\ streamChunk < streamSize[file] /\ Ends(<<"transport", 0>>)
                /\ UNCHANGED <<file, streamChunk, output>>
  /\ UNCHANGED <<streamSize, missing, unread, stop, base, opened, ahead, late, handles>>

\* After a stop only the close errors of files handed out count.
Surfaces(i) == result[1] # "stopped" \/ i <= output

\* The whole cohort is closed, whatever happened.
Left == {}

\* The operation's own error goes before that of the close.
Close ==
  /\ streamAt = "close" /\ handles' = Left
  /\ \/ /\ UNCHANGED faults
        /\ IF result = None THEN streamAt' = "open" /\ base' = base + Capacity ELSE streamAt' = "end" /\ UNCHANGED base
        /\ UNCHANGED result
     \/ \E i \in handles :
          /\ Fault /\ streamAt' = "end" /\ UNCHANGED base
          /\ result' = IF result[1] \in {"none", "stopped"} /\ Surfaces(i) THEN <<"close", i>> ELSE result
  /\ UNCHANGED <<streamSize, missing, unread, stop, opened, ahead, late, file, streamChunk, seen, output>>

StreamNext == Open \/ Finished \/ ReadAhead \/ Callback \/ Close

StreamSpec == StreamInit /\ [][StreamNext]_streamVars
-----------------------------------------------------------------------------
\* The reference: the files one after another, each opened, read and closed.
ChunksOf(i) ==
  IF i \in missing \/ unread[i] = 1 THEN <<>>
  ELSE [k \in 1..(IF unread[i] # 0 THEN unread[i] - 1 ELSE streamSize[i]) |-> <<i, k>>]
Failing == missing \union {i \in Files : unread[i] # 0}
LastFile == IF Failing = {} THEN N ELSE Min(Failing)
Whole == FoldLeft(LAMBDA s, i : s \o ChunksOf(i), <<>>, [i \in 1..LastFile |-> i])
Stops == \E j \in DOMAIN Whole : Whole[j] = stop
Delivered == IF Stops THEN SubSeq(Whole, 1, CHOOSE j \in DOMAIN Whole : Whole[j] = stop) ELSE Whole
Outcome == IF Stops THEN "stopped" ELSE IF Failing # {} THEN "error" ELSE "ok"

\* Reading ahead is invisible: without transport, callback and close failures
\* the caller sees the chunks, and the kind of end, of files streamed one by one.
SequentialStream == (streamAt = "end" /\ faults = 0) => seen = Delivered /\ result[1] = Outcome

\* A stop by the callback is a success, unless closing a file it was given fails.
StopWins == (streamAt = "end" /\ seen # <<>> /\ seen[Len(seen)] = stop) =>
  result[1] = "stopped" \/ (result[1] = "close" /\ result[2] <= stop[1])

\* However the stream ends, it keeps no file open.
AllReleased == streamAt = "end" => handles = {}

=============================================================================
