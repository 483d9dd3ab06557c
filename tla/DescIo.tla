------------------------------- MODULE DescIo -------------------------------
(* Vector reads of NFS descriptors (crates/vfsi-nfs: nfs/io.rs,             *)
(* nfs/vector_backend.rs): items are cut into READs of at most Per bytes,   *)
(* READs are packed into compounds, short answers are completed one by one, *)
(* and only then do the cursors move, because a lost reply makes            *)
(* read_with_recovery run the whole vector again.  vread_all reads files to *)
(* their end in rounds of such vectors.  The byte at a position of a file   *)
(* is named by the position; another client may grow or cut the files       *)
(* between two compounds.                                                   *)
EXTENDS Integers, Sequences, FiniteSets, SequencesExt, FileBytes, FiniteSetsExt

CONSTANTS Files,      \* open descriptors, one per file
          MaxSize,    \* sizes of files
          Vectors,    \* vectors of reads: file, offset (-1: the cursor), length
          Per,        \* read_per_op_bytes
          Limit,      \* read_compound_bytes
          Overhead,   \* bytes of a reply that are not data (128 in the code)
          MaxForeign, \* changes of sizes in a behaviour
          MaxLost,    \* lost replies in a behaviour
          Attempts,   \* times read_with_recovery runs a vector
          MaxTotals   \* max_total_bytes of the vread_all calls

VARIABLES size, cursor, call, foreign, lost,
          vector      \* what the caller reads
vars == <<size, cursor, call, foreign, lost, vector>>

Idle == [pc |-> "idle"]
MinOf(a, b) == IF a < b THEN a ELSE b
MaxOf(a, b) == IF a > b THEN a ELSE b

Init ==
    /\ size \in [Files -> 0..MaxSize] /\ cursor = [f \in Files |-> 0]
    /\ call = Idle /\ foreign = 0 /\ lost = 0 /\ vector \in Vectors

(* descriptor_read_plan: the READs of an item; an empty item still has one. *)
Chunks(i, off, len) ==
    [k \in 1..MaxOf(1, (len + Per - 1) \div Per) |->
        [owner |-> i, off |-> off + Per * (k - 1), count |-> MinOf(len - Per * (k - 1), Per)]]
OffsetOf(r) == IF r.at = -1 THEN cursor[r.file] ELSE r.at
Plan(reads) ==
    FlattenSeq([i \in DOMAIN reads |-> Chunks(i, OffsetOf(reads[i]), reads[i].len)])

(* The compound from READ s on: as many as fit, at least one.               *)
EndOf(ops, s) ==
    LET bytes[k \in s - 1..Len(ops)] == IF k < s THEN 0 ELSE bytes[k - 1] + ops[k].count
        fits == {e \in s..Len(ops) : e = s \/ bytes[e] <= Limit - Overhead}
    IN  CHOOSE e \in fits : \A d \in fits : d <= e

(* READ at the server: what is there, or less without the end-of-file flag. *)
(* (An empty answer without that flag fails the call; servers do not give   *)
(* it.)                                                                     *)
Answers(f, off, count) ==
    LET n == MinOf(count, MaxOf(0, size[f] - off))
    IN  {[n |-> n, eof |-> off + count >= size[f]]}
        \cup {[n |-> m, eof |-> FALSE] : m \in 1..n - 1}

Begin(reads, into) ==
    [pc |-> "send", reads |-> reads, into |-> into, ops |-> Plan(reads), next |-> 1, wire |-> <<>>,
     offs |-> [i \in DOMAIN reads |-> OffsetOf(reads[i])],
     data |-> [i \in DOMAIN reads |-> [k \in 1..reads[i].len |-> -1]],
     n |-> [i \in DOMAIN reads |-> 0], eof |-> [i \in DOMAIN reads |-> FALSE],
     ok |-> TRUE, tries |-> 1, all |-> <<>>, before |-> cursor]

(* Bytes from position p of the file on, put into place k of a buffer.      *)
Filled(b, k, p, n) == [j \in DOMAIN b |-> IF k <= j /\ j < k + n THEN p + j - k ELSE b[j]]

VRead(reads, into) ==
    /\ call.pc = "idle" /\ call' = Begin(reads, into)
    /\ UNCHANGED <<size, cursor, foreign, lost, vector>>

(* A reply is lost: the vector is run again from the cursors as they were,  *)
(* or fails.                                                                *)
Again(c) == [Begin(c.reads, c.into) EXCEPT !.tries = c.tries + 1, !.all = c.all, !.before = c.before]
Lose ==
    /\ call.pc \in {"send", "assemble"} /\ lost < MaxLost /\ lost' = lost + 1
    /\ call' = IF call.tries < Attempts THEN Again(call) ELSE [call EXCEPT !.pc = "returned", !.ok = FALSE]
    /\ UNCHANGED <<size, cursor, foreign, vector>>

(* One compound.  vread_into decodes its data into the buffers at once.     *)
Send ==
    /\ call.pc = "send"
    /\ LET e == EndOf(call.ops, call.next)
           File(k) == call.reads[call.ops[k].owner].file
           Of(k) == Answers(File(k), call.ops[k].off, call.ops[k].count)
       IN  \E a \in [call.next..e -> UNION {Of(k) : k \in call.next..e}] :
             /\ \A k \in call.next..e : a[k] \in Of(k)
             /\ call' = [call EXCEPT
                  !.wire = @ \o [k \in 1..e - call.next + 1 |-> a[call.next + k - 1]],
                  !.next = IF e = Len(call.ops) THEN 1 ELSE e + 1,
                  !.pc = IF e = Len(call.ops) THEN "assemble" ELSE "send"]
    /\ UNCHANGED <<size, cursor, foreign, lost, vector>>

(* The results of the READ call.next: what was received goes behind what    *)
(* the item has (a vector into buffers: to its own place), unless the item  *)
(* already met the end of the file.  A short READ is asked for the rest.    *)
Skipped == call.eof[call.ops[call.next].owner]
Place(op, w) == IF call.into THEN op.off - call.offs[op.owner] + 1 ELSE call.n[op.owner] + 1
Assembled(op, w, more) ==
    LET i == op.owner
        n == w.n + more.n
    IN  [call EXCEPT
          !.data[i] = Filled(@, Place(op, w), op.off, n),
          !.n[i] = @ + n,
          !.eof[i] = more.eof]
Advance(c) ==
    IF c.next < Len(c.ops) THEN [c EXCEPT !.next = @ + 1]
    ELSE [c EXCEPT !.pc = "returned"]

(* Cursors move once everything is there.                                   *)
Moved(c) ==
    [f \in Files |->
        LET mine == {i \in DOMAIN c.reads : c.reads[i].file = f /\ c.reads[i].at = -1}
            i == CHOOSE i \in mine : \A j \in mine : j <= i
        IN  IF mine = {} THEN cursor[f] ELSE c.offs[i] + c.n[i]]
Finishes(c) ==
    /\ call' = Advance(c)
    /\ cursor' = IF c.next = Len(c.ops) THEN Moved(c) ELSE cursor

Assemble ==
    /\ call.pc = "assemble"
    /\ LET op == call.ops[call.next]
           w == call.wire[call.next]
       IN  IF Skipped THEN Finishes(call)
           ELSE IF w.n = op.count \/ w.eof THEN Finishes(Assembled(op, w, [n |-> 0, eof |-> w.eof]))
           ELSE /\ UNCHANGED cursor
                /\ \E a \in Answers(call.reads[op.owner].file, op.off + w.n, op.count - w.n) :
                     call' = [call EXCEPT !.wire[call.next] = [n |-> w.n + a.n, eof |-> a.eof]]
    /\ UNCHANGED <<size, foreign, lost, vector>>

Return ==
    /\ call.pc = "returned" /\ call.all = <<>> /\ call' = Idle
    /\ UNCHANGED <<size, cursor, foreign, lost, vector>>

-----------------------------------------------------------------------------
(* vread_all_with_options_impl: rounds over the files that are not at their *)
(* end, the ones just read going to the back.                               *)
WindowOf(n, remaining) ==
    MinOf(MaxOf(1, MinOf(((Limit - Overhead) \div n) - Overhead, Per * MaxOf(1, (Limit - Overhead) \div Per))),
          MaxOf(1, remaining \div n))
Everything(active, remaining) == Len(active)
Cohort(active, remaining) == IF remaining = 0 THEN 1 ELSE MinOf(Len(active), remaining)
Window(n, remaining) == IF remaining = 0 THEN 1 ELSE WindowOf(n, remaining)

Round(a) ==
    LET remaining == a.max - a.total
        n == Cohort(a.active, remaining)
        w == Window(n, remaining)
    IN  [Begin([k \in 1..n |-> [file |-> a.active[k], at |-> a.out[a.active[k]], len |-> w]], FALSE)
           EXCEPT !.all = <<a>>, !.before = call.before]

VReadAll(max) ==
    /\ call.pc = "idle"
    /\ \E order \in {s \in [1..Cardinality(Files) -> Files] : IsInjective(s)} :
         LET a == [active |-> order, max |-> max, total |-> 0, out |-> [f \in Files |-> 0], done |-> FALSE,
                   error |-> FALSE]
             n == Cohort(order, max)
             w == Window(n, max)
         IN  call' = [Begin([k \in 1..n |-> [file |-> order[k], at |-> 0, len |-> w]], FALSE) EXCEPT !.all = <<a>>]
    /\ UNCHANGED <<size, cursor, foreign, lost, vector>>

(* merge_read_allv_round, item by item: data behind what the file has, and  *)
(* an error at the item that passes the limit.                              *)
Reaches(total, max) == total >= max
Over(total, max) == total > max
Merge(a, k) ==
    LET f == call.reads[k].file
        t == a.total + call.n[k]
    IN  IF a.error THEN a
        ELSE IF (call.n[k] = 0 /\ ~call.eof[k]) \/ Over(t, a.max) THEN [a EXCEPT !.error = TRUE]
        ELSE [a EXCEPT !.total = t, !.out[f] = @ + call.n[k],
                       !.active = IF call.eof[k] THEN @ ELSE Append(@, f)]
Merged ==
    LET a == call.all[1]
        start == [a EXCEPT !.active = SubSeq(@, Len(call.reads) + 1, Len(@))]
        m[k \in 0..Len(call.reads)] == IF k = 0 THEN start ELSE LET p == m[k - 1] IN Merge(p, k)
    IN  m[Len(call.reads)]
NextRound ==
    /\ call.pc = "returned" /\ call.all # <<>> /\ ~call.all[1].done
    /\ LET a == Merged
       IN  call' = IF ~call.ok THEN [call EXCEPT !.all[1].error = TRUE, !.all[1].done = TRUE]
                   ELSE IF a.error \/ a.active = <<>> THEN [call EXCEPT !.all = <<[a EXCEPT !.done = TRUE]>>]
                   ELSE Round(a)
    /\ UNCHANGED <<size, cursor, foreign, lost, vector>>
AllReturns ==
    /\ call.pc = "returned" /\ call.all # <<>> /\ call.all[1].done
    /\ call' = Idle
    /\ UNCHANGED <<size, cursor, foreign, lost, vector>>

(* Another client grows or cuts a file.                                     *)
Resize(f) ==
    /\ foreign < MaxForeign /\ foreign' = foreign + 1 /\ call.pc # "idle"
    /\ \E s \in 0..MaxSize : s # size[f] /\ size' = [size EXCEPT ![f] = s]
    /\ UNCHANGED <<cursor, call, lost, vector>>

Step == Send \/ Assemble \/ Return \/ NextRound \/ AllReturns
Next ==
    \/ Step \/ Lose
    \/ \E into \in BOOLEAN : VRead(vector, into)
    \/ \E max \in MaxTotals : VReadAll(max)
    \/ \E f \in Files : Resize(f)

Spec == Init /\ [][Next]_vars

-----------------------------------------------------------------------------
Finished == call.pc = "returned" /\ call.ok

(* What an item returns is one stretch of its file from its offset on,      *)
(* without a gap or a byte out of place, and shorter than asked for only    *)
(* when the end of the file was met; chunks, short READs, replays and       *)
(* changes of the file in between do not show (complete_read_chunk).        *)
Contiguous ==
    Finished => \A i \in DOMAIN call.reads :
        /\ call.n[i] <= call.reads[i].len
        /\ \A k \in 1..call.n[i] : call.data[i][k] = call.offs[i] + k - 1
        /\ call.n[i] < call.reads[i].len => call.eof[i]

(* A read at the cursor starts where the cursor was when the call was made, *)
(* and the cursor moves exactly when the call succeeds, past what its last  *)
(* item at the cursor returned, however often the vector was run.           *)
CursorsFollow ==
    /\ call.pc \in {"send", "assemble"} => cursor = call.before
    /\ call.pc = "returned" /\ ~call.ok => cursor = call.before
    /\ Finished => \A i \in DOMAIN call.reads :
         call.reads[i].at = -1 => /\ call.offs[i] = call.before[call.reads[i].file]
                                  /\ \E j \in DOMAIN call.reads :
                                       /\ call.reads[j].file = call.reads[i].file /\ call.reads[j].at = -1
                                       /\ cursor[call.reads[i].file] = call.offs[j] + call.n[j]

(* vread_all of files that nobody changes meanwhile returns each of them    *)
(* completely, and fails for its limit exactly when they do not fit it,     *)
(* files that fill the limit to the byte included.                          *)
SumOf(S) == FoldFunctionOnSet(+, 0, size, S)
WholeFiles ==
    call.pc = "returned" /\ call.all # <<>> /\ call.all[1].done /\ foreign = 0 /\ lost = 0 /\ vector \in Vectors =>
        /\ call.all[1].error <=> SumOf(Files) > call.all[1].max
        /\ ~call.all[1].error => \A f \in Files : call.all[1].out[f] = size[f]

(* A round never asks for more than may still be kept, but for the one byte *)
(* that tells a full limit from a passed one.                               *)
RoundFits ==
    call.pc = "send" /\ call.all # <<>> =>
        FoldFunction(+, 0, [k \in DOMAIN call.reads |-> call.reads[k].len])
            <= MaxOf(1, call.all[1].max - call.all[1].total)

(* vread_all ends, whatever the server answers and however the files change.*)

-----------------------------------------------------------------------------
(***************************************************************************)
(* vwrite_batch_nfs of crates/vfsi-nfs/src/nfs/io.rs and WriteWaveAccess   *)
(* of client.rs: descriptor writes of one vector.  A request is cut into   *)
(* chunks of at most Per bytes; a wave takes chunks of requests that do    *)
(* not depend on each other, in input order and up to a byte limit; only   *)
(* acknowledged missing suffixes are sent again.                           *)
(*                                                                         *)
(* A request is [fd, kind, off, len], kind "at", "cur" or "end".  The      *)
(* server (external) executes the chunks of a wave in order, may write     *)
(* less than asked, and the call may fail in the middle.                   *)
(***************************************************************************)

CONSTANTS
          WaveFiles,     \* filehandles
          Fds,       \* descriptors of the caller
          FhOf,      \* Fds -> Files
          AppendFds, \* descriptors opened with O_APPEND
          WaveVectors,   \* request vectors a caller may pass
          WaveOverhead,  \* 256 in the code: what an operation adds to its data
          WaveLimit      \* max_request_arg_bytes() - 1024

VARIABLES
  reqs,       \* the argument
  pc,         \* "validate", "scan", "sent", "done" or "failed"
  cur,        \* cur_offset, per descriptor
  offsets,    \* offset of each request
  activated,  \* requests whose offset is final
  done,       \* complete requests
  progress,   \* bytes acknowledged, per request and chunk
  scan,       \* the request the selection loop looks at
  waveActive,     \* active_files: per file a WriteWaveAccess, or Idle
  selected,   \* the wave: a sequence of <<request, chunk>>
  got,        \* byte counts the server returned so far
  file,       \* contents, per file
  written     \* history: byte positions of each request the server wrote

waveVars == <<reqs, pc, cur, offsets, activated, done, progress, scan, waveActive, selected, got, file, written>>
wave == <<scan, waveActive, selected, got>>

Idx == 1..Len(reqs)
Fh(i) == FhOf[reqs[i].fd]
Positional(i) == reqs[i].kind = "at" /\ reqs[i].fd \notin AppendFds
Predecessor(i) == \E j \in 1..(i - 1) : Fh(j) = Fh(i)

\* Chunks are numbered from 1; an empty request has one empty chunk.
WaveChunks(i) == 1..(IF reqs[i].len = 0 THEN 1 ELSE (reqs[i].len + Per - 1) \div Per)
From(c) == (c - 1) * Per
Size(i, c) == Min({Per, reqs[i].len - From(c)})
Complete(i, c, p) == p[i][c] = Size(i, c)

WaveIdle == [positional |-> TRUE, first |-> {}, additional |-> {}, idle |-> TRUE]

WaveInit ==
  /\ reqs \in WaveVectors
  /\ pc = "validate"
  /\ cur = [d \in Fds |-> 0]
  /\ offsets = [i \in Idx |-> 0] /\ activated = {} /\ done = {}
  /\ progress = [i \in Idx |-> [c \in WaveChunks(i) |-> 0]]
  /\ scan = 1 /\ waveActive = [f \in WaveFiles |-> WaveIdle] /\ selected = <<>> /\ got = <<>>
  /\ file = [f \in WaveFiles |-> <<Hole>>]
  /\ written = [i \in Idx |-> {}]

-----------------------------------------------------------------------------
(* Offsets.                                                                *)

\* write_offset: a descriptor opened for appending always writes at the end.
WriteOffset(i) ==
  IF reqs[i].fd \in AppendFds \/ reqs[i].kind = "end" THEN Len(file[Fh(i)])
  ELSE IF reqs[i].kind = "cur" THEN cur[reqs[i].fd] ELSE reqs[i].off

\* Every operand is validated before anything is written.
Validate ==
  /\ pc = "validate"
  /\ \/ pc' = "scan" /\ offsets' = [i \in Idx |-> WriteOffset(i)]
     \/ pc' = "failed" /\ UNCHANGED offsets      \* a size query fails
  /\ UNCHANGED <<reqs, cur, activated, done, progress, wave, file, written>>

\* Earlier writes to the same file move the cursor and the end.
ActiveOffset(i) ==
  IF i \notin activated /\ Predecessor(i) /\ ~Positional(i) THEN WriteOffset(i) ELSE offsets[i]

-----------------------------------------------------------------------------
(* WriteWaveAccess: the ranges a wave may touch in one file, as sets       *)
(* {<<start, end>>} of non-empty ranges; first is the one kept outside the *)
(* tree.                                                                   *)

RangeOf(i) == IF reqs[i].len = 0 THEN {} ELSE {<<offsets[i], offsets[i] + reqs[i].len>>}

New(i) == [positional |-> Positional(i), first |-> RangeOf(i), additional |-> {}, idle |-> FALSE]

\* admit: only the last admitted range that starts before the new one's end
\* can overlap it.
Admit(a, i) ==
  /\ a.positional /\ Positional(i)
  /\ \A r \in RangeOf(i) :
       /\ \A f \in a.first : r[1] >= f[2] \/ f[1] >= r[2]
       /\ \A x \in a.additional :
            x[1] < r[2] /\ (\A y \in a.additional : y[1] < r[2] => y[1] <= x[1]) => x[2] <= r[1]

Admitted(a, i) == IF a.idle THEN New(i) ELSE [a EXCEPT !.additional = @ \cup RangeOf(i)]

-----------------------------------------------------------------------------
(* The selection loop.                                                     *)

Bytes(s, p) == MapThenSumSet(LAMBDA k : Size(s[k][1], s[k][2]) - p[s[k][1]][s[k][2]] + WaveOverhead,
                             DOMAIN s)

\* The wave with the chunks of i that are not complete and still fit.
RECURSIVE Take(_, _, _)
Take(s, i, C) ==
  IF C = {} THEN s
  ELSE LET t == Append(s, <<i, Min(C)>>)
       IN  IF s # <<>> /\ Bytes(t, progress) > WaveLimit THEN s ELSE Take(t, i, C \ {Min(C)})

Open(i) == {c \in WaveChunks(i) : ~Complete(i, c, progress)}
\* An empty chunk is complete only once it has been sent.
ToSend(i) == IF reqs[i].len = 0 THEN {1} ELSE Open(i)

SendNow == pc' = "sent" /\ UNCHANGED scan

\* One request is looked at.
Scan ==
  /\ pc = "scan" /\ scan \in Idx
  /\ LET i == scan
     IN  IF i \in done
         THEN scan' = i + 1 /\ UNCHANGED <<pc, offsets, activated, waveActive, selected>>
         ELSE IF ~waveActive[Fh(i)].idle /\ ~Admit(waveActive[Fh(i)], i)
         THEN SendNow /\ UNCHANGED <<offsets, activated, waveActive, selected>>
         ELSE /\ waveActive' = [waveActive EXCEPT ![Fh(i)] = Admitted(@, i)]
              /\ offsets' = [offsets EXCEPT ![i] = ActiveOffset(i)]
              /\ activated' = activated \cup {i}
              /\ selected' = Take(selected, i, ToSend(i))
              /\ IF {c \in WaveChunks(i) : \E k \in DOMAIN selected' : selected'[k] = <<i, c>>} = ToSend(i)
                 THEN scan' = i + 1 /\ UNCHANGED pc
                 ELSE SendNow
  /\ UNCHANGED <<reqs, cur, done, progress, got, file, written>>

ScanEnds ==
  /\ pc = "scan" /\ scan > Len(reqs)
  /\ pc' = "sent"
  /\ UNCHANGED <<reqs, cur, offsets, activated, done, progress, wave, file, written>>

\* The size query of an activated request fails.
ScanFails ==
  /\ pc = "scan" /\ scan \in Idx \ (done \cup activated)
  /\ Predecessor(scan) /\ ~Positional(scan)
  /\ waveActive[Fh(scan)].idle
  /\ pc' = "failed"
  /\ UNCHANGED <<reqs, cur, offsets, activated, done, progress, wave, file, written>>

-----------------------------------------------------------------------------
(* The wave.                                                               *)

\* The server executes the next WRITE of the compounds.
ServerWrites ==
  /\ pc = "sent" /\ Len(got) < Len(selected)
  /\ LET i    == selected[Len(got) + 1][1]
         c    == selected[Len(got) + 1][2]
         from == From(c) + progress[i][c]
     IN  \E n \in 0..(Size(i, c) - progress[i][c]) :
           /\ file' = [file EXCEPT ![Fh(i)] = Put(@, offsets[i] + from, i, from, n)]
           /\ written' = [written EXCEPT ![i] = @ \cup (from..(from + n - 1))]
           /\ got' = Append(got, n)
  /\ UNCHANGED <<reqs, pc, cur, offsets, activated, done, progress, scan, waveActive, selected>>

WaveFails ==
  /\ pc = "sent" /\ Len(got) < Len(selected)
  /\ pc' = "failed"
  /\ UNCHANGED <<reqs, cur, offsets, activated, done, progress, wave, file, written>>

NoProgress ==
  \E k \in DOMAIN selected :
    got[k] = 0 /\ ~Complete(selected[k][1], selected[k][2], progress)

Acknowledged ==
  [i \in Idx |-> [c \in WaveChunks(i) |->
     progress[i][c] + MapThenSumSet(LAMBDA k : got[k], {k \in DOMAIN selected : selected[k] = <<i, c>>})]]

\* Mutant: every acknowledged byte counts, also behind a gap.
ContiguousAny(i, p) == MapThenSumSet(LAMBDA c : p[i][c], WaveChunks(i))

\* Complete chunks from the first on, and the progress of the next.
WaveContiguous(i, p) ==
  MapThenSumSet(LAMBDA c : p[i][c], {c \in WaveChunks(i) : \A b \in 1..(c - 1) : Complete(i, b, p)})

Sent(i) == \E k \in DOMAIN selected : selected[k][1] = i

\* Cursors of the descriptors after the loop over the requests; the last
\* request of a descriptor in the vector wins.
Advanced(p) ==
  [d \in Fds |->
     LET moved == {i \in activated \ done : reqs[i].fd = d /\ reqs[i].kind = "cur"}
     IN  IF moved = {} THEN cur[d] ELSE offsets[Max(moved)] + WaveContiguous(Max(moved), p)]

ApplyWave ==
  /\ pc = "sent" /\ Len(got) = Len(selected)
  /\ IF NoProgress
     THEN pc' = "failed" /\ UNCHANGED <<cur, done, progress, wave>>
     ELSE /\ progress' = Acknowledged
          /\ done' = done \cup {i \in activated : \A c \in WaveChunks(i) :
                                  Complete(i, c, progress') /\ (reqs[i].len = 0 => Sent(i))}
          /\ cur' = Advanced(progress')
          /\ pc' = IF done' = Idx THEN "done" ELSE "scan"
          /\ scan' = 1 /\ waveActive' = [f \in WaveFiles |-> WaveIdle] /\ selected' = <<>> /\ got' = <<>>
  /\ UNCHANGED <<reqs, offsets, activated, file, written>>

Ended == pc \in {"done", "failed"} /\ UNCHANGED waveVars

Call == Validate \/ Scan \/ ScanEnds \/ ScanFails \/ ServerWrites \/ WaveFails \/ ApplyWave
WaveNext == Call \/ Ended

\* The loop is sequential code, and a call to the server returns or fails.
WaveSpec == WaveInit /\ [][WaveNext]_waveVars /\ WF_waveVars(Call)

-----------------------------------------------------------------------------
(* Reference: the requests one after the other.                            *)
Sequential(v) ==
  LET run[k \in 0..Len(v)] ==
        IF k = 0 THEN [file |-> [f \in WaveFiles |-> <<Hole>>], cur |-> [d \in Fds |-> 0], offs |-> <<>>]
        ELSE LET s  == run[k - 1]
                 r  == v[k]
                 at == IF r.fd \in AppendFds \/ r.kind = "end" THEN Len(s.file[FhOf[r.fd]])
                       ELSE IF r.kind = "cur" THEN s.cur[r.fd] ELSE r.off
             IN  [file |-> [s.file EXCEPT ![FhOf[r.fd]] = Put(@, at, k, 0, r.len)],
                  cur  |-> IF r.kind = "cur" THEN [s.cur EXCEPT ![r.fd] = at + r.len] ELSE s.cur,
                  offs |-> Append(s.offs, at)]
  IN  run[Len(v)]

\* A successful vwrite leaves files, cursors and reported offsets as if the
\* requests had run one after the other, however short the server's writes.
SequentialResult ==
  pc = "done" => /\ file = Sequential(reqs).file
                 /\ cur = Sequential(reqs).cur
                 /\ offsets = Sequential(reqs).offs

\* Also when the call fails: a descriptor's cursor never passes a byte of a
\* Cur request that the server did not write ("contiguous").
CursorCoversWritten ==
  \A i \in activated : \A k \in 0..(reqs[i].len - 1) :
    reqs[i].kind = "cur" /\ offsets[i] + k < cur[reqs[i].fd] => k \in written[i]

\* Also when the call fails: a write starts only after every earlier write of
\* the vector it depends on (same file, overlapping or not positional) is
\* complete.
DependenciesComplete ==
  \A i, j \in Idx :
    /\ i < j /\ Fh(i) = Fh(j) /\ written[j] # {}
    /\ ~Positional(i) \/ ~Positional(j)
       \/ (offsets[i] < offsets[j] + reqs[j].len /\ offsets[j] < offsets[i] + reqs[i].len)
    => Cardinality(written[i]) = reqs[i].len

\* The loop ends: every wave completes a request, makes progress or fails.
CallReturns == <>(pc \in {"done", "failed"})

-----------------------------------------------------------------------------
(* Extent copies of the NFS backend (nfs/copy.rs): vcopy runs batches of     *)
(* server-side COPY between temporarily opened files and turns to copying    *)
(* through the client when the server declines.                              *)

CONSTANTS CopyFiles,
          CopyVectors,     \* the calls: sequences of extents [src, so, dst, do, len],
                           \* len -1 for None (to the end of the source)
          Contents,    \* the initial contents: functions from Files to sequences
          Absent,      \* the files that do not exist before the call
          PerBatch,    \* FILES_PER_COPY_BATCH
          MaxFaults

VARIABLES pairs, files, initial,
          there,       \* the files that exist
          enabled,     \* server_copy_enabled
          base,        \* the pairs before the current batch
          batch,       \* the indices copied together: a batch, or one of its pairs
          copyAt,
          effective,   \* effective[i]: the extent's length within its source, -1 for None
          copyTotal,       \* total[i]: bytes COPY reported for pair i
          pending,     \* pairs whose COPY must be continued
          atstart,     \* the files when the batch was opened
          result,      \* "", "ok" or "error"
          faults

copyVars == <<pairs, files, initial, there, enabled, base, batch, copyAt, effective, copyTotal, pending, atstart, result, faults>>

Least(a, b) == IF a < b THEN a ELSE b
Fault == faults < MaxFaults /\ faults' = faults + 1
Chunk == {i \in DOMAIN pairs : base < i /\ i <= base + PerBatch}

\* What is left of the source for an extent.
Span(c, e) ==
  LET left == IF e.so >= Len(c) THEN 0 ELSE Len(c) - e.so
  IN IF e.len = -1 THEN left ELSE Least(e.len, left)
At(c, i) == IF i <= Len(c) THEN c[i] ELSE 0
\* n bytes of s from so, written into d at do.
Written(d, do, s, so, n) ==
  IF n = 0 THEN d
  ELSE [i \in 1..(IF do + n > Len(d) THEN do + n ELSE Len(d)) |-> IF i \in (do + 1)..(do + n) THEN At(s, so + i - do) ELSE At(d, i)]
Resized(d, n) == [i \in 1..n |-> At(d, i)]

Overlap(e, n) == e.src = e.dst /\ e.so < e.do + n /\ e.do < e.so + n

\* The reference: one extent after another, each cutting its destination off
\* behind what it copied.
Apply(f, e) == LET n == Span(f[e.src], e) IN [f EXCEPT ![e.dst] = Resized(Written(@, e.do, f[e.src], e.so, n), e.do + n)]

CopyInit ==
  /\ pairs \in CopyVectors
  /\ initial \in {[f \in CopyFiles |-> IF f \in Absent THEN <<>> ELSE c[f]] : c \in Contents} /\ files = initial
  /\ there = CopyFiles \ Absent
  /\ enabled \in BOOLEAN /\ base = 0 /\ batch = {}
  /\ copyAt = IF enabled THEN "open" ELSE "client"
  /\ effective = [i \in DOMAIN pairs |-> 0] /\ copyTotal = effective /\ pending = {}
  /\ atstart = files /\ result = "" /\ faults = 0

\* A batch ends: the next pair of an aliased chunk, the next chunk, or the end.
AfterBatch ==
  LET rest == {i \in Chunk : i > Max(batch)} IN
  IF rest # {} THEN batch' = {Min(rest)} /\ copyAt' = "opened" /\ UNCHANGED <<base, result>>
  ELSE /\ base' = base + PerBatch /\ batch' = {}
       /\ IF base + PerBatch >= Len(pairs) THEN result' = "ok" /\ copyAt' = "end" ELSE copyAt' = "open" /\ UNCHANGED result

\* open_path_batch of the sources, then of the destinations, which it creates.
\* Pairs that share a file with another pair are copied one by one.
Aliases(S) == \E i, j \in S : i # j /\ {pairs[i].src, pairs[i].dst} \cap {pairs[j].src, pairs[j].dst} # {}

\* Mutant: pairs are copied together whatever files they share.
AliasesNever(S) == FALSE
CopyPairsAlias(S) == Aliases(S)

CopyOpen ==
  /\ copyAt = "open"
  /\ IF \E i \in Chunk : pairs[i].src \notin there
     THEN result' = "error" /\ copyAt' = "end" /\ UNCHANGED <<there, batch, atstart>>
     ELSE /\ there' = there \union {pairs[i].dst : i \in Chunk}
          /\ batch' = IF CopyPairsAlias(Chunk) THEN {Min(Chunk)} ELSE Chunk
          /\ copyAt' = "opened" /\ atstart' = files /\ UNCHANGED result
  /\ UNCHANGED <<pairs, files, initial, enabled, base, effective, copyTotal, pending, faults>>

\* An extent of no bytes is never put on the wire, where it would mean "to EOF".
OnWire(S) == {i \in S : effective'[i] # 0}

\* The sizes of explicit extents.
Attributes ==
  /\ copyAt = "opened"
  /\ effective' = [i \in DOMAIN pairs |-> IF i \in batch /\ pairs[i].len > 0 THEN Span(files[pairs[i].src], pairs[i]) ELSE pairs[i].len]
  /\ pending' = OnWire(batch) /\ copyAt' = "copy" /\ atstart' = files
  /\ UNCHANGED <<pairs, files, initial, there, enabled, base, batch, copyTotal, result, faults>>

\* An OPEN or GETATTR of the batch fails, after some destinations were created.
\* A status of a COPY the server declines (a forgotten stateid is one) sends
\* the call through the client, from the batch on, unless a pair of it was copied.
PrepareFails ==
  /\ copyAt \in {"open", "opened"} /\ Fault
  /\ \E k \in Chunk \cup {base} :
       /\ k > base => \A i \in Chunk : pairs[i].src \in there
       /\ there' = there \union {pairs[i].dst : i \in {j \in Chunk : j <= k}}
  /\ \/ copyAt' = "client" /\ enabled' = FALSE /\ UNCHANGED result /\ (batch # {} => Min(batch) = base + 1)
     \/ copyAt' = "end" /\ result' = "error" /\ UNCHANGED enabled
  /\ UNCHANGED <<pairs, files, initial, base, batch, effective, copyTotal, pending, atstart>>

\* Falling back is safe only before anything was copied.
AllowsFallback(k) == k = Min(pending) /\ \A i \in batch : copyTotal[i] = 0

\* In a chunk copied pair by pair only the first may fall back.
FallbackSafe(k) == AllowsFallback(k) /\ Min(batch) = base + 1

\* The server's COPY of pair i, n bytes of which it takes in this round.
Wanted(i) ==
  LET e == pairs[i]
      left == Span(files[e.src], [e EXCEPT !.so = @ + copyTotal[i], !.len = -1])
  IN IF effective[i] <= 0 THEN left ELSE Least(left, effective[i] - copyTotal[i])
Copied(f, i, n) ==
  LET e == pairs[i] IN [f EXCEPT ![e.dst] = Written(@, e.do + copyTotal[i], f[e.src], e.so + copyTotal[i], n)]
InOrder(S) == SetToSortSeq(S, LAMBDA a, b : a < b)
Takes == {t \in [pending -> 0..3] : \A i \in pending : t[i] <= Wanted(i) /\ (Wanted(i) > 0 => t[i] > 0)}

\* One COPY compound.  It stops at the first pair the server refuses: a
\* declined COPY may be done through the client, another error ends the call.
Copy ==
  /\ copyAt = "copy" /\ pending # {}
  /\ \E t \in Takes :
       \/ /\ \A i \in pending : ~Overlap(pairs[i], Wanted(i))
          /\ files' = FoldLeft(LAMBDA f, i : Copied(f, i, t[i]), files, InOrder(pending))
          /\ copyTotal' = [i \in DOMAIN pairs |-> IF i \in pending THEN copyTotal[i] + t[i] ELSE copyTotal[i]]
          /\ pending' = {i \in pending : t[i] # 0 /\ (effective[i] <= 0 \/ copyTotal'[i] < effective[i])}
          /\ UNCHANGED <<copyAt, enabled, result, faults>>
       \/ \E k \in pending, declined \in BOOLEAN :
            /\ \A i \in pending : i < k => ~Overlap(pairs[i], Wanted(i))
            /\ IF Overlap(pairs[k], Wanted(k)) THEN ~declined /\ UNCHANGED faults ELSE Fault
            /\ files' = FoldLeft(LAMBDA f, i : Copied(f, i, t[i]), files, InOrder({i \in pending : i < k}))
            /\ pending' = {}
            /\ IF declined /\ FallbackSafe(k) THEN copyAt' = "client" /\ enabled' = FALSE /\ UNCHANGED result
               ELSE copyAt' = "end" /\ result' = "error" /\ UNCHANGED enabled
            /\ UNCHANGED copyTotal
  /\ UNCHANGED <<pairs, initial, there, base, batch, effective, atstart>>

\* SETATTR cuts the destinations off.
Setattr ==
  /\ copyAt = "copy" /\ pending = {}
  /\ \/ /\ files' = FoldLeft(LAMBDA f, i : [f EXCEPT ![pairs[i].dst] = Resized(@, pairs[i].do + copyTotal[i])], files, InOrder(batch))
        /\ AfterBatch /\ UNCHANGED faults
     \/ /\ Fault /\ copyAt' = "end" /\ result' = "error" /\ UNCHANGED <<base, batch>>
        /\ \E k \in batch : files' = FoldLeft(LAMBDA f, i : [f EXCEPT ![pairs[i].dst] = Resized(@, pairs[i].do + copyTotal[i])],
                                               files, InOrder({i \in batch : i < k}))
  /\ UNCHANGED <<pairs, initial, there, enabled, effective, copyTotal, pending, atstart>>

\* A forward copy within one file that would read its own output.
Forward(e) ==
  /\ e.src = e.dst /\ e.do > e.so
  /\ \/ e.len = -1
     \/ e.do - e.so < Span(files[e.src], e)

\* copy_extent: one pair through the client, chunk by chunk, then cut off.
Client ==
  /\ copyAt = "client"
  /\ LET e == pairs[base + 1] IN
     IF e.src \notin there \/ Forward(e)
     THEN /\ result' = "error" /\ copyAt' = "end"
          /\ there' = IF e.src \in there THEN there \union {e.dst} ELSE there
          /\ UNCHANGED <<files, base, faults>>
     ELSE /\ there' = there \union {e.dst}
          /\ \/ /\ files' = Apply(files, e) /\ base' = base + 1 /\ UNCHANGED faults
                /\ IF base + 1 = Len(pairs) THEN result' = "ok" /\ copyAt' = "end" ELSE UNCHANGED <<copyAt, result>>
             \/ /\ Fault /\ result' = "error" /\ copyAt' = "end" /\ UNCHANGED base
                /\ \E n \in 0..Span(files[e.src], e) :
                     files' = [files EXCEPT ![e.dst] = Written(@, e.do, files[e.src], e.so, n)]
  /\ UNCHANGED <<pairs, initial, enabled, batch, effective, copyTotal, pending, atstart>>

CopyNext == CopyOpen \/ PrepareFails \/ Attributes \/ Copy \/ Setattr \/ Client

CopySpec == CopyInit /\ [][CopyNext]_copyVars
-----------------------------------------------------------------------------
\* A vcopy that returns has done what its extents do one after the other,
\* whatever part of each COPY the server took, whoever did the copying and
\* whichever files the pairs share.
SequentialCopies == result = "ok" => files = FoldLeft(Apply, initial, pairs)

=============================================================================
