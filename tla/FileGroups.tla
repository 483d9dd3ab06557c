----------------------------- MODULE FileGroups -----------------------------
(* The readers of an open_files() group (_fs.py, _BufferGroup): a cache miss  *)
(* of one file also reads the same range of its siblings in one vector, keeps *)
(* what they will probably ask for within a byte budget, and reopens every    *)
(* reader after the session is lost.  Calls run under the group's lock; other *)
(* threads reconnect sessions and other clients replace files between steps.  *)
EXTENDS Integers, Sequences, FiniteSets, FiniteSetsExt, SequencesExt

CONSTANTS Files,        \* 1..n in the order of the group
          Size,         \* Size[f]: its length in atoms, kept from the open
          Sessions, BlockSize, BatchSize, Budget,
          MaxCalls, MaxFaults, MaxReplaced

VARIABLES mmap,         \* whether the readers' caches are persistent ones
          name,         \* name[f]: 1, or 2 once another file took the path
          fds,          \* descriptors open at the server: [tok, file, ino, sess]
          fd,           \* fd[f]: the token of the reader, 0 when it has none
          deferred,     \* tokens the pool closes later
          loc,          \* loc[f]: the offset of the reader
          kept,         \* speculative data: a sequence of [whole, file, start, data], oldest first
          call,         \* the running call
          truth,        \* history: whether every answer was right
          counts        \* [call, fault, tok]

vars == <<mmap, name, fds, fd, deferred, loc, kept, call, truth, counts>>

Idle == [at |-> "idle"]
MaxSize == Max({Size[f] : f \in Files})
\* Atom k of inode i of file f.
Content(f, i) == [k \in 1..Size[f] |-> <<f, i, k>>]
Slice(f, i, from, to) == SubSeq(Content(f, i), from + 1, to)
Least(a, b) == IF a < b THEN a ELSE b
Live(tok) == \E d \in fds : d.tok = tok
Desc(tok) == CHOOSE d \in fds : d.tok = tok
Fault == counts.fault < MaxFaults /\ counts' = [counts EXCEPT !.fault = @ + 1]
Raise == call' = Idle

\* open_many, then the identities of the files: every reader has a descriptor.
Init ==
  /\ mmap \in BOOLEAN
  /\ name = [f \in Files |-> 1]
  /\ \E s \in [Files -> Sessions] : fds = {[tok |-> f, file |-> f, ino |-> 1, sess |-> s[f]] : f \in Files}
  /\ fd = [f \in Files |-> f] /\ deferred = {}
  /\ loc = [f \in Files |-> 0] /\ kept = <<>>
  /\ call = Idle /\ truth = TRUE
  /\ counts = [call |-> 0, fault |-> 0, tok |-> Cardinality(Files)]

Bytes(s) == FoldLeft(LAMBDA n, e : n + Len(e.data), 0, s)
HasKept(f) == \E i \in DOMAIN kept : kept[i].file = f
Without(s, whole, f, start, end) ==
  SelectSeq(s, LAMBDA e : ~(e.whole = whole /\ e.file = f /\ e.start = start /\ e.start + Len(e.data) = end))

\* _store_speculative: the oldest entries make room for e.
Keep(s, e) ==
  LET fresh == Without(s, e.whole, e.file, e.start, e.start + Len(e.data))
      drop == CHOOSE n \in 0..Len(fresh) :
                /\ Bytes(SubSeq(fresh, n + 1, Len(fresh))) + Len(e.data) <= Budget
                /\ \A m \in 0..(n - 1) : Bytes(SubSeq(fresh, m + 1, Len(fresh))) + Len(e.data) > Budget
  IN IF e.data = <<>> \/ Len(e.data) > Budget THEN fresh ELSE Append(SubSeq(fresh, drop + 1, Len(fresh)), e)

\* _active_readers: the caller first.
Ordered(cur) == <<cur>> \o SelectSeq([i \in 1..Cardinality(Files) |-> i], LAMBDA f : f # cur)

\* The files a miss reads together, with the length of each, within the batch
\* and byte limits.  Length(f) is 0 for a file that is passed over.
Wave(cur, Length(_)) ==
  FoldLeft(LAMBDA w, f :
             IF Length(f) <= 0 \/ Len(w) >= BatchSize THEN w
             ELSE IF w # <<>> /\ FoldLeft(LAMBDA n, e : n + e.len, 0, w) + Length(f) > Budget THEN w
             ELSE Append(w, [file |-> f, len |-> Length(f), data |-> <<>>, error |-> FALSE, short |-> TRUE]),
           <<>>, Ordered(cur))

\* What fetch reads of f for a miss of cur on [start, end).
FetchLength(cur, start, end, f) ==
  IF f = cur THEN (IF start >= Size[f] THEN 0 ELSE Least(end, Size[f]) - start)
  ELSE IF end - start > 2 * BlockSize \/ HasKept(f) \/ loc[f] > start \/ start >= Size[f] THEN 0
  ELSE Least(Least(end, Size[f]), start + BlockSize) - start

Answer(f, start, need, data) ==
  truth' = (truth /\ LET n == Len(data) IN
                     /\ start + n >= need /\ start + n <= Size[f]
                     /\ data = Slice(f, 1, start, start + n))

\* Whether a kept range answers the miss: a persistent cache needs all of it.
Covers(e, cur, start, need, end) ==
  ~e.whole /\ e.file = cur /\ e.start <= start /\ e.start + Len(e.data) >= (IF mmap THEN end ELSE need)

\* fetch(current, start, end) for a read that needs the bytes before `need`.
Fetch(cur, start, need, end) ==
  /\ call = Idle /\ counts.call < MaxCalls
  /\ start < need /\ need <= end /\ end <= Size[cur]
  /\ counts' = [counts EXCEPT !.call = @ + 1]
  /\ loc' = [loc EXCEPT ![cur] = need]
  /\ LET hits == {i \in DOMAIN kept : Covers(kept[i], cur, start, need, end)} IN
     IF hits # {}
     THEN LET e == kept[Min(hits)]
              rest == SubSeq(e.data, start - e.start + 1, Len(e.data))
          IN /\ Answer(cur, start, need, IF mmap THEN SubSeq(rest, 1, end - start) ELSE rest)
             /\ kept' = RemoveAt(kept, Min(hits))
             /\ UNCHANGED call
     ELSE /\ call' = [at |-> "ensure", cur |-> cur, start |-> start, need |-> (IF mmap THEN end ELSE need),
                      all |-> FALSE, wave |-> Wave(cur, LAMBDA f : FetchLength(cur, start, end, f)),
                      first |-> TRUE, tried |-> FALSE, toks |-> <<>>]
          /\ UNCHANGED <<kept, truth>>
  /\ UNCHANGED <<mmap, name, fds, fd, deferred>>

AllLength(cur, f) ==
  IF f = cur THEN Size[f] ELSE IF HasKept(f) THEN 0 ELSE Least(Size[f], BlockSize)

\* read_all(current): its own ranges are superseded.
ReadAll(cur) ==
  /\ call = Idle /\ counts.call < MaxCalls
  /\ counts' = [counts EXCEPT !.call = @ + 1]
  /\ loc' = [loc EXCEPT ![cur] = Size[cur]]
  /\ LET hits == {i \in DOMAIN kept : kept[i].whole /\ kept[i].file = cur} IN
     IF hits # {}
     THEN /\ Answer(cur, 0, Size[cur], kept[Min(hits)].data)
          /\ kept' = RemoveAt(kept, Min(hits)) /\ UNCHANGED call
     ELSE /\ kept' = SelectSeq(kept, LAMBDA e : e.file # cur)
          /\ call' = [at |-> "ensure", cur |-> cur, start |-> 0, need |-> Size[cur], all |-> TRUE,
                      wave |-> Wave(cur, LAMBDA f : AllLength(cur, f)),
                      first |-> TRUE, tried |-> FALSE, toks |-> <<>>]
          /\ UNCHANGED truth
  /\ UNCHANGED <<mmap, name, fds, fd, deferred>>
-----------------------------------------------------------------------------
\* The entries the next vector reads: all at first, then the caller's while
\* it is short.
Pending == {i \in DOMAIN call.wave : call.first \/ (call.wave[i].file = call.cur /\ call.wave[i].short)}

\* _pread_many_once: a lost descriptor reopens every reader first.
Ensure ==
  /\ call.at = "ensure"
  /\ call' = [call EXCEPT !.at = IF \A i \in Pending : Live(fd[call.wave[i].file]) THEN "pread" ELSE "reopen"]
  /\ UNCHANGED <<mmap, name, fds, fd, deferred, loc, kept, truth, counts>>

\* _reopen_readers: the session of the first live descriptor is replaced.
Reconnect ==
  /\ call.at = "reopen"
  /\ LET alive == {f \in Files : Live(fd[f])} IN
     fds' = IF alive = {} THEN fds ELSE {d \in fds : d.sess # Desc(fd[Min(alive)]).sess}
  /\ deferred' = {t \in deferred : \E d \in fds' : d.tok = t}
  /\ call' = [call EXCEPT !.at = "open"]
  /\ UNCHANGED <<mmap, name, fd, loc, kept, truth, counts>>

\* open_many of all of them, on sessions the pool chooses.
OpenMany ==
  /\ call.at = "open"
  /\ \/ \E s \in [Files -> Sessions] :
          LET tok(f) == counts.tok + f IN
          /\ fds' = fds \union {[tok |-> tok(f), file |-> f, ino |-> name[f], sess |-> s[f]] : f \in Files}
          /\ call' = [call EXCEPT !.at = "check", !.toks = [f \in 1..Cardinality(Files) |-> tok(f)]]
          /\ counts' = [counts EXCEPT !.tok = @ + Cardinality(Files)]
     \/ Fault /\ Raise /\ UNCHANGED fds
  /\ UNCHANGED <<mmap, name, fd, deferred, loc, kept, truth>>

SameFiles == \A f \in Files : Desc(call.toks[f]).ino = 1

Defer(toks) == deferred \union {t \in toks : Live(t)}

\* The identities are checked before any descriptor is published; otherwise
\* all of them are closed, or left to the pool.
CheckMany ==
  /\ call.at = "check"
  /\ LET toks == {call.toks[f] : f \in Files} IN
     IF \A t \in toks : Live(t)
     THEN IF SameFiles
          THEN /\ fd' = [f \in Files |-> call.toks[f]]
               /\ call' = [call EXCEPT !.at = "pread"]
               /\ UNCHANGED <<fds, deferred, counts>>
          ELSE /\ Raise /\ UNCHANGED fd
               /\ \/ fds' = {d \in fds : d.tok \notin toks} /\ UNCHANGED <<deferred, counts>>
                  \/ Fault /\ deferred' = Defer(toks) /\ UNCHANGED fds
     ELSE /\ Raise /\ fds' = {d \in fds : d.tok \notin toks} /\ UNCHANGED <<fd, deferred, counts>>
  /\ UNCHANGED <<mmap, name, loc, kept, truth>>

\* The vector read.  A lost session is reopened once per vector; each file
\* may be short, and a file may fail alone.
PreadMany ==
  /\ call.at = "pread"
  /\ \/ /\ \A i \in Pending : Live(fd[call.wave[i].file])
        /\ \E bad \in SUBSET Pending :
           /\ IF bad = {} THEN UNCHANGED counts ELSE Fault
           /\ \E n \in [Pending -> 1..MaxSize] :
              LET e(i) == call.wave[i]
                  left(i) == e(i).len - Len(e(i).data)
                  got(i) == LET d == Desc(fd[e(i).file])
                                from == call.start + Len(e(i).data)
                            IN e(i).data \o Slice(e(i).file, d.ino, from, from + n[i])
                  next(i) == IF i \notin Pending THEN e(i)
                             ELSE IF i \in bad THEN [e(i) EXCEPT !.error = TRUE, !.short = FALSE]
                             ELSE [e(i) EXCEPT !.data = got(i), !.short = Len(got(i)) < e(i).len]
              IN /\ \A i \in Pending : n[i] <= left(i) /\ (i \in bad => n[i] = 1)
                 /\ LET wave == [i \in DOMAIN call.wave |-> next(i)]
                        more == \E i \in DOMAIN wave : wave[i].file = call.cur /\ wave[i].short
                    IN call' = [call EXCEPT !.wave = wave, !.first = FALSE, !.tried = FALSE,
                                            !.at = IF more THEN "ensure" ELSE "finish"]
        /\ UNCHANGED <<fds, deferred>>
     \/ /\ IF \A i \in Pending : Live(fd[call.wave[i].file]) THEN Fault ELSE UNCHANGED counts
        /\ call' = IF call.tried THEN Idle ELSE [call EXCEPT !.at = "reopen", !.tried = TRUE]
        /\ UNCHANGED <<fds, deferred>>
  /\ UNCHANGED <<mmap, name, fd, loc, kept, truth>>

\* Only a complete answer of a sibling is kept.
Complete(e) == ~e.error /\ e.file # call.cur /\ Len(e.data) = e.len

\* The caller's data is returned and the siblings' is kept.
Finish ==
  /\ call.at = "finish"
  /\ LET mine == CHOOSE i \in DOMAIN call.wave : call.wave[i].file = call.cur IN
     IF call.wave[mine].error THEN UNCHANGED truth
     ELSE Answer(call.cur, call.start, call.need, call.wave[mine].data)
  /\ kept' = FoldLeft(LAMBDA s, e :
                        IF Complete(e)
                        THEN Keep(s, [whole |-> call.all /\ e.len = Size[e.file], file |-> e.file,
                                      start |-> call.start, data |-> e.data])
                        ELSE s, kept, call.wave)
  /\ Raise
  /\ UNCHANGED <<mmap, name, fds, fd, deferred, loc, counts>>

\* Another client puts another file at the path; another thread's reconnect
\* ends a session.
Replace(f) ==
  /\ Cardinality({g \in Files : name[g] = 2}) < MaxReplaced
  /\ name' = [name EXCEPT ![f] = 2]
  /\ UNCHANGED <<mmap, fds, fd, deferred, loc, kept, call, truth, counts>>
LoseSession(s) ==
  /\ Fault
  /\ fds' = {d \in fds : d.sess # s}
  /\ deferred' = {t \in deferred : \E d \in fds' : d.tok = t}
  /\ UNCHANGED <<mmap, name, fd, loc, kept, call, truth>>

Next ==
  \/ \E cur \in Files, start \in 0..(MaxSize - 1), need, end \in 1..MaxSize : Fetch(cur, start, need, end)
  \/ \E cur \in Files : ReadAll(cur)
  \/ Ensure \/ Reconnect \/ OpenMany \/ CheckMany \/ PreadMany \/ Finish
  \/ (\E f \in Files : Replace(f)) \/ (\E s \in Sessions : LoseSession(s))

Spec == Init /\ [][Next]_vars
-----------------------------------------------------------------------------
\* Every read of a group member returns the bytes of the file it opened, at
\* the offset asked for and at least up to the last byte asked for, whether
\* they were read for it or kept from the miss of a sibling, and although the
\* sessions are lost and the paths taken over meanwhile.
AnswersTrue == truth

\* What the group keeps ahead of the reads stays within the byte budget.
BudgetHeld == Bytes(kept) <= Budget

\* Every descriptor open at the server is held by a reader, by the running
\* reopen or by the pool, which will close it.
DescriptorsOwned ==
  \A d \in fds : d.tok \in deferred \/ (\E f \in Files : fd[f] = d.tok)
                 \/ (call.at = "check" /\ d.tok \in ToSet(call.toks))

-----------------------------------------------------------------------------
(* The buffered writers of an open_files() group (_fs.py, _BufferGroup):     *)
(* writes are staged per file, flushed in vectors over several files, and    *)
(* the group is finished once, closing every descriptor in batches.          *)
(* Atoms 1.. of a file are written in this order; appends land at its end.   *)

CONSTANTS WriteFiles,                        \* 1..n in the order of the group
          ModeChoices,                  \* the modes the files can be opened in: functions to {"w", "a"}
          MaxBytes, MaxAtoms, WriteMaxCalls

VARIABLES mode,
          disk,         \* disk[f]: the file at the server
          open,         \* the files whose descriptor is open at the server
          writeDeferred,     \* those the pool will close
          member,            \* m[f]: the fields of the member
          group,        \* the fields of the group
          writeCall,         \* the running call
          wrote,        \* history: wrote[f] atoms given to write(), since accepted
          told,         \* history: whether a call raised an error
          asked,        \* history: the members close() was called on
          late,         \* history: those written to after finish() had flushed them
          writeCounts        \* [call, fault, unclosed]: calls, faults, failed CLOSEs

hist == <<wrote, told, asked, late>>
writeVars == <<mode, disk, open, writeDeferred, member, group, writeCall, hist, writeCounts>>

WriteIdle == [at |-> "idle"]
WriteFault == writeCounts.fault < MaxFaults /\ writeCounts' = [writeCounts EXCEPT !.fault = @ + 1]
Begin == writeCall = WriteIdle /\ writeCounts.call < WriteMaxCalls /\ writeCounts' = [writeCounts EXCEPT !.call = @ + 1]
Order == [i \in 1..Cardinality(WriteFiles) |-> i]

\* open_many opened every member and _BufferGroup attached them.
WriteInit ==
  /\ mode \in ModeChoices
  /\ disk = [f \in WriteFiles |-> <<>>] /\ open = WriteFiles /\ writeDeferred = {}
  /\ member = [f \in WriteFiles |-> [buffer |-> <<>>, spool |-> <<>>, off |-> 0, failed |-> FALSE, forced |-> FALSE,
                                     closed |-> FALSE, fd |-> TRUE]]
  /\ group = [finalized |-> FALSE, error |-> FALSE, closed |-> FALSE, requested |-> {}]
  /\ writeCall = WriteIdle
  /\ wrote = [f \in WriteFiles |-> 0] /\ told = FALSE /\ asked = {} /\ late = {}
  /\ writeCounts = [call |-> 0, fault |-> 0, unclosed |-> 0]

Limit == LET per == MaxBytes \div Cardinality(WriteFiles) IN IF per < 1 THEN 1 ELSE Least(BlockSize, per)
Staged(r) == [r EXCEPT !.spool = @ \o r.buffer, !.buffer = <<>>]

\* write(): a full buffer is staged.
Write(f) ==
  /\ Begin /\ ~member[f].closed /\ wrote[f] < MaxAtoms
  /\ IF member[f].failed THEN told' = TRUE /\ UNCHANGED <<member, wrote>>
     ELSE /\ LET r == [member[f] EXCEPT !.buffer = Append(@, wrote[f] + 1)]
             IN member' = [member EXCEPT ![f] = IF Len(r.buffer) >= Limit THEN Staged(r) ELSE r]
          /\ wrote' = [wrote EXCEPT ![f] = @ + 1]
          /\ UNCHANGED told
  /\ late' = IF group.finalized THEN late \union {f} ELSE late
  /\ UNCHANGED <<mode, disk, open, writeDeferred, group, writeCall, asked>>

Left(f) == SubSeq(member[f].spool, member[f].off + 1, Len(member[f].spool))
Chunk(f) == SubSeq(Left(f), 1, Least(Len(Left(f)), Least(BlockSize, MaxBytes)))

\* The next vector: one block of each pending file of the same kind.
WriteWave(pending) ==
  FoldLeft(LAMBDA w, f :
             IF f \notin pending \/ Chunk(f) = <<>> THEN w
             ELSE IF w # <<>> /\ ( (mode[f] = "a") # (mode[w[1]] = "a") \/ Len(w) >= BatchSize
                                   \/ FoldLeft(LAMBDA n, g : n + Len(Chunk(g)), 0, w) + Len(Chunk(f)) > MaxBytes)
             THEN w ELSE Append(w, f),
           <<>>, Order)

\* flush_files(files), then the step `after`.
FlushFiles(files, after) ==
  [at |-> "flush", pending |-> {f \in files : ~member'[f].failed /\ member'[f].off < Len(member'[f].spool)}, after |-> after]

\* What a chunk of f looks like at the server; a short one may land first.
Landed(f, n) ==
  LET data == SubSeq(Chunk(f), 1, n)
      pos == member[f].off
  IN IF mode[f] = "a" THEN disk[f] \o data
     ELSE SubSeq(disk[f], 1, Least(Len(disk[f]), pos)) \o data \o SubSeq(disk[f], pos + n + 1, Len(disk[f]))

\* A failed vector: what calls it was made for.
Raised ==
  CASE writeCall.after.op = "finish" -> [at |-> "final", error |-> TRUE]
    [] writeCall.after.op = "exit" -> [at |-> "exitfailed", file |-> writeCall.after.file]
    [] OTHER -> WriteIdle

\* After a failure the whole vector is of unknown outcome.
FailWave(wave, done) == [f \in WriteFiles |-> IF f \in ToSet(wave) THEN [member[f] EXCEPT !.failed = TRUE] ELSE member[f]]

\* One vector of flush_files.  A failure leaves any of its files written, in
\* part or not at all; the members of it are unusable from then on.
FlushWave ==
  /\ writeCall.at = "flush" /\ writeCall.pending # {}
  /\ LET wave == WriteWave(writeCall.pending)
         all(f) == Len(Chunk(f))
     IN \/ /\ disk' = [f \in WriteFiles |-> IF f \in ToSet(wave) THEN Landed(f, all(f)) ELSE disk[f]]
           /\ member' = [f \in WriteFiles |-> IF f \in ToSet(wave) THEN [member[f] EXCEPT !.off = @ + all(f)] ELSE member[f]]
           /\ writeCall' = [writeCall EXCEPT !.pending = {f \in @ : member'[f].off < Len(member'[f].spool)}]
           /\ UNCHANGED <<told, writeCounts>>
        \/ /\ WriteFault /\ told' = (told \/ writeCall.after.op # "finish")
           /\ \E n \in [ToSet(wave) -> 0..BlockSize] :
                /\ \A f \in ToSet(wave) : n[f] <= all(f)
                /\ disk' = [f \in WriteFiles |-> IF f \in ToSet(wave) THEN Landed(f, n[f]) ELSE disk[f]]
                /\ member' = FailWave(wave, {f \in ToSet(wave) : n[f] = all(f)})
           /\ writeCall' = Raised
  /\ UNCHANGED <<mode, open, writeDeferred, group, wrote, asked, late>>

\* flush() of one member.
Flush(f) ==
  /\ Begin /\ ~member[f].closed
  /\ IF member[f].failed THEN told' = TRUE /\ UNCHANGED <<member, writeCall>>
     ELSE /\ member' = [member EXCEPT ![f] = Staged(@)]
          /\ writeCall' = FlushFiles({f}, [op |-> "flush"])
          /\ UNCHANGED told
  /\ UNCHANGED <<mode, disk, open, writeDeferred, group, wrote, asked, late>>

\* close() of one member, or the exit of its context (exit = TRUE), which
\* leaves descriptors it could not close to the pool.
CloseFile(f, exit) ==
  /\ Begin
  /\ LET op == IF exit THEN "exit" ELSE "close" IN
     IF member[f].closed THEN writeCall' = [at |-> "request", file |-> f, op |-> op] /\ UNCHANGED <<member, told>>
     ELSE IF member[f].failed
     THEN /\ told' = TRUE /\ UNCHANGED member
          /\ writeCall' = IF exit THEN [at |-> "exitfailed", file |-> f] ELSE WriteIdle
     ELSE IF member[f].forced THEN writeCall' = [at |-> "request", file |-> f, op |-> op] /\ UNCHANGED <<member, told>>
     ELSE /\ member' = [member EXCEPT ![f] = [Staged(@) EXCEPT !.forced = TRUE]]
          /\ writeCall' = FlushFiles({f}, [op |-> op, file |-> f])
          /\ UNCHANGED told
  /\ asked' = asked \union {f}
  /\ UNCHANGED <<mode, disk, open, writeDeferred, group, wrote, late>>

\* The flush is complete.
FlushDone ==
  /\ writeCall.at = "flush" /\ writeCall.pending = {}
  /\ writeCall' = CASE writeCall.after.op = "flush" -> WriteIdle
               [] writeCall.after.op = "finish" -> [at |-> "final", error |-> FALSE]
               [] OTHER -> [at |-> "request", file |-> writeCall.after.file, op |-> writeCall.after.op]
  /\ UNCHANGED <<mode, disk, open, writeDeferred, member, group, hist, writeCounts>>

Batches == {f \in WriteFiles : member[f].fd /\ f \in open}

\* request_close: the last member to close closes the group.
RequestClose ==
  /\ writeCall.at = "request"
  /\ IF group.closed THEN writeCall' = WriteIdle /\ UNCHANGED <<member, group>>
     ELSE LET requested == group.requested \union {writeCall.file} IN
          /\ group' = [group EXCEPT !.requested = requested]
          /\ IF requested # WriteFiles
             THEN writeCall' = WriteIdle /\ member' = [member EXCEPT ![writeCall.file].closed = TRUE]
             ELSE writeCall' = [at |-> "closeall", left |-> Batches, error |-> FALSE, op |-> writeCall.op, file |-> writeCall.file]
                  /\ UNCHANGED member
  /\ UNCHANGED <<mode, disk, open, writeDeferred, hist, writeCounts>>

\* The exit of a member whose close failed: a request all the same.
ExitFailed ==
  /\ writeCall.at = "exitfailed"
  /\ LET requested == group.requested \union {writeCall.file} IN
     /\ group' = [group EXCEPT !.requested = requested]
     /\ writeDeferred' = writeDeferred \union (IF requested = WriteFiles THEN {f \in WriteFiles : member[f].fd /\ f \in open}
                                               ELSE {writeCall.file} \intersect open)
  /\ writeCall' = WriteIdle
  /\ UNCHANGED <<mode, disk, open, member, hist, writeCounts>>
-----------------------------------------------------------------------------
\* finish(): every member is staged and flushed, once; a member that failed
\* before stops this.
WriteFinish ==
  /\ Begin
  /\ IF group.finalized THEN writeCall' = [at |-> "closeall", left |-> Batches, error |-> FALSE, op |-> "finish", file |-> 1]
          /\ UNCHANGED member
     ELSE LET buffered == {f \in WriteFiles : ~member[f].closed}
              bad == {f \in buffered : member[f].failed}
          IN IF bad # {}
             THEN /\ member' = [f \in WriteFiles |-> IF f \in buffered /\ f < Min(bad) THEN Staged(member[f]) ELSE member[f]]
                  /\ writeCall' = [at |-> "final", error |-> TRUE]
             ELSE /\ member' = [f \in WriteFiles |-> IF f \in buffered THEN Staged(member[f]) ELSE member[f]]
                  /\ writeCall' = FlushFiles(buffered, [op |-> "finish"])
  /\ UNCHANGED <<mode, disk, open, writeDeferred, group, hist>>

KeepError == group.error \/ writeCall.error

Finalized ==
  /\ writeCall.at = "final"
  /\ group' = [group EXCEPT !.finalized = TRUE, !.error = KeepError]
  /\ writeCall' = [at |-> "closeall", left |-> Batches, error |-> FALSE, op |-> "finish", file |-> 1]
  /\ UNCHANGED <<mode, disk, open, writeDeferred, member, hist, writeCounts>>

FirstBatch == LET s == SelectSeq(Order, LAMBDA f : f \in writeCall.left) IN SubSeq(s, 1, Least(Len(s), BatchSize))
Finished(r) == [r EXCEPT !.fd = FALSE, !.closed = TRUE]

\* The members of a batch whose CLOSE is known to be done.
DoneOf(batch, n) == {batch[i] : i \in 1..n}

\* One close_many of close_all; the completed prefix of a failed one is
\* finished, the rest stays open and owned.
CloseBatch ==
  /\ writeCall.at = "closeall" /\ writeCall.left # {}
  /\ LET batch == FirstBatch IN
     \/ /\ open' = open \ ToSet(batch)
        /\ member' = [f \in WriteFiles |-> IF f \in ToSet(batch) THEN Finished(member[f]) ELSE member[f]]
        /\ writeCall' = [writeCall EXCEPT !.left = @ \ ToSet(batch)]
        /\ UNCHANGED writeCounts
     \/ /\ writeCounts.fault < MaxFaults
        /\ writeCounts' = [writeCounts EXCEPT !.fault = @ + 1, !.unclosed = @ + 1]
        /\ \E n \in 0..(Len(batch) - 1) :
             /\ open' = open \ {batch[i] : i \in 1..n}
             /\ member' = [f \in WriteFiles |-> IF f \in DoneOf(batch, n) THEN Finished(member[f]) ELSE member[f]]
        /\ writeCall' = [writeCall EXCEPT !.left = @ \ ToSet(batch), !.error = TRUE]
  /\ writeDeferred' = writeDeferred \intersect open'
  /\ UNCHANGED <<mode, disk, group, hist>>

\* What finish() raises.
Reports == writeCall.error \/ (writeCall.op = "finish" /\ group.error)

\* The end of close_all: all members finished, or the error raised.
CloseAllDone ==
  /\ writeCall.at = "closeall" /\ writeCall.left = {}
  /\ IF writeCall.error
     THEN writeCall' = (IF writeCall.op = "exit" THEN [at |-> "exitfailed", file |-> writeCall.file] ELSE WriteIdle)
          /\ UNCHANGED <<member, group>>
     ELSE /\ member' = [f \in WriteFiles |-> Finished(member[f])]
          /\ group' = [group EXCEPT !.closed = TRUE]
          /\ writeCall' = WriteIdle
  /\ told' = (told \/ Reports)
  /\ UNCHANGED <<mode, disk, open, writeDeferred, wrote, asked, late, writeCounts>>

WriteNext ==
  \/ \E f \in WriteFiles : Write(f) \/ Flush(f) \/ (\E exit \in BOOLEAN : CloseFile(f, exit))
  \/ FlushWave \/ FlushDone \/ RequestClose \/ ExitFailed
  \/ WriteFinish \/ Finalized \/ CloseBatch \/ CloseAllDone

WriteSpec == WriteInit /\ [][WriteNext]_writeVars
-----------------------------------------------------------------------------
All(f) == [k \in 1..wrote[f] |-> k]

\* Whatever fails, a file holds a beginning of what was written to it, in
\* order and once: no chunk of unknown outcome is sent again, by a flush, a
\* close or the end of the group, and the vectors of different files and
\* modes do not mix their data.
NeverReplayed == \A f \in WriteFiles : Len(disk[f]) <= wrote[f] /\ disk[f] = SubSeq(All(f), 1, Len(disk[f]))

\* When the group is closed and a byte of it did not reach its file, the
\* finish() that closed it raised, or an earlier call on a member did.
LossReported ==
  (group.closed /\ writeCall = WriteIdle /\ \E f \in WriteFiles \ late : disk[f] # All(f)) => told

\* A descriptor is open only while a member that can still be closed holds
\* it, or the pool does, and none is left once the group is closed.
WriteDescriptorsOwned ==
  /\ \A f \in open : member[f].fd \/ f \in writeDeferred
  /\ group.closed => open \subseteq writeDeferred

=============================================================================
