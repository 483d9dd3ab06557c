------------------------------- MODULE LocalIo ------------------------------
(***************************************************************************)
(* The io_uring executor: crates/vfsi-uring/src/engine.rs.                 *)
(*                                                                         *)
(* A call hands the engine jobs of one kind.  execute plans bounded waves  *)
(* of them, wave publishes a wave to the kernel, waits until every entry   *)
(* has completed and applies the counts; short writes continue with their  *)
(* suffix, short reads end.  An error ends the call after the wave.  When  *)
(* the wait itself fails the ring is poisoned and what the kernel may      *)
(* still touch is kept for ever.  With cached_reads small reads are first  *)
(* tried without waiting.                                                  *)
(*                                                                         *)
(* The kernel (external) completes entries in any order, with short counts *)
(* and errors.  Offsets do not overflow: the callers check them.           *)
(***************************************************************************)
EXTENDS FileBytes, FiniteSetsExt

CONSTANTS
  Fds,        \* open descriptors (Arc<File>)
  Inodes,     \* the files behind them
  InodeOf,    \* Fds -> Inodes
  Depth,      \* queue_depth
  MaxBatch,   \* max_batch_bytes
  CachedMax,  \* 64 KiB in the code: the longest read tried in the page cache
  Warm        \* 15 in the code: reads served after a hit before probing again

VARIABLES
  opts,       \* configuration: subset of {"cached_reads", "syscall_writes"}
  ring,       \* "up" or "poisoned"
  nowait,     \* nowait_supported
  calls,      \* calls made
  jobs,       \* jobs of the call: [kind, fd, off, len, owned]
  epc,        \* "idle", "probe", "plan", "submit", "wait", "apply", "syscall", "return"
  next,       \* the job the probing, planning or syscall loop looks at
  progress,   \* bytes acknowledged, per job
  done,       \* jobs not planned again
  errors,     \* jobs with an error
  probe,      \* [on, left]: still probing, warm_left
  pending,    \* the wave: [job, kind, fd, off, start, count, owned]
  results,    \* CQE results by first member of a group, Waiting before
  scratch,    \* the arena; once poisoned, what was forgotten of it
  buf,        \* destinations of reads, per job
  held,       \* memory only the engine and the kernel touch
  disk,       \* contents, per inode
  landed,     \* history: the bytes of writes the kernel transferred
  replayed    \* history: a byte was transferred twice

loop == <<next, progress, done, errors>>
wave == <<pending, results, held>>
kernel == <<disk, landed, replayed>>
engine == <<opts, ring, nowait, calls, jobs, epc, loop, probe, wave, scratch, buf, kernel>>

Waiting == -2
Failed == -1
Jobs == DOMAIN jobs
Id(j) == 10 * calls + j        \* names the data of job j

EngineInit ==
  /\ opts \in SUBSET {"cached_reads", "syscall_writes"}
  /\ ring = "up" /\ nowait = TRUE /\ calls = 0 /\ jobs = <<>> /\ epc = "idle"
  /\ next = 1 /\ progress = <<>> /\ done = {} /\ errors = {} /\ probe = [on |-> FALSE, left |-> 0]
  /\ pending = <<>> /\ results = <<>> /\ held = {} /\ scratch = <<>> /\ buf = <<>>
  /\ disk = [i \in Inodes |-> [k \in 1..3 |-> <<0, k>>]]
  /\ landed = {} /\ replayed = FALSE

-----------------------------------------------------------------------------
(* The calls: read, write, sync and read_owned.                            *)

\* read tries the page cache when the first read is small; write uses plain
\* syscalls when asked to; both only while the ring is up.
FirstStage(js) ==
  IF ring = "poisoned" THEN "return"
  ELSE IF js = <<>> THEN "return"
  ELSE IF js[1].kind = "read" /\ "cached_reads" \in opts /\ nowait /\ js[1].len <= CachedMax /\ ~js[1].owned
       THEN "probe"
  ELSE IF js[1].kind = "write" /\ "syscall_writes" \in opts THEN "syscall"
  ELSE "plan"

\* read_owned uses the final buffers only for a working set that fits a wave.
UseOwned(lens) ==
  /\ ~("cached_reads" \in opts /\ nowait)
  /\ MapThenSumSet(LAMBDA j : lens[j], DOMAIN lens) <= MaxBatch

Start(js) ==
  /\ epc = "idle"
  /\ jobs' = js /\ calls' = calls + 1
  /\ epc' = FirstStage(js)
  /\ next' = 1 /\ progress' = [j \in DOMAIN js |-> 0] /\ done' = {}
  /\ errors' = IF ring = "poisoned" THEN DOMAIN js ELSE {}
  /\ probe' = [on |-> TRUE, left |-> 0]
  /\ buf' = [j \in DOMAIN js |-> [k \in 1..(IF js[j].kind = "read" THEN js[j].len ELSE 0) |-> Hole]]
  /\ UNCHANGED <<opts, ring, nowait, wave, scratch, kernel>>

-----------------------------------------------------------------------------
(* read with cached_reads: one job per step.                               *)

Available(fd, off, count) == Len(Slice(disk[InodeOf[fd]], off, count))
Fill(j, from, bytes) == [buf EXCEPT ![j] = PutBytes(@, from, bytes)]

\* Partial and empty answers are confirmed through the ring.
Confirmed(n, len) == n < len

\* A probe (preadv2 with RWF_NOWAIT) may return fewer bytes than there are.
\* After two hits in a row plain reads are made, which end only at the end.
Probe ==
  /\ epc = "probe" /\ next \in Jobs
  /\ LET j    == next
         op   == jobs[j]
         try  == probe.on /\ op.len <= CachedMax
         asks == probe.left \in {0, Warm}
         most == Available(op.fd, op.off, op.len)
     IN  IF op.len = 0
         THEN next' = j + 1 /\ done' = done \cup {j} /\ UNCHANGED <<progress, errors, probe, nowait, buf, epc>>
         ELSE \/ /\ try
                 /\ \E n \in (IF asks THEN 0 ELSE most)..most :
                      /\ progress' = [progress EXCEPT ![j] = n]
                      /\ buf' = Fill(j, 0, Slice(disk[InodeOf[op.fd]], op.off, n))
                      /\ IF Confirmed(n, op.len)
                         THEN probe' = [probe EXCEPT !.on = FALSE] /\ UNCHANGED done
                         ELSE /\ probe' = [probe EXCEPT !.left = IF @ = 0 THEN Warm ELSE @ - 1]
                              /\ done' = done \cup {j}
                 /\ next' = j + 1 /\ UNCHANGED <<errors, nowait, epc>>
              \/ /\ try => asks          \* EAGAIN, or not tried
                 /\ probe' = [probe EXCEPT !.on = FALSE]
                 /\ next' = j + 1 /\ UNCHANGED <<progress, done, errors, nowait, buf, epc>>
              \/ /\ try /\ asks          \* EOPNOTSUPP, ENOSYS
                 /\ nowait' = FALSE /\ probe' = [probe EXCEPT !.on = FALSE]
                 /\ next' = j + 1 /\ UNCHANGED <<progress, done, errors, buf, epc>>
              \/ /\ try                  \* any other error: nothing more is read
                 /\ errors' = {j} /\ epc' = "return"
                 /\ UNCHANGED <<next, progress, done, probe, nowait, buf>>
  /\ UNCHANGED <<opts, ring, calls, jobs, wave, scratch, kernel>>

\* The rest, from where the cache left it, goes through the ring.
ProbeEnds ==
  /\ epc = "probe" /\ next > Len(jobs)
  /\ epc' = "plan" /\ next' = 1
  /\ UNCHANGED <<opts, ring, nowait, calls, jobs, progress, done, errors, probe, wave, scratch, buf, kernel>>

-----------------------------------------------------------------------------
(* write with syscall_writes: write_ordered, one write_all_at per step.    *)

Transfer(S) == landed' = landed \cup S /\ replayed' = (replayed \/ S \cap landed # {})
DataOf(j, from, n) == [k \in 1..n |-> <<Id(j), from + k - 1>>]

Syscall ==
  /\ epc = "syscall" /\ next \in Jobs
  /\ LET j == next
     IN  \E n \in 0..jobs[j].len :
           /\ disk' = [disk EXCEPT ![InodeOf[jobs[j].fd]] = PutBytes(@, jobs[j].off, DataOf(j, 0, n))]
           /\ Transfer({<<Id(j), k>> : k \in 0..(n - 1)})
           /\ \/ n = jobs[j].len /\ progress' = [progress EXCEPT ![j] = n] /\ next' = j + 1
                 /\ epc' = (IF j = Len(jobs) THEN "return" ELSE epc) /\ UNCHANGED errors
              \/ n < jobs[j].len /\ errors' = {j} /\ epc' = "return" /\ UNCHANGED <<progress, next>>
  /\ UNCHANGED <<opts, ring, nowait, calls, jobs, done, probe, wave, scratch, buf>>

-----------------------------------------------------------------------------
(* execute: planning a wave, one job per step.                             *)

Used == IF pending = <<>> THEN 0 ELSE pending[Len(pending)].start + pending[Len(pending)].count
Transferred(j) == jobs[j].kind # "sync" /\ progress[j] = jobs[j].len
Piece(j) ==
  [job |-> j, kind |-> jobs[j].kind, fd |-> jobs[j].fd, off |-> jobs[j].off + progress[j],
   start |-> Used, count |-> Min({jobs[j].len - progress[j], MaxBatch - Used}), owned |-> jobs[j].owned]

Plan ==
  /\ epc = "plan" /\ next \in Jobs
  /\ LET j == next
     IN  IF j \in done
         THEN next' = j + 1 /\ UNCHANGED <<done, pending, epc>>
         ELSE IF Len(pending) = Depth
         THEN epc' = "submit" /\ UNCHANGED <<next, done, pending>>
         ELSE IF Transferred(j)
         THEN done' = done \cup {j} /\ next' = j + 1 /\ UNCHANGED <<pending, epc>>
         ELSE IF Used = MaxBatch /\ jobs[j].len # 0
         THEN epc' = "submit" /\ UNCHANGED <<next, done, pending>>
         ELSE pending' = Append(pending, Piece(j)) /\ next' = j + 1 /\ UNCHANGED <<done, epc>>
  /\ UNCHANGED <<opts, ring, nowait, calls, jobs, progress, errors, probe, results, held, scratch, buf, kernel>>

PlanEnds ==
  /\ epc = "plan" /\ next > Len(jobs)
  /\ epc' = IF pending = <<>> THEN "return" ELSE "submit"
  /\ UNCHANGED <<opts, ring, nowait, calls, jobs, loop, probe, wave, scratch, buf, kernel>>

-----------------------------------------------------------------------------
(* wave: publish, wait, apply.                                             *)

\* Adjacent writes through one descriptor share an entry.
Joins(i) ==
  /\ i > 1 /\ pending[i - 1].kind = "write" /\ pending[i].kind = "write"
  /\ pending[i - 1].fd = pending[i].fd
  /\ pending[i].off = pending[i - 1].off + pending[i - 1].count
Heads == {i \in DOMAIN pending : ~Joins(i)}
HeadOf(i) == Max({h \in Heads : h <= i})
Length(h) == MapThenSumSet(LAMBDA i : pending[i].count, {i \in DOMAIN pending : HeadOf(i) = h})

Memory(i) == IF pending[i].kind = "sync" THEN {} ELSE IF pending[i].owned THEN {pending[i].job} ELSE {0}

\* The arena grows to the end of the last borrowed piece and takes the data.
Arena ==
  LET ends == {pending[i].start + pending[i].count : i \in {k \in DOMAIN pending : ~pending[k].owned}}
  IN  [b \in 1..Max({Len(scratch)} \cup ends) |->
         LET at == {i \in DOMAIN pending : /\ pending[i].kind = "write"
                                           /\ pending[i].start < b /\ b <= pending[i].start + pending[i].count}
         IN  IF at = {} THEN IF b <= Len(scratch) THEN scratch[b] ELSE Hole
             ELSE LET i == Max(at)
                  IN  <<Id(pending[i].job), progress[pending[i].job] + b - pending[i].start - 1>>]

Submit ==
  /\ epc = "submit"
  /\ scratch' = Arena
  /\ results' = [h \in Heads |-> Waiting]
  /\ held' = UNION {Memory(i) : i \in DOMAIN pending}
  /\ epc' = "wait"
  /\ UNCHANGED <<opts, ring, nowait, calls, jobs, loop, probe, pending, buf, kernel>>

InFlight == {h \in DOMAIN results : results[h] = Waiting}

\* What the loop over the completion queue records.
Checked(kind, n) == IF kind = "write" /\ n = 0 THEN Failed ELSE n

\* The kernel executes entry h: also after the engine gave up waiting, when
\* what it reads or writes is memory nobody else uses.
Complete(h) ==
  /\ h \in InFlight
  /\ LET op == pending[h]
     IN  \/ /\ op.kind = "write"
            /\ \E n \in 0..Length(h) :
                 LET bytes == SubSeq(scratch, op.start + 1, op.start + n)
                 IN  /\ disk' = [disk EXCEPT ![InodeOf[op.fd]] = PutBytes(@, op.off, bytes)]
                     /\ Transfer({bytes[k] : k \in DOMAIN bytes})
                     /\ results' = [results EXCEPT ![h] = Checked(op.kind, n)]
            /\ UNCHANGED <<scratch, buf>>
         \/ /\ op.kind = "read"
            /\ LET most == Available(op.fd, op.off, op.count)
               IN  \E n \in Min({1, most})..most :
                     LET bytes == Slice(disk[InodeOf[op.fd]], op.off, n)
                     IN  /\ IF op.owned /\ ring = "poisoned" THEN UNCHANGED <<scratch, buf>>
                            ELSE IF op.owned
                            THEN buf' = Fill(op.job, progress[op.job], bytes) /\ UNCHANGED scratch
                            ELSE scratch' = PutBytes(scratch, op.start, bytes) /\ UNCHANGED buf
                         /\ results' = [results EXCEPT ![h] = n]
            /\ UNCHANGED kernel
         \/ /\ op.kind = "sync" /\ results' = [results EXCEPT ![h] = 0]
            /\ UNCHANGED <<scratch, buf, kernel>>
         \/ /\ results' = [results EXCEPT ![h] = Failed]
            /\ UNCHANGED <<scratch, buf, kernel>>
  /\ UNCHANGED <<opts, ring, nowait, calls, jobs, epc, loop, probe, pending, held>>

\* Mutant: the resources of a wave that could not be drained are dropped.
KeptNothing == {}

\* mem::forget of the wave and of the arena.
Kept == held

\* submit_and_wait fails: every job that is not done gets the error.
Poison ==
  /\ epc = "wait"
  /\ ring' = "poisoned" /\ held' = Kept
  /\ errors' = errors \cup (Jobs \ done) /\ done' = Jobs
  /\ epc' = "return"
  /\ UNCHANGED <<opts, nowait, calls, jobs, next, progress, probe, pending, results, scratch, buf, kernel>>

\* The count of a group is shared out from its first member on.
MemberCount(i) ==
  IF results[HeadOf(i)] = Failed THEN Failed
  ELSE Max({0, Min({results[HeadOf(i)] - (pending[i].start - pending[HeadOf(i)].start), pending[i].count})})

Advanced(j, n) == progress[j] + n

\* first_pending: a wave is planned from the first job that is not done.
Rescan == 1

\* The results of a drained wave.
Apply ==
  /\ epc = "wait" /\ InFlight = {}
  /\ LET bad    == {pending[i].job : i \in {k \in DOMAIN pending : MemberCount(k) = Failed}}
         good   == {i \in DOMAIN pending : MemberCount(i) # Failed}
         of(j)  == CHOOSE i \in good : pending[i].job = j
         sent   == {pending[i].job : i \in good}
         ends(i) == CASE pending[i].kind = "write" -> FALSE
                      [] pending[i].kind = "sync" -> TRUE
                      [] OTHER -> \/ MemberCount(i) < pending[i].count
                                  \/ progress[pending[i].job] + MemberCount(i) = jobs[pending[i].job].len
     IN  /\ buf' = [j \in Jobs |->
                      IF j \in sent /\ jobs[j].kind = "read" /\ ~jobs[j].owned
                      THEN PutBytes(buf[j], progress[j], SubSeq(scratch, pending[of(j)].start + 1,
                                                              pending[of(j)].start + MemberCount(of(j))))
                      ELSE buf[j]]
         /\ progress' = [j \in Jobs |-> IF j \in sent THEN Advanced(j, MemberCount(of(j))) ELSE progress[j]]
         /\ done' = done \cup bad \cup {pending[i].job : i \in {k \in good : ends(k)}}
         /\ errors' = errors \cup bad
         /\ epc' = IF errors' # {} THEN "return" ELSE "plan"
  /\ next' = Rescan /\ pending' = <<>> /\ results' = <<>> /\ held' = {}
  /\ UNCHANGED <<opts, ring, nowait, calls, jobs, probe, scratch, kernel>>

EngineStep ==
  Probe \/ ProbeEnds \/ Syscall \/ Plan \/ PlanEnds \/ Submit \/ Poison \/ Apply
KernelStep == \E h \in InFlight : Complete(h)

-----------------------------------------------------------------------------
(* Properties of the executor.                                             *)

\* No byte of a write is handed to the file twice, whatever is short, fails
\* or is retried: suffixes continue, failures are never replayed.
NeverReplayed == ~replayed

\* The count returned for a write that did not fail is exactly the prefix of
\* its data that reached the file, also when a merged transfer was short and
\* when the call ended early because another job failed.
CountsLanded ==
  epc = "return" => \A j \in Jobs \ errors :
    jobs[j].kind = "write" => {b \in landed : b[1] = Id(j)} = {<<Id(j), k>> : k \in 0..(progress[j] - 1)}

\* A write all of whose bytes were acknowledged is never reported as failed,
\* also when the ring breaks in a later wave.
CompleteNotFailed ==
  epc = "return" => \A j \in errors : jobs[j].len > 0 => progress[j] < jobs[j].len

\* Whatever the kernel may still read or write belongs to the engine or was
\* forgotten, never to the caller or the allocator.
KernelOwnsMemory == \A h \in InFlight : Memory(h) \subseteq held

-----------------------------------------------------------------------------
(***************************************************************************)
(* Descriptor I/O of the local backend over an executor:                   *)
(* vread_impl, vread_into_impl, vwrite_impl and vfsync_impl of             *)
(* crates/vfsi-local/src/lib.rs composed with UringEngine.                 *)
(*                                                                         *)
(* Vectors of independent requests go to the executor in one call; vectors *)
(* whose order matters are executed request by request.  A request is      *)
(* [fd, kind, off, len], kind "at", "cur" or "end".                        *)
(***************************************************************************)

CONSTANTS
  AppendFds,  \* descriptors opened with O_APPEND
  Vectors,    \* calls [op, v]; op "vread", "vread_into", "vwrite" or "vfsync"
  MaxCalls,   \* bound: calls of a behaviour
  OffMax      \* the largest offset (u64::MAX)

VARIABLES
  lpc,        \* "idle", "serial" or "engine"
  call,       \* the call
  cur,        \* cur_offset, per descriptor
  offsets,    \* resolved offsets
  at,         \* next request of the serial loop
  got,        \* what was delivered, per request
  out,        \* outcome: Running, Ok, or the index that failed
  before      \* history: disk and cursors when the call started

local == <<lpc, call, cur, offsets, at, got, out, before>>
vars == <<engine, local>>

Idle == [op |-> "vread", v |-> <<>>]
Running == -1
Ok == 0

Init ==
  /\ EngineInit
  /\ lpc = "idle" /\ call = Idle /\ cur = [d \in Fds |-> 1] /\ offsets = <<>> /\ at = 1 /\ got = <<>>
  /\ out = Ok /\ before = [disk |-> disk, cur |-> cur]

SizeOf(d) == Len(disk[InodeOf[d]])

\* resolve_offset
Offset(r) == CASE r.kind = "at" -> r.off [] r.kind = "cur" -> cur[r.fd] [] OTHER -> SizeOf(r.fd)
Overflows(r) == Offset(r) + r.len > OffMax

\* independent_reads: no cursor is used twice.
IndependentReads(v) ==
  \A i, j \in DOMAIN v : i # j /\ v[i].kind = "cur" /\ v[j].kind = "cur" => v[i].fd # v[j].fd

\* writes_overlap: non-empty ranges sorted by object and start; neighbours
\* are compared.
WritesOverlap(v) ==
  LET full == {i \in DOMAIN v : v[i].len > 0}
      key(i) == <<v[i].off, v[i].off + v[i].len, i>>
      less(i, j) == \/ key(i)[1] < key(j)[1]
                    \/ key(i)[1] = key(j)[1] /\ (key(i)[2] < key(j)[2] \/ (key(i)[2] = key(j)[2] /\ i < j))
      same(i) == {j \in full : InodeOf[v[j].fd] = InodeOf[v[i].fd]}
  IN  \E i, j \in full : /\ j \in same(i) /\ less(i, j)
                         /\ ~\E k \in same(i) : less(i, k) /\ less(k, j)
                         /\ v[j].off < v[i].off + v[i].len

\* The first request that ends the scan of vwrite_impl, 0 when none does.
Scanned(v) ==
  LET ends == {i \in DOMAIN v : v[i].fd \in AppendFds \/ Overflows(v[i])} IN IF ends = {} THEN 0 ELSE Min(ends)

Independent(c) ==
  CASE c.op = "vwrite" -> /\ \A i \in DOMAIN c.v : c.v[i].kind = "at"
                          /\ Scanned(c.v) = 0
                          /\ "syscall_writes" \in opts \/ ~WritesOverlap(c.v)
    [] c.op = "vfsync" -> TRUE
    [] OTHER           -> IndependentReads(c.v)

\* The check of a request fails before anything is executed.
Preflight(c) ==
  CASE c.op = "vwrite" -> IF /\ \A i \in DOMAIN c.v : c.v[i].kind = "at"
                             /\ Scanned(c.v) # 0 /\ c.v[Scanned(c.v)].fd \notin AppendFds
                          THEN {Scanned(c.v)} ELSE {}
    [] c.op = "vfsync" -> {}
    [] OTHER           -> IF IndependentReads(c.v) THEN {i \in DOMAIN c.v : Overflows(c.v[i])} ELSE {}

KindOf(c) == CASE c.op = "vwrite" -> "write" [] c.op = "vfsync" -> "sync" [] OTHER -> "read"

\* The jobs of the executor; vread hands its result buffers over when they
\* fit the window.
JobsOf(c) ==
  [i \in DOMAIN c.v |->
     [kind |-> KindOf(c), fd |-> c.v[i].fd, off |-> Offset(c.v[i]), len |-> c.v[i].len,
      owned |-> c.op = "vread" /\ UseOwned([k \in DOMAIN c.v |-> c.v[k].len])]]

Call(c) ==
  /\ lpc = "idle" /\ calls < MaxCalls
  /\ call' = c /\ at' = 1 /\ got' = [i \in DOMAIN c.v |-> <<>>]
  /\ before' = [disk |-> disk, cur |-> cur]
  /\ offsets' = [i \in DOMAIN c.v |-> Offset(c.v[i])]
  /\ IF Preflight(c) # {}
     THEN /\ out' = Min(Preflight(c)) /\ calls' = calls + 1
          /\ UNCHANGED <<lpc, opts, ring, nowait, jobs, epc, loop, probe, wave, scratch, buf, kernel>>
     ELSE /\ out' = Running
          /\ IF Independent(c)
             THEN lpc' = "engine" /\ Start(JobsOf(c))
             ELSE /\ lpc' = "serial" /\ calls' = calls + 1
                  /\ UNCHANGED <<opts, ring, nowait, jobs, epc, loop, probe, wave, scratch, buf, kernel>>
  /\ UNCHANGED cur

-----------------------------------------------------------------------------
(* readv_one_into and writev_one, in order.                                *)

SerialFails(i) ==
  /\ out' = i /\ lpc' = "idle" /\ UNCHANGED <<cur, offsets, at, got>>

SerialEnds(i) ==
  /\ at' = i + 1
  /\ IF i = Len(call.v) THEN out' = Ok /\ lpc' = "idle" ELSE UNCHANGED <<out, lpc>>

\* A descriptor opened for appending writes at the end.
SerialOffset(r) == IF KindOf(call) = "write" /\ r.fd \in AppendFds THEN SizeOf(r.fd) ELSE Offset(r)

Serial ==
  /\ lpc = "serial"
  /\ LET i   == at
         r   == call.v[i]
         off == SerialOffset(r)
     IN  IF off + r.len > OffMax
         THEN SerialFails(i) /\ UNCHANGED kernel
         ELSE IF KindOf(call) = "read"
         THEN /\ UNCHANGED kernel
              /\ \/ SerialFails(i)
                 \/ /\ offsets' = [offsets EXCEPT ![i] = off]
                    /\ got' = [got EXCEPT ![i] = Slice(disk[InodeOf[r.fd]], off, r.len)]
                    /\ cur' = [cur EXCEPT ![r.fd] = IF r.kind = "cur" THEN off + Len(got'[i]) ELSE @]
                    /\ SerialEnds(i)
         ELSE \E n \in 0..r.len :
                /\ disk' = [disk EXCEPT ![InodeOf[r.fd]] = PutBytes(@, off, DataOf(i, 0, n))]
                /\ Transfer({<<Id(i), k>> : k \in 0..(n - 1)})
                /\ \/ n < r.len /\ SerialFails(i)
                   \/ /\ n = r.len
                      /\ offsets' = [offsets EXCEPT ![i] = off]
                      /\ cur' = [cur EXCEPT ![r.fd] = IF r.kind = "at" THEN @ ELSE off + n]
                      /\ SerialEnds(i) /\ UNCHANGED got
  /\ UNCHANGED <<call, before, opts, ring, nowait, calls, jobs, epc, loop, probe, wave, scratch, buf>>

-----------------------------------------------------------------------------
(* The results of the executor.                                            *)

Delivered(j) == progress[j]

\* Cursors follow what was delivered; the first failure is reported.
Finish ==
  /\ lpc = "engine" /\ epc = "return"
  /\ got' = [j \in Jobs |-> IF j \in errors \/ KindOf(call) # "read" THEN <<>> ELSE SubSeq(buf[j], 1, progress[j])]
  /\ cur' = [d \in Fds |->
               LET moved == {j \in Jobs \ errors : /\ KindOf(call) = "read"
                                                   /\ call.v[j].fd = d /\ call.v[j].kind = "cur"}
               IN  IF moved = {} THEN cur[d] ELSE offsets[Max(moved)] + Delivered(Max(moved))]
  /\ out' = IF errors = {} THEN Ok ELSE Min(errors)
  /\ lpc' = "idle" /\ epc' = "idle"
  /\ UNCHANGED <<call, offsets, at, before>>
  /\ UNCHANGED <<opts, ring, nowait, calls, jobs, loop, probe, wave, scratch, buf, kernel>>

Executor == (EngineStep \/ KernelStep) /\ UNCHANGED local
Ended == lpc = "idle" /\ calls = MaxCalls /\ UNCHANGED vars

Next == (\E c \in Vectors : Call(c)) \/ Serial \/ Executor \/ Finish \/ Ended

\* The callers' code is sequential and the kernel completes what it was given.
Spec ==
  /\ Init /\ [][Next]_vars
  /\ WF_vars(Serial \/ (EngineStep /\ UNCHANGED local) \/ Finish)
  /\ WF_vars(KernelStep /\ UNCHANGED local)

-----------------------------------------------------------------------------
(* Properties.                                                             *)

\* Reference: the writes of the call, one after the other.
Sequential ==
  LET v == call.v
      run[k \in 0..Len(v)] ==
        IF k = 0 THEN [disk |-> before.disk, cur |-> before.cur]
        ELSE LET s    == run[k - 1]
                 r    == v[k]
                 size == Len(s.disk[InodeOf[r.fd]])
                 off  == IF r.fd \in AppendFds \/ r.kind = "end" THEN size
                         ELSE IF r.kind = "cur" THEN s.cur[r.fd] ELSE r.off
             IN  [disk |-> [s.disk EXCEPT ![InodeOf[r.fd]] = PutBytes(@, off, DataOf(k, 0, r.len))],
                  cur  |-> IF r.kind = "at" THEN s.cur ELSE [s.cur EXCEPT ![r.fd] = off + r.len]]
  IN  run[Len(v)]

\* A vwrite that succeeds wrote everything, as if in input order: requests
\* run concurrently only when they do not overlap in any alias of a file, and
\* short transfers were completed.  (After the ring broke, a write reported as
\* failed may still land at any time.)
SequentialWrites ==
  ring = "up" /\ lpc = "idle" /\ out = Ok /\ call.op = "vwrite" => Sequential = [disk |-> disk, cur |-> cur]

\* A vread that succeeds delivered bytes of the file at the offset it
\* reports, none only at the end of the file, also when the page cache
\* answered in part; requests on one cursor follow each other.
TruthfulReads ==
  ring = "up" /\ lpc = "idle" /\ out = Ok /\ KindOf(call) = "read" =>
    \A i \in DOMAIN call.v :
      LET r    == call.v[i]
          all  == Slice(disk[InodeOf[r.fd]], offsets[i], r.len)
          prev == {j \in 1..(i - 1) : call.v[j].fd = r.fd /\ call.v[j].kind = "cur"}
      IN  /\ got[i] = SubSeq(all, 1, Len(got[i]))
          /\ got[i] = <<>> => all = <<>>
          /\ r.kind = "cur" => offsets[i] = IF prev = {} THEN before.cur[r.fd]
                                            ELSE offsets[Max(prev)] + Len(got[Max(prev)])

\* The cursor of a descriptor is never moved past what was delivered, also
\* when another request of the vector failed.
CursorFollowsDelivery ==
  lpc = "idle" /\ KindOf(call) = "read" /\ call.op # "vfsync" =>
    \A d \in Fds :
      \/ cur[d] = before.cur[d]
      \/ \E i \in DOMAIN call.v : call.v[i].fd = d /\ call.v[i].kind = "cur" /\ cur[d] = offsets[i] + Len(got[i])

\* Every call ends: short transfers make progress, and a write that does not
\* is an error.
CallReturns == (out = Running) ~> (out # Running)
=============================================================================
