---------------------------- MODULE BulkTransfers ---------------------------
(* The bulk reads of the fsspec adapter (_fs.py): cat over many paths,       *)
(* cat_ranges and get.  Sizes are asked for first, to plan vectors bounded   *)
(* in items and bytes; the files change between the plan and the reads.      *)
(* A file is its length in atoms and a version; its bytes are that pair.     *)
EXTENDS Integers, Sequences, FiniteSets, FiniteSetsExt, SequencesExt

CONSTANTS Paths,       \* 1..n: the paths of a call, in order
          Ops,         \* subset of {"cat", "ranges", "get"}
          Lengths,     \* the lengths a file can have
          BatchSize,   \* batch_size
          BatchBytes,  \* max_batch_bytes
          Limit,       \* read_all_max_total_bytes
          MaxChanges, MaxFaults

VARIABLES op,
          file,        \* file[p]: [len, ver, ok] at the server
          sizes,       \* sizes[p]: the size planned with, -1 when the stat failed
          data,        \* data[p]: the result: [kind, len, ver]
          pending,     \* the paths still to read, in order
          stream,      \* the streamed read: [path, got, max, ver]
          local,       \* local[p]: the destination of get
          at,          \* the phase of the call
          seen,        \* history: the versions of p since the call began
          counts       \* [change, fault]

vars == <<op, file, sizes, data, pending, stream, local, at, seen, counts>>

N == Cardinality(Paths)
Order == [i \in 1..N |-> i]
None == [kind |-> "none", len |-> 0, ver |-> 0]
Value(n, v) == [kind |-> "data", len |-> n, ver |-> v]
Error(what) == [kind |-> what, len |-> 0, ver |-> 0]
Retained == FoldLeft(LAMBDA n, p : n + (IF data[p].kind = "data" THEN data[p].len ELSE 0), 0, Order)
Planned(S) == FoldLeft(LAMBDA n, p : IF p \in S THEN n + sizes[p] ELSE n, 0, Order)
NoStream == [path |-> 0, got |-> 0, max |-> 0, ver |-> 0]
Least(a, b) == IF a < b THEN a ELSE b
MostBytes == IF op = "get" THEN Least(BatchBytes, Limit) ELSE BatchBytes
Remaining == IF op = "get" THEN MostBytes ELSE Limit - Retained

Init ==
  /\ op \in Ops
  /\ file \in [Paths -> [len : Lengths, ver : {0}, ok : BOOLEAN]]
  /\ sizes = [p \in Paths |-> -1] /\ data = [p \in Paths |-> None]
  /\ pending = <<>> /\ stream = NoStream
  /\ local = [p \in Paths |-> "old"]
  /\ at = "stat" /\ seen = [p \in Paths |-> {file[p]}]
  /\ counts = [change |-> 0, fault |-> 0]

\* stat_many; a path that has no attributes fails, except in get, which reads
\* it as an empty file and leaves the error to the read.
Stat ==
  /\ at = "stat"
  /\ sizes' = [p \in Paths |-> IF file[p].ok THEN file[p].len ELSE IF op = "get" THEN 0 ELSE -1]
  /\ data' = [p \in Paths |-> IF op # "get" /\ ~file[p].ok THEN Error("error") ELSE None]
  /\ pending' = SelectSeq(Order, LAMBDA p : data'[p] = None)
  /\ at' = IF op = "ranges" THEN "check" ELSE "plan"
  /\ UNCHANGED <<op, file, stream, local, seen, counts>>

\* cat_ranges refuses the call when its ranges together exceed the limit.
AllFit(ps) == Planned(ToSet(ps)) <= Limit

CheckRanges ==
  /\ at = "check"
  /\ at' = IF AllFit(pending) THEN "plan" ELSE "raised"
  /\ UNCHANGED <<op, file, sizes, data, pending, stream, local, seen, counts>>

\* The longest front of the pending paths that fits a vector; the first
\* always goes.
FrontLen(bytes) ==
  Max({1} \union {n \in 1..Least(Len(pending), BatchSize) : Planned({pending[i] : i \in 1..n}) <= bytes})

\* cat stops a vector also at what is left of the limit.
VectorBytes == IF op = "cat" THEN Least(BatchBytes, Remaining) ELSE MostBytes
TooLarge(p) ==
  CASE op = "cat" -> sizes[p] > BatchBytes \/ sizes[p] > Remaining
    [] op = "get" -> sizes[p] > MostBytes
    [] OTHER -> FALSE
VectorLen == IF TooLarge(Head(pending)) THEN 1 ELSE FrontLen(VectorBytes)

\* The budget is checked again with the length that was read.
Within(got, len) == got + len <= Limit

\* What one vector leaves: path by path, in order, against the budget.
Keep(batch, ok) ==
  FoldLeft(LAMBDA acc, p :
             IF p \notin batch THEN acc
             ELSE IF p \notin ok THEN [acc EXCEPT !.data[p] = Error("error")]
             ELSE LET n == IF op = "ranges" THEN Least(file[p].len, sizes[p]) ELSE file[p].len IN
                  IF op # "get" /\ ~Within(acc.got, n) THEN [acc EXCEPT !.data[p] = Error("limit")]
                  ELSE [got |-> acc.got + n, data |-> [acc.data EXCEPT ![p] = Value(n, file[p].ver)]],
           [got |-> Retained, data |-> data], Order)

\* read_all_many or read_many of one vector.  The native call answers each
\* path or fails it, and answers at most `remaining` bytes in all.
ReadVector ==
  /\ at = "plan" /\ pending # <<>> /\ ~TooLarge(Head(pending))
  /\ LET batch == {pending[i] : i \in 1..VectorLen}
         total(S) == FoldLeft(LAMBDA n, p : IF p \in S THEN n + file[p].len ELSE n, 0, Order)
     IN \E ok \in SUBSET {p \in batch : file[p].ok} :
          /\ op # "ranges" => total(ok) <= Remaining
          /\ \A p \in batch \ ok :
               \/ ~file[p].ok
               \/ op # "ranges" /\ total(ok \union {p}) > Remaining
               \/ counts.fault < MaxFaults
          /\ counts' = [counts EXCEPT !.fault = IF \E p \in batch \ ok : file[p].ok /\ (op = "ranges" \/ total(ok \union {p}) <= Remaining)
                                                THEN @ + 1 ELSE @]
          /\ data' = Keep(batch, ok).data
  /\ pending' = SubSeq(pending, VectorLen + 1, Len(pending))
  /\ at' = IF op = "get" THEN "save" ELSE "plan"
  /\ UNCHANGED <<op, file, sizes, stream, local, seen>>

\* The session is lost: the whole call raises.
ReadLost ==
  /\ at = "plan" /\ pending # <<>>
  /\ counts.fault < MaxFaults /\ counts' = [counts EXCEPT !.fault = @ + 1]
  /\ at' = "raised"
  /\ UNCHANGED <<op, file, sizes, data, pending, stream, local, seen>>

\* get writes the files of the vector in order and stops at the first failure.
Save ==
  /\ at = "save"
  /\ LET todo == {p \in Paths : data[p] # None /\ local[p] = "old"} IN
     IF todo = {} THEN at' = "plan" /\ UNCHANGED local
     ELSE LET p == Min(todo) IN
          IF data[p].kind = "data" THEN local' = [local EXCEPT ![p] = "new"] /\ UNCHANGED at
          ELSE at' = "raised" /\ UNCHANGED local
  /\ UNCHANGED <<op, file, sizes, data, pending, stream, seen, counts>>

\* A file too large for a vector is opened and read piece by piece; get opens
\* the source before it truncates the destination.
StreamOpen ==
  /\ at = "plan" /\ pending # <<>> /\ op # "ranges" /\ TooLarge(Head(pending))
  /\ LET p == Head(pending) IN
     IF file[p].ok
     THEN /\ stream' = [path |-> p, got |-> 0, max |-> Remaining, ver |-> file[p].ver]
          /\ local' = IF op = "get" THEN [local EXCEPT ![p] = "partial"] ELSE local
          /\ at' = "stream" /\ UNCHANGED data
     ELSE /\ data' = [data EXCEPT ![p] = Error("noopen")]
          /\ at' = IF op = "get" THEN "raised" ELSE "plan"
          /\ UNCHANGED <<stream, local>>
  /\ pending' = Tail(pending)
  /\ UNCHANGED <<op, file, sizes, seen, counts>>

\* A piece that would exceed what is left of the limit ends the read.
PieceTooMuch(got) == op = "cat" /\ got > stream.max

StreamRead ==
  /\ at = "stream"
  /\ LET p == stream.path
         left == file[p].len - stream.got
     IN \/ /\ left > 0 /\ UNCHANGED counts
           /\ IF PieceTooMuch(stream.got + 1)
              THEN at' = "plan" /\ data' = [data EXCEPT ![p] = Error("limit")] /\ stream' = NoStream
              ELSE stream' = [stream EXCEPT !.got = @ + 1, !.ver = file[p].ver] /\ UNCHANGED <<at, data>>
           /\ UNCHANGED local
        \/ /\ left <= 0
           /\ data' = [data EXCEPT ![p] = Value(stream.got, stream.ver)]
           /\ local' = IF op = "get" THEN [local EXCEPT ![p] = "new"] ELSE local
           /\ at' = "plan" /\ stream' = NoStream /\ UNCHANGED counts
        \/ /\ counts.fault < MaxFaults /\ counts' = [counts EXCEPT !.fault = @ + 1]
           /\ data' = [data EXCEPT ![p] = Error("error")] /\ stream' = NoStream
           /\ at' = IF op = "get" THEN "raised" ELSE "plan"
           /\ UNCHANGED local
  /\ UNCHANGED <<op, file, sizes, pending, seen>>

Done ==
  /\ at = "plan" /\ pending = <<>> /\ at' = "done"
  /\ UNCHANGED <<op, file, sizes, data, pending, stream, local, seen, counts>>

\* Other clients: a file grows, shrinks or disappears.
Change(p, n, ok) ==
  /\ counts.change < MaxChanges /\ at \notin {"done", "raised"}
  /\ counts' = [counts EXCEPT !.change = @ + 1]
  /\ file' = [file EXCEPT ![p] = [len |-> n, ver |-> @.ver + 1, ok |-> ok]]
  /\ seen' = [seen EXCEPT ![p] = @ \union {file'[p]}]
  /\ UNCHANGED <<op, sizes, data, pending, stream, local, at>>

Next ==
  \/ Stat \/ CheckRanges \/ ReadVector \/ ReadLost \/ Save \/ StreamOpen \/ StreamRead \/ Done
  \/ \E p \in Paths, n \in Lengths, ok \in BOOLEAN : Change(p, n, ok)

Spec == Init /\ [][Next]_vars
-----------------------------------------------------------------------------
\* Whatever grows between the planning and the reads, what a cat or cat_ranges
\* retains, with the piece being streamed, stays within the configured limit.
LimitHeld == op # "get" => Retained + (IF at = "stream" THEN stream.got ELSE 0) <= Limit

\* Each value is that of its own path, as the file was at some time during the
\* call: the positions of a vector are never taken for those of the call.
OwnBytes ==
  \A p \in Paths : data[p].kind = "data" =>
    \E f \in seen[p] : f.ver = data[p].ver /\ data[p].len <= f.len

\* A call that returns has an outcome for every path, and a path fails only
\* if its file was missing at some time, a read of it failed, or its bytes
\* did not fit next to those of the paths before it.
EveryPathAnswered == at = "done" => \A p \in Paths : data[p] # None

\* A local file is replaced only by a complete file: when get raises, the
\* destination of a path whose read failed in a vector or whose open failed
\* keeps its contents; only one whose streaming had begun can be cut.
LocalKept ==
  /\ op # "get" => \A p \in Paths : local[p] = "old"
  /\ at = "raised" => \A p \in Paths :
       /\ (data[p].kind # "data" /\ local[p] # "old") => local[p] = "partial"
       /\ data[p].kind = "noopen" => local[p] = "old"
  /\ at = "done" /\ op = "get" => \A p \in Paths : local[p] = "new"

-----------------------------------------------------------------------------
(* The bulk writes of the fsspec adapter (_fs.py): put and pipe over many    *)
(* files.  Local sizes are asked for first, to plan bounded vectors; local   *)
(* files that turn out larger are sent on their own, in order.               *)

CONSTANTS Sources,    \* 1..n: the local files of a call, in order
          Targets,    \* the remote files
          Modes,      \* subset of {"overwrite", "create"}
          PutMaxChanges

VARIABLES mode,
          target,      \* target[s]: the remote path of source s
          putLen,         \* len[s]: the present length of the local file
          putSizes,       \* sizes[s]: the length planned with
          putTodo,        \* the sources not yet read, in order
          putBatch,       \* how many of them the current vector may still take
          staged,      \* sources read into memory: a sequence of [src, len]
          putStream,      \* the source sent piece by piece: [src, sent], src 0 for none
          remote,      \* remote[t]: [src, whole]; src 0 is the file there before
          taken,       \* targets this call created (create mode) or another client did
          putAt,
          reported,    \* the sources the callback was told of
          putCounts       \* [change, fault]

putVars == <<mode, target, putLen, putSizes, putTodo, putBatch, staged, putStream, remote, taken, putAt, reported, putCounts>>

PutN == Cardinality(Sources)
PutOrder == [i \in 1..PutN |-> i]
Bytes(s) == FoldLeft(LAMBDA n, e : n + e.len, 0, s)
PutPlanned(S) == FoldLeft(LAMBDA n, s : IF s \in S THEN n + putSizes[s] ELSE n, 0, PutOrder)
Fault == putCounts.fault < MaxFaults /\ putCounts' = [putCounts EXCEPT !.fault = @ + 1]

PutInit ==
  /\ mode \in Modes
  /\ target \in [Sources -> Targets]
  /\ putLen \in [Sources -> Lengths]
  /\ putSizes = putLen
  /\ putTodo = PutOrder /\ putBatch = 0 /\ staged = <<>> /\ putStream = [src |-> 0, sent |-> 0]
  /\ remote = [t \in Targets |-> [src |-> 0, whole |-> TRUE]]
  /\ taken \in SUBSET Targets
  /\ putAt = "plan" /\ reported = {}
  /\ putCounts = [change |-> 0, fault |-> 0]

\* The next of _bounded_batches over the planned sizes; a lone source larger
\* than a vector is streamed.
Plan ==
  /\ putAt = "plan" /\ putTodo # <<>>
  /\ LET n == Max({1} \union {k \in 1..Least(Len(putTodo), BatchSize) : PutPlanned({putTodo[i] : i \in 1..k}) <= BatchBytes}) IN
     IF putSizes[Head(putTodo)] > BatchBytes
     THEN /\ putStream' = [src |-> Head(putTodo), sent |-> 0] /\ putAt' = "open"
          /\ putTodo' = Tail(putTodo) /\ UNCHANGED putBatch
     ELSE putBatch' = n /\ putAt' = "read" /\ UNCHANGED <<putStream, putTodo>>
  /\ UNCHANGED <<mode, target, putLen, putSizes, staged, remote, taken, reported, putCounts>>

PutRemaining == BatchBytes - Bytes(staged)

\* fh.read(remaining + 1) returned no more than what remains.
FitsNow(s) == putLen[s] <= PutRemaining

\* What is staged is sent before a file that does not fit.
StagedFirst == staged # <<>>

\* One local file is read.  One that does not fit is read again with nothing
\* staged, and streamed if it is too large alone.
ReadOne ==
  /\ putAt = "read" /\ putBatch > 0
  /\ LET s == Head(putTodo) IN
     IF FitsNow(s)
     THEN /\ staged' = Append(staged, [src |-> s, len |-> putLen[s]])
          /\ putTodo' = Tail(putTodo) /\ putBatch' = putBatch - 1 /\ UNCHANGED <<putStream, putAt>>
     ELSE IF StagedFirst THEN putAt' = "upload" /\ UNCHANGED <<staged, putTodo, putBatch, putStream>>
     ELSE /\ putStream' = [src |-> s, sent |-> 0] /\ putAt' = "open"
          /\ putTodo' = Tail(putTodo) /\ putBatch' = putBatch - 1 /\ UNCHANGED staged
  /\ UNCHANGED <<mode, target, putLen, putSizes, remote, taken, reported, putCounts>>

ReadEnd ==
  /\ putAt = "read" /\ putBatch = 0
  /\ putAt' = IF staged = <<>> THEN "plan" ELSE "upload"
  /\ UNCHANGED <<mode, target, putLen, putSizes, putTodo, putBatch, staged, putStream, remote, taken, reported, putCounts>>

AfterUpload == IF putBatch > 0 THEN "read" ELSE "plan"

Put(r, e) == [r EXCEPT ![target[e.src]] = [src |-> e.src, whole |-> TRUE]]

\* The files of a vector are written first to last.
WriteAll(s) == FoldLeft(Put, remote, s)

\* write_many of what is staged.  A failed vector may have written any part of
\* its files; it is not repeated, and the call raises.
Upload ==
  /\ putAt = "upload" /\ mode = "overwrite"
  /\ \/ /\ remote' = WriteAll(staged)
        /\ reported' = reported \union {staged[i].src : i \in DOMAIN staged}
        /\ staged' = <<>> /\ putAt' = AfterUpload /\ UNCHANGED putCounts
     \/ /\ Fault /\ putAt' = "raised"
        /\ \E cut \in 0..(Len(staged) - 1), part \in BOOLEAN :
             LET done == WriteAll(SubSeq(staged, 1, cut))
                 next == staged[cut + 1].src
             IN remote' = IF part THEN [done EXCEPT ![target[next]] = [src |-> next, whole |-> FALSE]] ELSE done
        /\ UNCHANGED <<staged, reported>>
  /\ UNCHANGED <<mode, target, putLen, putSizes, putTodo, putBatch, putStream, taken>>

\* OPEN with O_EXCL.
MayCreate(t) == t \notin taken

\* _write_one_exclusive of the first staged value: created, written,
\* closed.  The partial output of a failed one stays.
UploadExclusive ==
  /\ putAt = "upload" /\ mode = "create"
  /\ LET s == Head(staged).src
         t == target[s]
     IN IF ~MayCreate(t) THEN putAt' = "raised" /\ UNCHANGED <<remote, taken, staged, reported, putCounts>>
        ELSE /\ taken' = taken \union {t}
             /\ \/ /\ remote' = [remote EXCEPT ![t] = [src |-> s, whole |-> TRUE]]
                   /\ reported' = reported \union {s}
                   /\ staged' = Tail(staged)
                   /\ putAt' = (IF Tail(staged) = <<>> THEN AfterUpload ELSE "upload") /\ UNCHANGED putCounts
                \/ /\ Fault /\ putAt' = "raised"
                   /\ \E whole \in BOOLEAN : remote' = [remote EXCEPT ![t] = [src |-> s, whole |-> whole]]
                   /\ UNCHANGED <<reported, staged>>
  /\ UNCHANGED <<mode, target, putLen, putSizes, putTodo, putBatch, putStream>>

\* The stream ends when a read of the local file is empty.
StreamEnd(s) == putStream.sent >= putLen[s]

\* _upload_file_streamed: open (truncating, or exclusive), then pieces.
PutStreamOpen ==
  /\ putAt = "open"
  /\ LET t == target[putStream.src] IN
     IF mode = "create" /\ ~MayCreate(t) THEN putAt' = "raised" /\ UNCHANGED <<remote, taken>>
     ELSE /\ remote' = [remote EXCEPT ![t] = [src |-> putStream.src, whole |-> putLen[putStream.src] = 0]]
          /\ taken' = taken \union {t} /\ putAt' = "stream"
  /\ UNCHANGED <<mode, target, putLen, putSizes, putTodo, putBatch, staged, putStream, reported, putCounts>>
StreamWrite ==
  /\ putAt = "stream"
  /\ LET s == putStream.src
         t == target[s]
     IN \/ /\ ~StreamEnd(s) /\ UNCHANGED <<putAt, reported, putCounts>>
           /\ putStream' = [putStream EXCEPT !.sent = @ + 1]
           /\ remote' = [remote EXCEPT ![t].whole = putStream.sent + 1 = putLen[s]]
        \/ /\ StreamEnd(s) /\ UNCHANGED putCounts
           /\ putStream' = [src |-> 0, sent |-> 0] /\ reported' = reported \union {s}
           /\ remote' = [remote EXCEPT ![t].whole = putStream.sent >= putLen[s]]
           /\ putAt' = AfterUpload
        \/ Fault /\ putAt' = "raised" /\ UNCHANGED <<putStream, remote, reported>>
  /\ UNCHANGED <<mode, target, putLen, putSizes, putTodo, putBatch, staged, taken>>

PutDone ==
  /\ putAt = "plan" /\ putTodo = <<>> /\ putAt' = "done"
  /\ UNCHANGED <<mode, target, putLen, putSizes, putTodo, putBatch, staged, putStream, remote, taken, reported, putCounts>>

\* Local files change after they were measured; other clients create files.
PutChange(s, n) ==
  /\ putCounts.change < PutMaxChanges /\ putAt \notin {"done", "raised"} /\ s # putStream.src
  /\ putCounts' = [putCounts EXCEPT !.change = @ + 1]
  /\ putLen' = [putLen EXCEPT ![s] = n]
  /\ UNCHANGED <<mode, target, putSizes, putTodo, putBatch, staged, putStream, remote, taken, putAt, reported>>
Created(t) ==
  /\ putCounts.change < PutMaxChanges /\ mode = "create" /\ t \notin taken
  /\ putCounts' = [putCounts EXCEPT !.change = @ + 1]
  /\ taken' = taken \union {t}
  /\ UNCHANGED <<mode, target, putLen, putSizes, putTodo, putBatch, staged, putStream, remote, putAt, reported>>

PutNext ==
  \/ Plan \/ ReadOne \/ ReadEnd \/ Upload \/ UploadExclusive \/ PutStreamOpen \/ StreamWrite \/ PutDone
  \/ (\E s \in Sources, n \in Lengths : PutChange(s, n)) \/ (\E t \in Targets : Created(t))

PutSpec == PutInit /\ [][PutNext]_putVars
-----------------------------------------------------------------------------
LastFor(t) == Max({0} \union {s \in Sources : target[s] = t})

\* What is held in memory for a vector never exceeds max_batch_bytes, however
\* the local files grow after they were measured.
MemoryBounded == Bytes(staged) <= BatchBytes

\* A put that returns has left, at every target, the whole of the last source
\* of the call for it: files sent on their own do not overtake or fall behind
\* the vectors.
LastSourceWins == (putAt = "done" /\ mode = "overwrite") => \A t \in Targets : remote[t] = [src |-> LastFor(t), whole |-> TRUE]

\* The callback is told of a source only when its file, or that of a later
\* source for the same target, had been stored.
ReportedStored == \A s \in reported : remote[target[s]].src >= s

\* In create mode a file that exists, whoever created it, is never opened.
ExclusiveKept == \A t \in Targets : (mode = "create" /\ t \in taken /\ remote[t].src # putStream.src) => remote'[t] = remote[t]

-----------------------------------------------------------------------------
(* The vectorised copies of the fsspec adapter (_fs.py): copy over pairs of   *)
(* paths, classified by one metadata vector, copied by native COPY vectors    *)
(* and, for pairs whose parent was missing, once more after making it.        *)

CONSTANTS Pairs, \* 1..n
          Dirs,  \* the destination directories
          Types  \* what a source may be

VARIABLES call,       \* [classified, links, raise, mkdir]: the copy entered, symlinks=,
                      \* on_error = "raise", auto_mkdir
          type,       \* type[i]: "file", "directory", "link" (to a file), "special", "missing"
          parent,     \* parent[i]: the directory of destination i
          dir,        \* dir[d]: "there", "absent" or "blocked" (absent, and refused)
          pairAt,
          pend, links,   \* pairs for native COPY, pairs copied as symbolic links
          failed,     \* failed[i]: "" or the error of a pair
          copies,     \* copies[i]: how often the destination was written
          opened,     \* pairs whose special source native COPY opened
          told,       \* told[i]: callbacks for the pair
          raised,     \* the pair of the error raised, 0 for none
          pairCounts      \* [change, fault]

pairVars == <<call, type, parent, dir, pairAt, pend, links, failed, copies, opened, told, raised, pairCounts>>

PairFault == pairCounts.fault < MaxFaults /\ pairCounts' = [pairCounts EXCEPT !.fault = @ + 1]

PairInit ==
  /\ call \in [classified : BOOLEAN, links : BOOLEAN, raise : BOOLEAN, mkdir : BOOLEAN]
  /\ call.links => call.classified
  /\ type \in [Pairs -> Types] /\ parent \in [Pairs -> Dirs]
  /\ dir \in [Dirs -> {"there", "absent", "blocked"}]
  /\ pairAt = "stat" /\ pend = {} /\ links = {}
  /\ failed = [i \in Pairs |-> ""] /\ copies = [i \in Pairs |-> 0] /\ opened = {}
  /\ told = [i \in Pairs |-> 0] /\ raised = 0
  /\ pairCounts = [change |-> 0, fault |-> 0]

Tell(S) == told' = [i \in Pairs |-> IF i \in S THEN told[i] + 1 ELSE told[i]]

\* Paired copies leave only special files out; the others get COPY's errors.
PairedCopy(i) == type[i] # "special"

\* copy with two lists: stat_many, then the pairs that are not special.
StatPaired ==
  /\ pairAt = "stat" /\ ~call.classified
  /\ pend' = {i \in Pairs : PairedCopy(i)}
  /\ failed' = [i \in Pairs |-> IF i \in pend' THEN "" ELSE "special"]
  /\ Tell(Pairs \ pend') /\ pairAt' = "copy"
  /\ UNCHANGED <<call, type, parent, dir, links, copies, opened, raised, pairCounts>>

\* _copy_classified_pairs: directories are made, files and links sorted out.
\* A makedirs error ends the call.
StatClassified ==
  /\ pairAt = "stat" /\ call.classified
  /\ LET kind == [i \in Pairs |-> IF type[i] = "link" /\ ~call.links THEN "file" ELSE type[i]]
         made == {i \in Pairs : kind[i] = "directory"}
         bad == {i \in Pairs : kind[i] \in {"missing", "special"}}
     IN /\ pend' = {i \in Pairs : kind[i] = "file"}
        /\ links' = {i \in Pairs : kind[i] = "link"}
        /\ failed' = [i \in Pairs |-> IF i \in bad THEN kind[i] ELSE ""]
        /\ IF \E i \in made : dir[parent[i]] = "blocked"
           THEN pairAt' = "raised" /\ Tell(bad) /\ UNCHANGED <<dir, copies>>
           ELSE /\ dir' = [d \in Dirs |-> IF \E i \in made : parent[i] = d THEN "there" ELSE dir[d]]
                /\ copies' = [i \in Pairs |-> IF i \in made THEN 1 ELSE 0]
                /\ Tell(bad \union made) /\ pairAt' = "copy"
  /\ UNCHANGED <<call, type, parent, opened, raised, pairCounts>>

\* The outcome of native COPY for a pair.
Outcome(i) ==
  IF type[i] = "missing" THEN "ENOENT"
  ELSE IF type[i] = "directory" THEN "EISDIR"
  ELSE IF dir[parent[i]] # "there" THEN "ENOENT" ELSE ""

\* copy_many of S: independent outcomes; a lost connection ends the call.
CopyMany(S, next) ==
  \/ /\ failed' = [i \in Pairs |-> IF i \in S THEN Outcome(i) ELSE failed[i]]
     /\ copies' = [i \in Pairs |-> IF i \in S /\ Outcome(i) = "" THEN copies[i] + 1 ELSE copies[i]]
     /\ opened' = opened \union {i \in S : type[i] = "special"}
     /\ pairAt' = next /\ UNCHANGED pairCounts
  \/ /\ PairFault /\ pairAt' = "transport"
     /\ \E T \in SUBSET S : copies' = [i \in Pairs |-> IF i \in T /\ Outcome(i) = "" THEN copies[i] + 1 ELSE copies[i]]
     /\ UNCHANGED <<failed, opened>>

Copy ==
  /\ pairAt = "copy" /\ CopyMany(pend, "ensure")
  /\ UNCHANGED <<call, type, parent, dir, pend, links, told, raised>>

\* Only the pairs that failed with ENOENT are repeated.
Missing == {i \in pend : failed[i] = "ENOENT"}

\* After a semantic failure each parent is made by itself, so that a blocked
\* one only fails its own pairs.
Ready(S) == {i \in S : dir[parent[i]] # "blocked"}

\* With auto_mkdir the parents of the missing pairs are made.
EnsureParents ==
  /\ pairAt = "ensure"
  /\ IF Missing = {} \/ ~call.mkdir THEN pairAt' = "links" /\ UNCHANGED <<dir, failed, pairCounts>>
     ELSE \/ /\ dir' = [d \in Dirs |-> IF dir[d] = "absent" /\ \E i \in Ready(Missing) : parent[i] = d THEN "there" ELSE dir[d]]
             /\ failed' = [i \in Pairs |-> IF i \in Missing \ Ready(Missing) THEN "EACCES" ELSE failed[i]]
             /\ pairAt' = "retry" /\ UNCHANGED pairCounts
          \/ PairFault /\ pairAt' = "transport" /\ UNCHANGED <<dir, failed>>
  /\ UNCHANGED <<call, type, parent, pend, links, copies, opened, told, raised>>
Retry ==
  /\ pairAt = "retry" /\ CopyMany(Missing, "links")
  /\ UNCHANGED <<call, type, parent, dir, pend, links, told, raised>>

\* Each pair of the vector is told of, copied or not.
ToldPairs == pend

\* The end of _copy_pairs: every pair is told of, and the first error raised.
FinishCopies ==
  /\ pairAt = "links"
  /\ Tell(ToldPairs)
  /\ LET bad == {i \in pend : failed[i] # ""} IN
     IF bad # {} /\ call.raise THEN raised' = Min(bad) /\ pairAt' = "raised"
     ELSE pairAt' = "link" /\ UNCHANGED raised
  /\ UNCHANGED <<call, type, parent, dir, pend, links, failed, copies, opened, pairCounts>>

\* _copy_symlink_pairs: one link at a time, in order.  An ambiguous link
\* creation is neither suppressed nor repeated.
CopyLink ==
  /\ pairAt = "link" /\ links # {}
  /\ LET i == Min(links)
         d == parent[i]
         error == IF type[i] # "link" THEN "EINVAL"
                  ELSE IF dir[d] # "there" /\ ~call.mkdir THEN "ENOENT"
                  ELSE IF dir[d] = "blocked" THEN "EACCES" ELSE ""
     IN \/ /\ links' = links \ {i} /\ Tell({i}) /\ UNCHANGED pairCounts
           /\ failed' = [failed EXCEPT ![i] = error]
           /\ copies' = [copies EXCEPT ![i] = IF error = "" THEN @ + 1 ELSE @]
           /\ dir' = [dir EXCEPT ![d] = IF @ = "absent" /\ call.mkdir THEN "there" ELSE @]
           /\ IF error # "" /\ call.raise THEN raised' = i /\ pairAt' = "raised" ELSE UNCHANGED <<raised, pairAt>>
        \/ /\ PairFault /\ pairAt' = "transport" /\ links' = links \ {i}
           /\ \E landed \in BOOLEAN : copies' = [copies EXCEPT ![i] = IF landed /\ error = "" THEN @ + 1 ELSE @]
           /\ UNCHANGED <<failed, dir, raised, told>>
  /\ UNCHANGED <<call, type, parent, pend, opened>>

\* The first error of the classification is raised last.
Finish ==
  /\ pairAt = "link" /\ links = {}
  /\ LET bad == {i \in Pairs : failed[i] \in {"missing", "special"}} IN
     IF bad # {} /\ call.raise THEN raised' = Min(bad) /\ pairAt' = "raised" ELSE pairAt' = "done" /\ UNCHANGED raised
  /\ UNCHANGED <<call, type, parent, dir, pend, links, failed, copies, opened, told, pairCounts>>

\* Another client removes a source.
Vanish(i) ==
  /\ pairCounts.change < MaxChanges /\ type[i] # "missing" /\ pairAt \notin {"done", "raised", "transport"}
  /\ pairCounts' = [pairCounts EXCEPT !.change = @ + 1]
  /\ type' = [type EXCEPT ![i] = "missing"]
  /\ UNCHANGED <<call, parent, dir, pairAt, pend, links, failed, copies, opened, told, raised>>

PairNext ==
  \/ StatPaired \/ StatClassified \/ Copy \/ EnsureParents \/ Retry \/ FinishCopies \/ CopyLink \/ Finish
  \/ (\E i \in Pairs : Vanish(i))

PairSpec == PairInit /\ [][PairNext]_pairVars
-----------------------------------------------------------------------------
\* A pair that was copied is not copied again: its source may have been
\* overwritten by another pair of the batch since.
CopiedOnce == \A i \in Pairs : copies[i] <= 1

\* Native COPY never opens a special file.
SpecialNeverOpened == opened = {}

\* One pair's failure does not keep another from being copied: a copy that
\* ends without a lost connection has copied each pair it has no error for, and
\* an unblocked parent is made for every pair that needs one.
IndependentCopied ==
  pairAt = "done" => \A i \in Pairs :
    /\ failed[i] = "" => copies[i] = 1
    /\ failed[i] = "EACCES" => dir[parent[i]] = "blocked"

\* A copy that returns has told the callback of every pair once.
ToldOnce == pairAt = "done" => \A i \in Pairs : told[i] = 1
=============================================================================
