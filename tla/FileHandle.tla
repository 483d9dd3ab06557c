----------------------------- MODULE FileHandle -----------------------------
(* One file object of the fsspec adapter (_fs.py): _RawVfsiFile, a handle    *)
(* over a native descriptor that survives reconnects when it only reads, and *)
(* VfsiFile, which adds read-ahead ranges and write buffering.  Other        *)
(* threads reconnect the session, other clients append to the file or put    *)
(* another file at its name.                                                 *)
(* A file is a sequence of atoms: 1.. are written through the handle in this *)
(* order, 50.. were there before, 100.. come from other clients; 0 is a hole.*)
EXTENDS Integers, Sequences, SequencesExt, FiniteSets

CONSTANTS Cases,       \* [mode, buffered, auto]: how the file is opened
          BlockSize, MaxAtoms, MaxCalls, MaxFaults, MaxOther, MaxReconnects

VARIABLES case,
          inode,      \* <<contents of the first file, of its replacement>>
          name,       \* the inode at the path
          fds,        \* descriptors open at the server: [tok, ino]
          deferred,   \* tokens given to the pool to close later
          h,          \* the fields of the file object
          call,       \* the running call
          want, wrote, asked, \* history: expected contents, atoms used, last read
          counts      \* [call, fault, other, reconnect, tok]

server == <<inode, name>>
hist == <<want, wrote, asked>>
vars == <<case, server, fds, deferred, h, call, hist, counts>>

Reads == case.mode = "r"
Appends == case.mode = "a"
Idle == [at |-> "idle"]
Closing == [at |-> "closing"]
Live(tok) == \E d \in fds : d.tok = tok
InodeOf(tok) == (CHOOSE d \in fds : d.tok = tok).ino
Least(a, b) == IF a < b THEN a ELSE b
Take(s, n) == SubSeq(s, 1, Least(n, Len(s)))
Drop(s, n) == SubSeq(s, n + 1, Len(s))
\* data put at offset pos of s, a gap before it read as zeros.
PutAt(s, pos, data) ==
  LET padded == s \o [i \in 1..(IF pos > Len(s) THEN pos - Len(s) ELSE 0) |-> 0]
  IN Take(padded, pos) \o data \o Drop(padded, pos + Len(data))

Raise == call' = Idle
Fault == counts.fault < MaxFaults /\ counts' = [counts EXCEPT !.fault = @ + 1]
NoFault == UNCHANGED counts

\* The native open of _open or of _RawVfsiFile.__init__: w truncates.
Init ==
  /\ case \in Cases
  /\ inode = <<IF case.mode = "w" THEN <<>> ELSE <<51, 52, 53>>, <<54, 55, 56>>>>
  /\ name = 1
  /\ fds = {[tok |-> 1, ino |-> 1]} /\ deferred = {}
  /\ h = [fd |-> 1, identity |-> 0, broken |-> FALSE, closed |-> FALSE, failed |-> FALSE, forced |-> FALSE,
          pos |-> 0, loc |-> 0, buffer |-> <<>>]
  /\ call = [at |-> "stat"]
  /\ want = inode[1] /\ wrote = 0 /\ asked = [whole |-> FALSE, ok |-> TRUE]
  /\ counts = [call |-> 0, fault |-> 0, other |-> 0, reconnect |-> 0, tok |-> 1]

\* The rest of the open: fstat gives identity and size (w needs neither;
\* there identity only names the file in this model).  When it fails the
\* descriptor is closed, or left to the pool, and the open raises.
OpenStat ==
  /\ call.at = "stat"
  /\ \/ /\ case.mode = "w" \/ Live(h.fd)
        /\ NoFault /\ call' = Idle
        /\ LET end == IF Appends THEN Len(inode[1]) ELSE 0
           IN h' = [h EXCEPT !.identity = 1, !.pos = end, !.loc = end]
     \/ /\ case.mode # "w" /\ ~Live(h.fd) /\ NoFault /\ Raise
        /\ h' = [h EXCEPT !.closed = TRUE, !.fd = 0]
     \/ /\ case.mode # "w" /\ Live(h.fd) /\ Fault /\ call' = [at |-> "drop", tok |-> h.fd]
        /\ h' = [h EXCEPT !.closed = TRUE, !.fd = 0]
  /\ UNCHANGED <<case, server, fds, deferred, hist>>

\* A descriptor nobody will publish is closed; the pool keeps it if that fails.
DropDescriptor ==
  /\ call.at = "drop"
  /\ \/ NoFault /\ fds' = {d \in fds : d.tok # call.tok} /\ UNCHANGED deferred
     \/ Fault /\ UNCHANGED fds /\ deferred' = IF Live(call.tok) THEN deferred \union {call.tok} ELSE deferred
  /\ Raise
  /\ UNCHANGED <<case, server, h, hist>>

\* The session is replaced: every descriptor of it is gone.
Replaced == fds' = {} /\ deferred' = {}
-----------------------------------------------------------------------------

Usable == ~h.broken

\* Mutant: a failure before any short write is taken to have had no effect.
KeepsBuffer(transport) ==
  LET untouched == call.upload /\ Len(call.data) + Len(call.rest) = Len(h.buffer)
  IN [h EXCEPT !.broken = @ \/ ~untouched, !.failed = @ \/ (call.upload /\ ~untouched)]

\* A failed upload makes the writer unusable, whatever of it was written.
Broken(transport) ==
  [h EXCEPT !.broken = @ \/ transport \/ call.upload, !.failed = @ \/ call.upload]
AfterFailure == IF call.after = Closing THEN [at |-> "closefailed"] ELSE Idle

\* _ensure_open raises: an upload fails with it, any other call only raises.
Refuse(file) ==
  IF call.then = "pwrite" THEN h' = [Broken(file.broken) EXCEPT !.fd = file.fd] /\ call' = AfterFailure
  ELSE Raise /\ h' = file

\* Where _ensure_open leads: a reader reopens by name, a writer breaks.
Ensure ==
  /\ call.at = "ensure"
  /\ IF ~Usable THEN Refuse(h)
     ELSE IF h.fd # 0 /\ ~Live(h.fd) /\ ~Reads
     THEN Refuse([h EXCEPT !.fd = 0, !.broken = TRUE])
     ELSE IF h.fd # 0 /\ Live(h.fd)
     THEN call' = [call EXCEPT !.at = call.then] /\ UNCHANGED h
     ELSE Reads /\ call' = [call EXCEPT !.at = "reopen"] /\ h' = [h EXCEPT !.fd = 0]
  /\ UNCHANGED <<case, server, fds, deferred, hist, counts>>

Reopen ==
  /\ call.at = "reopen"
  /\ \/ /\ counts' = [counts EXCEPT !.tok = @ + 1]
        /\ fds' = fds \union {[tok |-> counts.tok + 1, ino |-> name]}
        /\ call' = [call EXCEPT !.at = "check", !.tok = counts.tok + 1]
     \/ Fault /\ Raise /\ UNCHANGED fds
  /\ UNCHANGED <<case, server, deferred, h, hist>>

SameFile(tok) == InodeOf(tok) = h.identity

\* fstat of the reopened descriptor: published only if it is the same file.
Check ==
  /\ call.at = "check"
  /\ \/ /\ Live(call.tok) /\ NoFault
        /\ IF SameFile(call.tok)
           THEN h' = [h EXCEPT !.fd = call.tok] /\ call' = [call EXCEPT !.at = call.then]
           ELSE call' = [at |-> "drop", tok |-> call.tok] /\ UNCHANGED h
     \/ ~Live(call.tok) /\ NoFault /\ call' = [at |-> "drop", tok |-> call.tok] /\ UNCHANGED h
     \/ Fault /\ call' = [at |-> "drop", tok |-> call.tok] /\ UNCHANGED h
  /\ UNCHANGED <<case, server, fds, deferred, hist>>

\* A read of [start, start + len): _fetch_range for a cache, or a raw read.
Read(start, len) ==
  /\ call = Idle /\ Reads /\ ~h.closed /\ counts.call < MaxCalls
  /\ ~case.buffered => start = h.pos
  /\ counts' = [counts EXCEPT !.call = @ + 1]
  /\ call' = [at |-> "ensure", then |-> "pread", start |-> start, len |-> len, got |-> <<>>,
              retried |-> FALSE, tok |-> 0]
  /\ asked' = [whole |-> FALSE, ok |-> TRUE]
  /\ UNCHANGED <<case, server, fds, deferred, h, want, wrote>>

\* _fetch_range stops at an empty read or when the range is complete.
RangeDone(got, part) == part = <<>> \/ Len(got \o part) >= call.len

\* One native pread.  After a transport failure, or a descriptor made stale
\* by another thread, the session is reconnected once and the file reopened.
PRead ==
  /\ call.at = "pread"
  /\ UNCHANGED <<case, server, want, wrote>>
  /\ \/ /\ Live(h.fd)
        /\ LET data == inode[InodeOf(h.fd)]
               from == call.start + Len(call.got)
               left == call.len - Len(call.got)
               most == Take(Drop(data, from), Least(left, IF from > Len(data) THEN 0 ELSE Len(data) - from))
           IN \E n \in 0..Len(most) :
                /\ n = 0 => most = <<>>
                /\ LET part == Take(most, n) IN
                   IF RangeDone(call.got, part)
                   THEN Raise /\ asked' = [whole |-> FALSE,
                                           ok |-> call.got \o part = Take(Drop(inode[1], call.start), call.len)]
                   ELSE /\ call' = [call EXCEPT !.got = @ \o part, !.at = "ensure", !.retried = FALSE]
                        /\ UNCHANGED asked
                /\ h' = IF case.buffered THEN h ELSE [h EXCEPT !.pos = @ + n]
        /\ NoFault /\ UNCHANGED <<fds, deferred>>
     \/ /\ ~Live(h.fd) \/ counts.fault < MaxFaults
        /\ counts' = IF Live(h.fd) THEN [counts EXCEPT !.fault = @ + 1] ELSE counts
        /\ UNCHANGED asked
        /\ IF call.retried \/ ~case.auto THEN Raise /\ UNCHANGED <<fds, deferred, h>>
           ELSE /\ call' = [call EXCEPT !.at = "ensure", !.retried = TRUE]
                /\ h' = [h EXCEPT !.fd = 0]
                /\ IF Live(h.fd) THEN Replaced ELSE UNCHANGED <<fds, deferred>>

\* read() to the end: an unbuffered handle at offset 0 that has no descriptor
\* reads the whole file at its name.
ReadAll ==
  /\ call = Idle /\ Reads /\ ~case.buffered /\ ~h.closed /\ h.pos = 0 /\ h.fd = 0
  /\ counts.call < MaxCalls
  /\ counts' = [counts EXCEPT !.call = @ + 1]
  /\ asked' = [whole |-> TRUE, ok |-> inode[name] = inode[1]]
  /\ h' = [h EXCEPT !.pos = Len(inode[name])]
  /\ UNCHANGED <<case, server, fds, deferred, call, want, wrote>>
-----------------------------------------------------------------------------
Next1(n) == [i \in 1..n |-> wrote + i]

\* write(): unbuffered data goes to the server at once; buffered data is
\* collected and its complete blocks are uploaded.
Write(n) ==
  /\ call = Idle /\ ~Reads /\ ~h.closed /\ counts.call < MaxCalls /\ wrote + n <= MaxAtoms
  /\ counts' = [counts EXCEPT !.call = @ + 1]
  /\ IF ~case.buffered
     THEN /\ call' = [at |-> "ensure", then |-> "pwrite", data |-> Next1(n), upload |-> FALSE,
                      rest |-> <<>>, after |-> Idle]
          /\ UNCHANGED <<h, want, wrote>>
     ELSE IF h.failed THEN UNCHANGED <<call, h, want, wrote>>
     ELSE LET all == h.buffer \o Next1(n)
              complete == (Len(all) \div BlockSize) * BlockSize
          IN /\ h' = [h EXCEPT !.buffer = all, !.loc = @ + n]
             /\ want' = IF Appends THEN want \o Next1(n) ELSE PutAt(want, h.loc, Next1(n))
             /\ wrote' = wrote + n
             /\ call' = IF complete = 0 THEN Idle
                        ELSE [at |-> "ensure", then |-> "pwrite", data |-> Take(all, complete),
                              upload |-> TRUE, rest |-> Drop(all, complete), after |-> Idle]
  /\ UNCHANGED <<case, server, fds, deferred, asked>>

\* flush(): what is buffered is uploaded, and the call goes on with after; a
\* failed writer stays failed.
Flush(after) ==
  IF h.failed THEN Raise
  ELSE call' = IF h.buffer = <<>> THEN after
               ELSE [at |-> "ensure", then |-> "pwrite", data |-> h.buffer, upload |-> TRUE,
                     rest |-> <<>>, after |-> after]

FlushCall ==
  /\ call = Idle /\ case.buffered /\ ~h.closed /\ counts.call < MaxCalls
  /\ counts' = [counts EXCEPT !.call = @ + 1]
  /\ Flush(Idle)
  /\ UNCHANGED <<case, server, fds, deferred, h, hist>>

\* _reconcile_append_position: loc also counts bytes still buffered.
Appended(n, end) == [h EXCEPT !.pos = end, !.loc = IF case.buffered THEN @ + end - (h.pos + n) ELSE end]

\* What an upload leaves in the buffer when a piece of it was written.
Written(n) ==
  LET moved == IF Appends THEN Appended(n, Len(inode'[h.identity])) ELSE [h EXCEPT !.pos = @ + n]
      left == Drop(call.data, n)
  IN IF call.upload /\ left # <<>>
     THEN h' = moved /\ call' = [call EXCEPT !.data = left, !.at = "ensure"]
     ELSE /\ h' = IF call.upload THEN [moved EXCEPT !.buffer = call.rest] ELSE moved
          /\ call' = call.after

\* One native write or append, possibly short.  A transport failure may have
\* reached the file; it is never repeated, the session is reconnected for
\* later calls, and the descriptor is kept if it is still there.
PWrite ==
  /\ call.at = "pwrite"
  /\ UNCHANGED <<case, name, asked>>
  /\ LET put(n) == [inode EXCEPT ![h.identity] =
                     IF Appends THEN @ \o Take(call.data, n) ELSE PutAt(@, h.pos, Take(call.data, n))]
     IN \/ /\ Live(h.fd) /\ NoFault /\ UNCHANGED <<fds, deferred>>
           /\ \E n \in 1..Len(call.data) :
                /\ inode' = put(n)
                /\ Written(n)
                /\ IF call.upload THEN UNCHANGED <<want, wrote>>
                   ELSE /\ want' = IF Appends THEN want \o Take(call.data, n)
                                   ELSE PutAt(want, h.pos, Take(call.data, n))
                        /\ wrote' = wrote + n
        \/ \* A semantic error, or a descriptor another thread's reconnect has closed.
           /\ IF Live(h.fd) THEN Fault ELSE NoFault
           /\ h' = Broken(FALSE) /\ call' = AfterFailure
           /\ UNCHANGED <<inode, fds, deferred, want, wrote>>
        \/ /\ Live(h.fd) /\ Fault
           /\ inode' \in {inode, put(Len(call.data))}
           /\ call' = AfterFailure
           /\ wrote' = wrote + IF call.upload THEN 0 ELSE Len(call.data)
           /\ \/ case.auto /\ Replaced /\ h' = [Broken(TRUE) EXCEPT !.fd = 0]
              \/ UNCHANGED <<fds, deferred>> /\ h' = Broken(TRUE)
           /\ UNCHANGED want

\* truncate(): the buffer is flushed first; a lost reply breaks the handle.
Truncate(size) ==
  /\ call = Idle /\ ~Reads /\ ~h.closed /\ counts.call < MaxCalls
  /\ counts' = [counts EXCEPT !.call = @ + 1]
  /\ LET cut == [at |-> "ensure", then |-> "ftruncate", size |-> size]
     IN IF case.buffered THEN Flush(cut) ELSE call' = cut
  /\ UNCHANGED <<case, server, fds, deferred, h, hist>>
Cut(s) == PutAt(Take(s, call.size), call.size, <<>>)
FTruncate ==
  /\ call.at = "ftruncate"
  /\ LET cut == [inode EXCEPT ![h.identity] = Cut(@)]
     IN \/ /\ Live(h.fd) /\ NoFault /\ inode' = cut 
           /\ want' = (IF Appends THEN inode'[1] ELSE Cut(want)) /\ UNCHANGED h
        \/ /\ IF Live(h.fd) THEN Fault ELSE NoFault
           /\ UNCHANGED <<inode, h, want>>
        \/ /\ Live(h.fd) /\ Fault /\ inode' \in {inode, cut} /\ h' = [h EXCEPT !.broken = TRUE]
           /\ UNCHANGED want
  /\ Raise
  /\ UNCHANGED <<case, name, fds, deferred, wrote, asked>>
-----------------------------------------------------------------------------
\* close(): a buffered writer flushes, once; a failed one only releases.  When
\* CLOSE failed after that flush, another close() cannot flush again: it
\* raises, drops what was buffered since and releases the descriptor.
Close ==
  /\ call = Idle /\ ~h.closed /\ counts.call < MaxCalls
  /\ counts' = [counts EXCEPT !.call = @ + 1]
  /\ IF case.buffered
     THEN /\ IF h.failed THEN call' = Closing
             ELSE IF h.forced THEN call' = [at |-> "closefailed"] ELSE Flush(Closing)
          /\ h' = [h EXCEPT !.forced = @ \/ (~Reads /\ ~h.failed)]
     ELSE call' = Closing /\ UNCHANGED h
  /\ UNCHANGED <<case, server, fds, deferred, hist>>

\* The handle after CLOSE failed: unlike a close that ends a failed flush,
\* which leaves the descriptor to the pool, it keeps it for another try.
Retained == IF call.at = "closefailed" THEN [h EXCEPT !.closed = TRUE, !.fd = 0] ELSE h

RawClose ==
  /\ call.at \in {"closing", "closefailed"}
  /\ \/ /\ NoFault
        /\ fds' = {d \in fds : d.tok # h.fd}
        /\ h' = [h EXCEPT !.closed = TRUE, !.fd = 0]
        /\ UNCHANGED deferred
     \/ /\ Live(h.fd) /\ Fault
        /\ h' = Retained
        /\ deferred' = IF call.at = "closefailed" THEN deferred \union {h.fd} ELSE deferred
        /\ UNCHANGED fds
  /\ Raise
  /\ UNCHANGED <<case, server, hist>>

\* Other clients, and other threads of this filesystem.
Other ==
  /\ counts.other < MaxOther
  /\ counts' = [counts EXCEPT !.other = @ + 1]
  /\ \/ Appends /\ inode' = [inode EXCEPT ![1] = Append(@, 100 + counts.other)] /\ UNCHANGED name
     \/ name' = 2 /\ name = 1 /\ UNCHANGED inode
  /\ UNCHANGED <<case, fds, deferred, h, call, hist>>
OtherReconnect ==
  /\ counts.reconnect < MaxReconnects
  /\ counts' = [counts EXCEPT !.reconnect = @ + 1]
  /\ Replaced
  /\ UNCHANGED <<case, server, h, call, hist>>

Next ==
  \/ OpenStat \/ DropDescriptor \/ Ensure \/ Reopen \/ Check \/ PRead
  \/ \E start \in 0..2, len \in 1..2 : Read(start, len)
  \/ \E n \in 1..2 : Write(n)
  \/ ReadAll \/ FlushCall \/ PWrite \/ (\E size \in 0..2 : Truncate(size)) \/ FTruncate
  \/ Close \/ RawClose \/ Other \/ OtherReconnect

Spec == Init /\ [][Next]_vars
-----------------------------------------------------------------------------
Own(s) == SelectSeq(s, LAMBDA a : a \in 1..49)

\* A read by descriptor returns the bytes of the file that was opened, all of the range up
\* to the end of the file, although the session was replaced under it and
\* another file may have taken the name.
ReadsOriginal == ~asked.whole => asked.ok

\* When no call failed and nothing is buffered, the file holds what was
\* written, in order, at the offsets the handle had.
Stored ==
  (call = Idle /\ ~Reads /\ ~h.failed /\ ~h.broken /\ h.buffer = <<>> /\ h.identity # 0) =>
    IF Appends THEN Own(inode[1]) = Own(want) ELSE inode[1] = want

\* Whatever fails, nothing the caller wrote reaches the file twice or out of
\* order: an ambiguous write is not repeated, by a flush, a close or a retry.
NeverReplayed == LET own == Own(inode[1]) IN \A i, k \in DOMAIN own : i < k => own[i] < own[k]

\* A handle whose write outcome is unknown never changes the file again.
BrokenIsFinal == (h.broken /\ counts'.other = counts.other) => UNCHANGED inode

\* tell() of an appending handle is the end of its last append plus what it
\* still buffers, wherever other clients moved the end of the file.
AppendPosition ==
  (Appends /\ case.buffered /\ call = Idle /\ ~h.failed /\ ~h.broken) => h.loc = h.pos + Len(h.buffer)

\* Every descriptor open at the server is held by the handle, by the running
\* call or by the pool, which will close it.
DescriptorsOwned ==
  \A d \in fds : d.tok = h.fd \/ d.tok \in deferred \/ (call.at \in {"check", "drop"} /\ call.tok = d.tok)

-----------------------------------------------------------------------------
(* The persistent block cache of the fsspec adapter (_blockcache.py,         *)
(* _caching.py) for one remote file: processes share a writable storage of   *)
(* metadata and backing files under a file lock, and may have a read-only    *)
(* seed with the complete file before it.  Open readers fill their backing   *)
(* file without the lock.                                                    *)

CONSTANTS Procs, Handles, Blocks,
          MaxGens, MaxVersion, BlockMaxFaults

VARIABLES ver,        \* the version of the remote file
          check,      \* check_files
          seed,       \* whether the read-only location has a complete record
          hidden,     \* hidden[p]: the seed's generation is invalidated in p
          disk,       \* the writable record: [gen, file, blocks, uid, ok], gen -1 if none
          files,      \* the backing files that have a name: [own, plain], plain
                      \* the one under fsspec's name for the path, -1 if none
          blockData,  \* blockData[f][b]: the version of the bytes of block b in f, 0 for zeros
          gens,       \* generations and files made
          holder,     \* the process that holds the storage lock, or 0
          pc, job,    \* job[p]: [rec, file, start, old, opened] of the open under way
          handle,     \* handle[h]: [p, gen, file, blocks, start, opened], p 0 if free
          mutating,   \* mutating[p]: "no", "write" or "after"
          acked,      \* acked[p]: the version p's finished mutations left behind
          revived,    \* ghost: files of a stale generation that an open behind
                      \* a seed has made valid again
          faults

blockVars == <<ver, check, seed, hidden, disk, files, blockData, gens, holder, pc, job, handle, mutating, acked, revived, faults>>

NoRecord == [gen |-> -1, file |-> -1, blocks |-> {}, uid |-> 0, ok |-> FALSE]
NoJob == [rec |-> NoRecord, file |-> -1, start |-> 0, old |-> -1, opened |-> 0]
Free == [p |-> 0, gen |-> -1, file |-> -1, blocks |-> {}, start |-> 0, opened |-> 0]
Seed == [gen |-> 0, file |-> 0, blocks |-> Blocks, uid |-> 1, ok |-> TRUE]
BlockFault == faults < BlockMaxFaults /\ faults' = faults + 1

BlockInit ==
  /\ ver = 1 /\ check \in BOOLEAN /\ seed \in BOOLEAN /\ hidden = [p \in Procs |-> FALSE]
  /\ disk = NoRecord /\ files = [own |-> {}, plain |-> -1] /\ gens = 0 /\ revived = {}
  /\ blockData = [g \in 0..MaxGens |-> [b \in Blocks |-> IF g = 0 THEN 1 ELSE 0]]
  /\ holder = 0 /\ pc = [p \in Procs |-> "idle"] /\ job = [p \in Procs |-> NoJob]
  /\ handle = [hd \in Handles |-> Free]
  /\ mutating = [p \in Procs |-> "no"] /\ acked = [p \in Procs |-> 1] /\ faults = 0

\* _cache_lock: one process at a time has the storage.
Unlocked == holder = 0
Alive(p) == pc[p] # "dead"
Visible(p) == seed /\ ~hidden[p]
\* fsspec's own test of a record; the adapter also looks at its format.
Current(rec) == rec.gen >= 0 /\ (check => rec.uid = ver)
Valid(rec) == Current(rec) /\ rec.ok
Without(f) == [own |-> files.own \ {f}, plain |-> IF files.plain = f THEN -1 ELSE files.plain]

\* A handle that serves rec's blocks and fetches the others into f.
Opened(p, rec, f, start, opened) ==
  [p |-> p, gen |-> rec.gen, file |-> f, blocks |-> rec.blocks, start |-> start, opened |-> opened]
Start(p) == IF check THEN ver ELSE acked[p]
Serve(hd) == handle[hd] = Free
Fresh == [gen |-> gens + 1, file |-> gens + 1, blocks |-> {}, uid |-> ver, ok |-> TRUE]

\* The open goes on at "at" with rec, under the lock.
Begin(p, at, rec, f, old) ==
  /\ holder' = p /\ pc' = [pc EXCEPT ![p] = at]
  /\ job' = [job EXCEPT ![p] = [rec |-> rec, file |-> f, start |-> Start(p), old |-> old, opened |-> 0]]
  /\ UNCHANGED <<handle, disk, revived>>
\* A replacement of the record, with a backing file of its own.
Replace(p) == gens < MaxGens /\ gens' = gens + 1 /\ Begin(p, "alloc", Fresh, Fresh.file, disk.file)
UseRecord(p) == Begin(p, "open", disk, disk.file, -1) /\ UNCHANGED gens

\* _mark_compatible_cache: every scalar open of the path gives the writable
\* record the current format, whichever record it was served from.
Marked(rec) == [rec EXCEPT !.ok = @ \/ rec.gen >= 0]

\* _prepare_cache_records: the record found first, if it is valid.
VectorRecord(p) == IF ~Visible(p) /\ Valid(disk) THEN UseRecord(p) ELSE Replace(p)

\* open_many reloads the metadata under the lock.
OpenMany(p) ==
  /\ Unlocked /\ pc[p] = "idle"
  /\ IF Visible(p) /\ Valid(Seed)
     THEN /\ \E hd \in Handles : Serve(hd) /\ handle' = [handle EXCEPT ![hd] = Opened(p, Seed, 0, Start(p), ver)]
          /\ UNCHANGED <<holder, pc, job, gens, disk, revived>>
     ELSE VectorRecord(p)
  /\ UNCHANGED <<ver, check, seed, hidden, files, blockData, mutating, acked, faults>>

\* fsspec's own new record, under its name for the path.  CacheMetadata.save
\* merges it into a record that is there: the blocks and the file stay.
OwnRecord(p) ==
  /\ gens < MaxGens /\ gens' = gens + 1
  /\ LET f == IF files.plain = -1 THEN gens + 1 ELSE files.plain
     IN Begin(p, "make", IF disk.gen >= 0 THEN [disk EXCEPT !.gen = gens + 1, !.uid = ver, !.ok = FALSE]
                         ELSE [Fresh EXCEPT !.file = f, !.ok = FALSE], f, -1)

\* A scalar open.  _reset_stale_generation replaces a stale writable record
\* unless a seed precedes it; then fsspec takes the first record it finds
\* current, whatever its format, or makes its own.
Open(p) ==
  /\ Unlocked /\ pc[p] = "idle"
  /\ IF Visible(p) /\ Current(Seed)
     THEN /\ \E hd \in Handles : Serve(hd) /\ handle' = [handle EXCEPT ![hd] = Opened(p, Seed, 0, Start(p), ver)]
          /\ disk' = Marked(disk)
          /\ revived' = IF disk # Marked(disk) /\ ~check THEN revived \union {disk.file} ELSE revived
          /\ UNCHANGED <<holder, pc, job, gens>>
     ELSE IF IF Visible(p) THEN Current(disk) ELSE Valid(disk) THEN UseRecord(p)
     ELSE IF Visible(p) \/ disk.gen < 0 THEN OwnRecord(p)
     ELSE Replace(p)
  /\ UNCHANGED <<ver, check, seed, hidden, files, blockData, mutating, acked, faults>>

\* The published record names a backing file of its own.
NewRecord(j) == j.rec

\* _publish_generations: the backing file, then the metadata, then the old
\* generation's name goes.  A failure before the metadata is saved removes
\* what was made.
Failed(p) == BlockFault /\ pc' = [pc EXCEPT ![p] = "idle"] /\ holder' = 0 /\ job' = [job EXCEPT ![p] = NoJob]
Allocate(p) ==
  /\ pc[p] = "alloc"
  /\ \/ /\ files' = [files EXCEPT !.own = @ \union {job[p].file}] /\ pc' = [pc EXCEPT ![p] = "save"]
        /\ UNCHANGED <<holder, job, faults>>
     \/ Failed(p) /\ UNCHANGED files
  /\ UNCHANGED <<ver, check, seed, hidden, disk, blockData, gens, handle, mutating, acked, revived>>
Save(p) ==
  /\ pc[p] = "save"
  /\ \/ disk' = NewRecord(job[p]) /\ pc' = [pc EXCEPT ![p] = "retire"] /\ UNCHANGED <<files, holder, job, faults>>
     \/ Failed(p) /\ files' = Without(job[p].file) /\ UNCHANGED disk
  /\ UNCHANGED <<ver, check, seed, hidden, blockData, gens, handle, mutating, acked, revived>>
Retire(p) ==
  /\ pc[p] = "retire" /\ files' = Without(job[p].old) /\ pc' = [pc EXCEPT ![p] = "open"]
  /\ UNCHANGED <<ver, check, seed, hidden, disk, blockData, gens, holder, job, handle, mutating, acked, revived, faults>>

\* fsspec opens the remote file, makes the backing file if it is not there,
\* and then saves its record.
Make(p) ==
  /\ pc[p] = "make"
  /\ \/ /\ files' = [files EXCEPT !.plain = job[p].file] /\ pc' = [pc EXCEPT ![p] = "record"]
        /\ job' = [job EXCEPT ![p].opened = ver]
        /\ UNCHANGED <<holder, faults>>
     \/ Failed(p) /\ UNCHANGED files
  /\ UNCHANGED <<ver, check, seed, hidden, disk, blockData, gens, handle, mutating, acked, revived>>
Record(p) ==
  /\ pc[p] = "record"
  /\ \/ /\ disk' = job[p].rec /\ pc' = [pc EXCEPT ![p] = "open"]
        /\ revived' = IF disk.gen >= 0 THEN revived \union {disk.file, job[p].file} ELSE revived
        /\ UNCHANGED <<holder, job, faults>>
     \/ Failed(p) /\ UNCHANGED <<disk, revived>>
  /\ UNCHANGED <<ver, check, seed, hidden, files, blockData, gens, handle, mutating, acked>>

\* The remote file is opened, unless all blocks are there, and the record is
\* marked.  A vector's record has the format already.
OpenRemote(p) ==
  /\ pc[p] = "open"
  /\ \/ /\ \E hd \in Handles :
             Serve(hd) /\ handle' = [handle EXCEPT ![hd] =
               Opened(p, job[p].rec, job[p].file, job[p].start, IF job[p].opened = 0 THEN ver ELSE job[p].opened)]
        /\ disk' = Marked(disk)
        /\ pc' = [pc EXCEPT ![p] = "idle"] /\ holder' = 0 /\ job' = [job EXCEPT ![p] = NoJob] /\ UNCHANGED faults
     \/ Failed(p) /\ UNCHANGED <<handle, disk>>
  /\ UNCHANGED <<ver, check, seed, hidden, files, blockData, gens, mutating, acked, revived>>

\* A reader fetches a missing block into its backing file, from the file as it
\* was opened or as it is now; a short answer is refused.
Fetch(hd, b) ==
  /\ handle[hd].p # 0 /\ b \notin handle[hd].blocks
  /\ \E v \in handle[hd].opened..ver : blockData' = [blockData EXCEPT ![handle[hd].file][b] = v]
  /\ handle' = [handle EXCEPT ![hd].blocks = @ \union {b}]
  /\ UNCHANGED <<ver, check, seed, hidden, disk, files, gens, holder, pc, job, mutating, acked, revived, faults>>

\* A handle commits its blocks only to its own generation.
SameGeneration(hd) == disk.gen > 0 /\ disk.gen = handle[hd].gen

\* Closing reloads the metadata and records the blocks, if saving succeeds.
BlockClose(hd) ==
  /\ handle[hd].p # 0 /\ Unlocked
  /\ \/ SameGeneration(hd) /\ disk' = [disk EXCEPT !.blocks = handle[hd].blocks] /\ UNCHANGED faults
     \/ SameGeneration(hd) /\ BlockFault /\ UNCHANGED disk
     \/ ~SameGeneration(hd) /\ UNCHANGED <<disk, faults>>
  /\ handle' = [handle EXCEPT ![hd] = Free]
  /\ UNCHANGED <<ver, check, seed, hidden, files, blockData, gens, holder, pc, job, mutating, acked, revived>>

\* pop_from_cache: the record first, then the file.
Pop(p) ==
  /\ Unlocked /\ pc[p] = "idle" /\ disk.gen > 0
  /\ disk' = NoRecord /\ files' = Without(disk.file)
  /\ UNCHANGED <<ver, check, seed, hidden, blockData, gens, holder, pc, job, handle, mutating, acked, revived, faults>>

\* A seed's generation is hidden for good in this process.
HideSeed(p) == hidden' = [hidden EXCEPT ![p] = @ \/ seed]

\* Mutant: only what is cached at the call's start is invalidated.
BeforeOnly(p) == IF mutating[p] = "no" THEN HideSeed(p) /\ disk' = [disk EXCEPT !.ok = FALSE] ELSE UNCHANGED <<hidden, disk>>
\* _invalidate_registered_paths under the lock.
Invalidated(p) == HideSeed(p) /\ disk' = [disk EXCEPT !.ok = FALSE]

\* A mutation through p's filesystem invalidates before and after the write.
\* The process's other calls run meanwhile in other threads.
Mutate(p) ==
  /\ Alive(p)
  /\ \/ /\ mutating[p] = "no" /\ ver < MaxVersion /\ Unlocked /\ Invalidated(p)
        /\ mutating' = [mutating EXCEPT ![p] = "write"] /\ UNCHANGED <<ver, acked>>
     \/ /\ mutating[p] = "write" /\ ver < MaxVersion /\ ver' = ver + 1
        /\ mutating' = [mutating EXCEPT ![p] = "after"] /\ UNCHANGED <<hidden, disk, acked>>
     \/ /\ mutating[p] = "after" /\ Unlocked /\ Invalidated(p)
        /\ mutating' = [mutating EXCEPT ![p] = "no"] /\ acked' = [acked EXCEPT ![p] = ver] /\ UNCHANGED ver
  /\ UNCHANGED <<check, seed, files, blockData, gens, holder, pc, job, handle, revived, faults>>

\* Another client changes the file, which only check_files can notice.
Foreign ==
  /\ check /\ ver < MaxVersion /\ ver' = ver + 1
  /\ UNCHANGED <<check, seed, hidden, disk, files, blockData, gens, holder, pc, job, handle, mutating, acked, revived, faults>>

\* A process dies; its lock and its handles go with it, its files stay.
Crash(p) ==
  /\ Alive(p) /\ BlockFault
  /\ pc' = [pc EXCEPT ![p] = "dead"] /\ holder' = IF holder = p THEN 0 ELSE holder
  /\ handle' = [hd \in Handles |-> IF handle[hd].p = p THEN Free ELSE handle[hd]]
  /\ job' = [job EXCEPT ![p] = NoJob] /\ mutating' = [mutating EXCEPT ![p] = "no"]
  /\ UNCHANGED <<ver, check, seed, hidden, disk, files, blockData, gens, acked, revived>>

BlockNext ==
  \/ \E p \in Procs : OpenMany(p) \/ Open(p) \/ Make(p) \/ Record(p) \/ Allocate(p) \/ Save(p) \/ Retire(p) \/ OpenRemote(p) \/ Pop(p) \/ Mutate(p) \/ Crash(p)
  \/ \E hd \in Handles : BlockClose(hd) \/ \E b \in Blocks : Fetch(hd, b)
  \/ Foreign

BlockSpec == BlockInit /\ [][BlockNext]_blockVars
-----------------------------------------------------------------------------
\* The saved metadata never names a backing file that is not there, even after
\* a crash at any point of a replacement.
NamedExists == disk.gen > 0 => disk.file \in files.own \union {files.plain}

\* A block that the saved metadata lists was filled, and with bytes at least as
\* new as the record's uid, so a record whose uid is current is current.  The
\* exception is a stale record that a scalar open behind a stale seed merged
\* its own into (_reset_stale_generation returns at _blockcache.py:178).
RecordedFilled ==
  (disk.ok /\ disk.file \notin revived) => \A b \in disk.blocks : blockData[disk.file][b] >= disk.uid

\* A reader never serves bytes older than the file as it was found at its open
\* (check_files) or as the process's own finished mutations left it.  The
\* exception is the generation that a mutation invalidated and the open of
\* another process, which still sees a seed, marked compatible again
\* (_blockcache.py:240), or merged its record into.
ReadersFresh ==
  \A hd \in Handles : (handle[hd].p # 0 /\ handle[hd].file \notin revived) =>
    \A b \in handle[hd].blocks : blockData[handle[hd].file][b] >= handle[hd].start

=============================================================================
