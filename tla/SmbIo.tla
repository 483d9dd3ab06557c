-------------------------------- MODULE SmbIo -------------------------------
(* Vector reads and writes of the SMB backend (crates/vfsi-smb: io.rs,      *)
(* vread_impl and vwrite_impl of vector.rs, the compounds of protocol.rs).  *)
(* A vector of path requests that fit one message each runs as concurrent   *)
(* compounds, writes only after the server named distinct objects for all   *)
(* of them; any other vector runs one request at a time, in chunks of at    *)
(* most MaxIo bytes.  A reply may be lost before ("lost") or after ("late") *)
(* the server acted, alone or with the session.                             *)
EXTENDS FileBytes, FiniteSets, SequencesExt, Naturals, Sequences

CONSTANTS Vectors,    \* the calls: [kind, ops], an op is [on, off, at, len, trunc]
          Names,      \* what the paths name at the start: path -> object, 0 for nothing
          MaxIo,      \* negotiated MaxReadSize and MaxWriteSize
          MaxFaults

Handle == "h"         \* the one open descriptor; it stays on object 1
Own == 7              \* names the bytes that are there before the call

VARIABLES call, names, data, cur, append,
          up, faults,
          pc,         \* "start", "identify", "jobs", "open", "chunk", "flush", "again", "done"
          i,          \* the request in work, when one at a time
          at,         \* its resolved offset
          got,        \* bytes of it done so far
          reply,      \* per request: <<>> before it has run, else [ok, at, count, bytes]
          sent,       \* per request: the byte ranges the server wrote, in order
          deaths      \* sessions lost so far
vars == <<call, names, data, cur, append, up, faults, pc, i, at, got, reply, sent, deaths>>
config == <<call, names, append>>

Ops == call.ops
N == Len(Ops)
None == [ok |-> FALSE, at |-> 0, count |-> 0, bytes |-> <<>>, run |-> FALSE]
Bad == [None EXCEPT !.run = TRUE]
Obj(op) == IF op.on = Handle THEN 1 ELSE names[op.on]
Exists(op) == Obj(op) # 0

Init ==
    /\ call \in Vectors /\ names \in Names /\ append \in BOOLEAN
    /\ data = [o \in 1..2 |-> [k \in 1..2 |-> <<Own, k>>]]
    /\ cur \in 0..1
    /\ up \in BOOLEAN
    /\ faults = (IF up THEN 0 ELSE 1) /\ deaths = faults
    /\ pc = "start" /\ i = 1 /\ at = 0 /\ got = 0
    /\ reply = [n \in 1..N |-> None]
    /\ sent = [n \in 1..N |-> <<>>]

(* The requests that may be sent side by side.                              *)
Concurrent ==
    /\ N > 1
    /\ \A n \in 1..N : /\ Ops[n].on # Handle /\ Ops[n].off = "at"
                       /\ Ops[n].len \in 1..MaxIo
                       /\ call.kind = "write" => ~Ops[n].trunc

Start ==
    /\ pc = "start"
    /\ pc' = IF Concurrent THEN IF call.kind = "write" THEN "identify" ELSE "jobs" ELSE "open"
    /\ UNCHANGED <<config, data, cur, up, faults, i, at, got, reply, sent, deaths>>

(* A message is lost, with or without its session; a dead session loses     *)
(* every message before it leaves.                                          *)
Drops ==
    /\ up /\ faults < MaxFaults /\ faults' = faults + 1
    /\ up' \in BOOLEAN
    /\ deaths' = IF up' THEN deaths ELSE deaths + 1
Loses == Drops \/ (~up /\ UNCHANGED <<up, faults, deaths>>)
Delivers == up /\ UNCHANGED <<up, faults, deaths>>

(* concurrent_file_identity for every request, then identities_are_         *)
(* independent: a lost answer or two equal identities serialise the vector. *)
Independent(ids) == \A m, n \in DOMAIN ids : ids[m] = ids[n] => m = n

\* concurrent_file_identity: the file index a CREATE and QUERY_INFO of the path report.
Identity(op) == Obj(op)

Identify ==
    /\ pc = "identify"
    /\ \/ /\ Delivers
          /\ pc' = IF (\A n \in 1..N : Exists(Ops[n])) /\ Independent([n \in 1..N |-> Identity(Ops[n])])
                   THEN "jobs" ELSE "open"
       \/ Loses /\ pc' = "open"
    /\ UNCHANGED <<config, data, cur, i, at, got, reply, sent>>

-----------------------------------------------------------------------------
(* The server's side of a write of bytes from.. of request n at offset off. *)
Land(n, off, from, count) ==
    /\ data' = [data EXCEPT ![Obj(Ops[n])] = Put(@, off, n, from, count)]
    /\ sent' = [sent EXCEPT ![n] = Append(@, <<from, count>>)]

(* One compound of a concurrent vector, in any order.  It fails when the    *)
(* path names nothing or a message is lost.                                 *)
JobFails(n) ==
    /\ (~Exists(Ops[n]) /\ Delivers) \/ Loses
    /\ reply' = [reply EXCEPT ![n] = Bad] /\ UNCHANGED <<data, sent>>

(* concurrent_compound_read: CREATE, READ, CLOSE.                           *)
ReadJob(n) ==
    LET op == Ops[n] IN
    /\ pc = "jobs" /\ ~reply[n].run /\ call.kind = "read"
    /\ \/ JobFails(n)
       \/ /\ Exists(op) /\ Delivers
          /\ reply' = [reply EXCEPT ![n] = [ok |-> TRUE, at |-> op.at, run |-> TRUE,
                          bytes |-> Slice(data[Obj(op)], op.at, op.len), count |-> 0]]
          /\ UNCHANGED <<data, sent>>
    /\ UNCHANGED <<config, cur, pc, i, at, got>>

(* concurrent_compound_write: CREATE, WRITE, FLUSH, CLOSE.  The write may   *)
(* stop short, and the reply may be lost after it.                          *)
WriteJob(n) ==
    LET op == Ops[n] IN
    /\ pc = "jobs" /\ ~reply[n].run /\ call.kind = "write"
    /\ \/ JobFails(n)
       \/ /\ Exists(op) /\ up
          /\ \E count \in 1..op.len :
               /\ Land(n, op.at, 0, count)
               /\ \/ /\ Delivers
                     /\ reply' = [reply EXCEPT ![n] = [ok |-> TRUE, at |-> op.at, run |-> TRUE,
                                     bytes |-> <<>>, count |-> count]]
                  \/ Drops /\ reply' = [reply EXCEPT ![n] = Bad]
    /\ UNCHANGED <<config, cur, pc, i, at, got>>

FirstError ==
    /\ pc = "jobs" /\ \A n \in 1..N : reply[n].run
    /\ pc' = "done"
    /\ UNCHANGED <<config, data, cur, up, faults, i, at, got, reply, sent, deaths>>

(* All compounds answered: the first failure is the call's; a read vector   *)
(* that failed with its session is read again, request by request.          *)
Join ==
    /\ pc = "jobs" /\ \A n \in 1..N : reply[n].run
    /\ IF call.kind = "read" /\ ~up /\ \E n \in 1..N : ~reply[n].ok
       THEN pc' = "open" /\ reply' = [n \in 1..N |-> None]
       ELSE pc' = "done" /\ UNCHANGED reply
    /\ UNCHANGED <<config, data, cur, up, faults, i, at, got, sent, deaths>>

-----------------------------------------------------------------------------
(* One request at a time: read_one and write_one.                           *)
Op == Ops[i]
Fail ==
    /\ pc' = "done" /\ reply' = [reply EXCEPT ![i] = Bad]

Size == Len(data[Obj(Op)])
(* resolve_offset; a descriptor opened for append always writes at the end. *)
Resolved ==
    CASE Op.on = Handle /\ append /\ call.kind = "write" -> Size
      [] Op.off = "cur" -> cur
      [] Op.off = "end" -> Size
      [] OTHER -> Op.at

(* The size of the end of a path comes from a stat, which revives a dead    *)
(* session.                                                                 *)
StatsEnd == Op.on # Handle /\ Op.off = "end"
Stat ==
    /\ pc = "open" /\ ~up /\ StatsEnd
    /\ up' = TRUE
    /\ UNCHANGED <<config, data, cur, faults, pc, i, at, got, reply, sent, deaths>>

(* Offset and CREATE.  A path is opened, and truncated when asked to.       *)
Truncated == IF Op.trunc THEN [data EXCEPT ![Obj(Op)] = <<>>] ELSE data
Open ==
    /\ pc = "open" /\ (StatsEnd => up)
    /\ \/ /\ Exists(Op) /\ Delivers
          /\ at' = Resolved /\ got' = 0 /\ pc' = "chunk"
          /\ data' = Truncated
          /\ UNCHANGED reply
       \/ /\ ~Exists(Op) /\ Delivers /\ Fail /\ UNCHANGED <<at, got, data>>
       \/ /\ Loses
          /\ data' \in {data} \cup {Truncated : n \in {n \in {1} : up /\ Exists(Op)}}
          /\ IF call.kind = "read" /\ Op.on # Handle /\ ~up'
             THEN pc' = "again" /\ got' = 0 /\ UNCHANGED <<reply, at>>
             ELSE Fail /\ UNCHANGED <<at, got>>
    /\ UNCHANGED <<config, cur, i, sent>>

(* The retry of a path read: a stat reconnects, then the same range once    *)
(* more; a second failure is the caller's.                                  *)
Again ==
    /\ pc = "again"
    /\ IF Exists(Op)
       THEN /\ up' = TRUE
            /\ \E ok \in {TRUE} \cup {b \in {FALSE} : faults < MaxFaults} :
                 /\ faults' = IF ok THEN faults ELSE faults + 1
                 /\ IF ok THEN /\ pc' = IF i = N THEN "done" ELSE "open"
                               /\ i' = IF i = N THEN i ELSE i + 1
                               /\ reply' = [reply EXCEPT ![i] = [ok |-> TRUE, at |-> Resolved, run |-> TRUE,
                                     bytes |-> Slice(data[Obj(Op)], Resolved, Op.len), count |-> 0]]
                          ELSE Fail /\ UNCHANGED i
       ELSE Fail /\ UNCHANGED <<up, faults, i>>
    /\ got' = 0
    /\ UNCHANGED <<config, data, cur, at, sent, deaths>>

Finish(r) ==
    /\ reply' = [reply EXCEPT ![i] = r]
    /\ pc' = IF i = N THEN "done" ELSE "open"
    /\ i' = IF i = N THEN i ELSE i + 1

(* raw_read: whole chunks until the range, or the file, ends.  The cursor   *)
(* moves only for a read at the cursor.                                     *)
ReadChunk ==
    /\ pc = "chunk" /\ call.kind = "read"
    /\ LET piece == Slice(data[Obj(Op)], at + got, IF Op.len - got < MaxIo THEN Op.len - got ELSE MaxIo)
       IN  \/ /\ Delivers
              /\ IF Len(piece) < MaxIo \/ got + Len(piece) = Op.len
                 THEN /\ Finish([ok |-> TRUE, at |-> at, run |-> TRUE, count |-> 0,
                                 bytes |-> Slice(data[Obj(Op)], at, got + Len(piece))])
                      /\ cur' = IF Op.off = "cur" THEN at + got + Len(piece) ELSE cur
                      /\ got' = 0
                 ELSE got' = got + Len(piece) /\ UNCHANGED <<reply, pc, i, cur>>
           \/ /\ Drops /\ UNCHANGED <<i, cur>>
              /\ IF Op.on # Handle /\ ~up'
                 THEN pc' = "again" /\ got' = 0 /\ UNCHANGED reply
                 ELSE Fail /\ UNCHANGED got
    /\ UNCHANGED <<config, data, at, sent>>

(* The cursor after a write: it counts what the server confirmed, also when *)
(* the write then failed.                                                   *)
Confirmed(done) == at + done
Cursor(done) ==
    IF Op.on = Handle /\ (append \/ Op.off # "at") THEN Confirmed(done) ELSE cur

(* raw_write_progress, or the one WRITE of a compound: up to MaxIo bytes,   *)
(* of which the server may take fewer.  Nothing is ever sent again: a lost  *)
(* answer ends the call.                                                    *)
Resends == IF up' THEN pc' = "chunk" /\ UNCHANGED <<reply, cur, got>>
           ELSE Fail /\ cur' = Cursor(got) /\ UNCHANGED got
Ends == Fail /\ cur' = Cursor(got) /\ UNCHANGED got

WriteChunk ==
    /\ pc = "chunk" /\ call.kind = "write" /\ got < Op.len
    /\ \/ /\ Drops /\ UNCHANGED <<data, sent>>
          /\ Ends
       \/ \E count \in 1..(IF Op.len - got < MaxIo THEN Op.len - got ELSE MaxIo) :
             /\ up /\ Land(i, at + got, got, count)
             /\ \/ /\ Delivers /\ got' = got + count
                   \* a path that fits one compound reports the short count
                   /\ pc' = IF got + count = Op.len \/ (Op.on # Handle /\ Op.len <= MaxIo)
                            THEN "flush" ELSE "chunk"
                   /\ cur' = IF pc' = "flush" THEN Cursor(got + count) ELSE cur
                   /\ UNCHANGED reply
                \/ Drops /\ Ends
    /\ UNCHANGED <<config, i, at>>

(* FLUSH and CLOSE: their failure fails a request whose bytes are written.  *)
Flush ==
    /\ \/ pc = "flush"
       \/ pc = "chunk" /\ call.kind = "write" /\ Op.len = 0
    /\ \/ /\ Delivers
          /\ Finish([ok |-> TRUE, at |-> at, run |-> TRUE, bytes |-> <<>>, count |-> got])
          /\ got' = IF i = N THEN got ELSE 0
       \/ Drops /\ Fail /\ UNCHANGED <<i, got>>
    /\ UNCHANGED <<config, data, cur, at, sent>>

Done == pc = "done" /\ UNCHANGED vars

Next ==
    \/ Start \/ Identify \/ Join \/ Stat \/ Open \/ Again
    \/ ReadChunk \/ WriteChunk \/ Flush \/ Done
    \/ \E n \in 1..N : ReadJob(n) \/ WriteJob(n)
Spec == Init /\ [][Next]_vars

-----------------------------------------------------------------------------
Success == pc = "done" /\ \A n \in 1..N : reply[n].ok

(* The contents after the first n requests, one after the other, with the   *)
(* counts the call reported.                                                *)
After[n \in 0..3] ==
    IF n = 0 THEN [o \in 1..2 |-> [k \in 1..2 |-> <<Own, k>>]]
    ELSE LET op == Ops[n]
             base == IF op.trunc THEN [After[n - 1] EXCEPT ![Obj(op)] = <<>>] ELSE After[n - 1]
         IN  [base EXCEPT ![Obj(op)] = Put(@, reply[n].at, n, 0, reply[n].count)]

(* A write vector that succeeds leaves what its requests leave one after    *)
(* the other, whether they ran side by side or not, also when two paths     *)
(* name one object (vwrite_impl, concurrent_file_identity).                 *)
SequentialWrites == Success /\ call.kind = "write" => data = After[N]

(* No byte of a request is written twice, whatever replies are lost: only   *)
(* reads are repeated after a reconnect (write_one, compound_write_path).   *)
NeverReplayed ==
    \A n \in 1..N : \A a, b \in DOMAIN sent[n] :
        a < b => sent[n][a][1] + sent[n][a][2] <= sent[n][b][1]

(* After a write at the cursor, failed or not, the bytes between the offset *)
(* it started at and the cursor are its own: a caller that goes on from the *)
(* cursor leaves no gap of bytes the server did not take (write_one).       *)
CursorCoversWritten ==
    pc = "done" /\ call.kind = "write" /\ Op.on = Handle /\ (append \/ Op.off # "at") /\ got # 0
    => /\ cur <= Len(data[1])
       /\ \A k \in at + 1..cur : data[1][k][1] = i

(* A read vector whose paths all exist survives the loss of one session     *)
(* (read_one, the fallback of vread_impl), and what it returns are the      *)
(* bytes of the requested ranges in the order of the requests.              *)
ReadsSurvive ==
    pc = "done" /\ call.kind = "read" /\ faults <= 1 /\ deaths = faults
      /\ (\A n \in 1..N : Exists(Ops[n]) /\ Ops[n].on # Handle)
    => \A n \in 1..N : /\ reply[n].ok
                       /\ reply[n].bytes = Slice(data[Obj(Ops[n])], reply[n].at, Ops[n].len)

-----------------------------------------------------------------------------
(* Pages of one SMB directory (crates/vfsi-smb: directory.rs and            *)
(* directory/reader.rs).  A cursor retains an open directory; entries that  *)
(* the server reports as directories may be Unix symlinks, so each of them  *)
(* is probed by path, between two checks that the path still names the      *)
(* retained directory.  Meanwhile other clients move directories about and  *)
(* the session can die and be replaced, after which the server may hand out *)
(* the same file ids for other directories.                                 *)

CONSTANTS Listing,     \* the entries of a directory in the server's order
          Truth,       \* directory -> name -> "dir", "link" or "file"
          Paths,       \* places a directory can be at
          DirStart,       \* the place that is listed
          IndexClass,  \* whether the server knows FileIdBothDirectoryInformation
          MaxMoves, MaxDeaths, MaxIds

Dirs == DOMAIN Truth
Mine == 1                            \* the directory at Start in the beginning
Nowhere == 0
Real == SelectSeq(Listing, LAMBDA e : e # "dot")

VARIABLES where,     \* path -> directory
          handles,   \* the server's open ids of this session: id -> [dir, pos]
          session,   \* connection generation
          issued,    \* file ids handed out in this session
          dirUp,
          cursor,    \* the cursor in the caller's or the call's hands
          dirPc, size, page, complete,
          dirNames,     \* whether the server knows FileNormalizedNameInformation
          probe,     \* [path, id] the probes go through
          types,     \* what the page's entries were found to be
          retried,
          given,     \* ghost: entries of the pages returned for this cursor
          ended,     \* ghost: the last page was returned
          sentClose, \* ghost: CLOSE requests sent, per <<session, id>>
          inWindow,  \* ghost: moves since the first check of this page
          wrong,     \* ghost: moves in the window of a page that was returned with a wrong type
          moves, dirDeaths
dirVars == <<where, handles, session, issued, dirUp, cursor, dirPc, size, page, complete, dirNames, probe, types,
             retried, given, ended, sentClose, inWindow, wrong, moves, dirDeaths>>
ghosts == <<given, ended, wrong>>
world == <<where, moves>>
conn == <<session, issued, dirUp, dirDeaths>>

NoCursor == [open |-> FALSE, id |-> 0, session |-> 0, buffered |-> <<>>, restart |-> TRUE, index |-> TRUE]
NoProbe == [path |-> DirStart, id |-> 0]

DirInit ==
    /\ where = [p \in Paths |-> IF p = DirStart THEN Mine ELSE Nowhere]
    /\ handles = <<>> /\ issued = 0 /\ session = 1 /\ dirUp = TRUE
    /\ cursor = NoCursor
    /\ dirPc = "idle" /\ size = 1 /\ page = <<>> /\ complete = FALSE /\ dirNames \in BOOLEAN
    /\ probe = NoProbe /\ types = <<>> /\ retried = FALSE
    /\ given = <<>> /\ ended = FALSE /\ sentClose = <<>>
    /\ inWindow = 0 /\ wrong = {} /\ moves = 0 /\ dirDeaths = 0

-----------------------------------------------------------------------------
(* Other clients move a directory to another place, or put one there.       *)
Move ==
    /\ moves < MaxMoves
    /\ \E w \in [Paths -> Dirs \cup {Nowhere}] :
         /\ Cardinality({p \in Paths : w[p] # where[p]}) \in {1, 2}
         /\ \A p, q \in Paths : w[p] = w[q] /\ w[p] # Nowhere => p = q
         /\ \E p \in Paths : w[p] = Mine
         /\ where' = w
    /\ moves' = moves + 1 /\ inWindow' = inWindow + 1
    /\ UNCHANGED <<handles, conn, cursor, dirPc, size, page, complete, dirNames, probe, types, retried,
                   ghosts, sentClose>>

Die ==
    /\ dirUp /\ dirDeaths < MaxDeaths
    /\ dirUp' = FALSE /\ dirDeaths' = dirDeaths + 1
    /\ UNCHANGED <<world, handles, session, issued, cursor, dirPc, size, page, complete, dirNames, probe, types,
                   retried, ghosts, sentClose, inWindow>>

(* Another operation of the client replaces the dead session, and opens     *)
(* another directory under the first file id of the new one.                *)
Replace ==
    /\ ~dirUp /\ dirPc = "idle"
    /\ dirUp' = TRUE /\ session' = session + 1 /\ issued' = 1
    /\ \E d \in Dirs : handles' = [k \in {1} |-> [dir |-> d, pos |-> 0]]
    /\ UNCHANGED <<world, dirDeaths, cursor, dirPc, size, page, complete, dirNames, probe, types, retried,
                   ghosts, sentClose, inWindow>>

-----------------------------------------------------------------------------
(* CLOSE belongs to the session the id came from, and is sent once.         *)
Key == <<cursor.session, cursor.id>>
Count(f, k) == IF k \in DOMAIN f THEN f[k] ELSE 0
SendClose ==
    /\ sentClose' = [k \in DOMAIN sentClose \cup {Key} |-> Count(sentClose, k) + (IF k = Key THEN 1 ELSE 0)]
    /\ handles' = IF dirUp /\ cursor.session = session
                  THEN [k \in DOMAIN handles \ {cursor.id} |-> handles[k]] ELSE handles

(* A call that fails drops its cursor, and Drop sends the CLOSE that was    *)
(* not yet attempted.                                                       *)
DirFail ==
    /\ dirPc' = "idle" /\ cursor' = NoCursor
    /\ page' = <<>> /\ types' = <<>> /\ retried' = FALSE /\ complete' = FALSE
    /\ SendClose

Drop ==
    /\ dirPc = "idle" /\ cursor.open
    /\ SendClose /\ cursor' = NoCursor
    /\ UNCHANGED <<world, conn, dirPc, size, page, complete, dirNames, probe, types, retried, ghosts, inWindow>>

(* read_directory_page_with_policy: a fresh listing opens the directory, a  *)
(* cursor goes on.                                                          *)
Begin ==
    /\ dirPc = "idle"
    /\ size' \in 1..2
    /\ dirPc' = IF cursor.open THEN "fill" ELSE "open"
    /\ IF cursor.open THEN UNCHANGED <<given, ended>> ELSE given' = <<>> /\ ended' = FALSE
    /\ page' = <<>> /\ types' = <<>> /\ complete' = FALSE /\ retried' = FALSE
    /\ UNCHANGED <<world, handles, conn, cursor, dirNames, probe, sentClose, inWindow, wrong>>

(* DirectoryReader::open: CREATE; a session found dead is replaced once.    *)
Reopen ==
    /\ dirPc = "open" /\ ~dirUp /\ ~retried
    /\ dirUp' = TRUE /\ session' = session + 1 /\ issued' = 0 /\ handles' = <<>> /\ retried' = TRUE
    /\ UNCHANGED <<world, dirDeaths, cursor, dirPc, size, page, complete, dirNames, probe, types, ghosts,
                   sentClose, inWindow>>

Create ==
    /\ dirPc = "open"
    /\ IF dirUp /\ where[DirStart] # Nowhere
       THEN LET id == issued + 1
            IN  /\ id <= MaxIds /\ issued' = id
                /\ handles' = [k \in DOMAIN handles \cup {id} |->
                                 IF k = id THEN [dir |-> where[DirStart], pos |-> 0] ELSE handles[k]]
                /\ cursor' = [NoCursor EXCEPT !.open = TRUE, !.id = id, !.session = session]
                /\ dirPc' = "fill"
                /\ UNCHANGED <<page, types, retried, complete, sentClose>>
       ELSE /\ ~dirUp => retried
            /\ dirPc' = "idle" /\ retried' = FALSE
            /\ UNCHANGED <<cursor, handles, issued, page, types, complete, sentClose>>
    /\ UNCHANGED <<world, session, dirUp, dirDeaths, size, dirNames, probe, ghosts, inWindow>>

(* file_id: a cursor of another session is rejected before anything is sent.*)
SameSession == cursor.session = session
Usable == SameSession /\ dirUp
DirHandle == handles[cursor.id]

(* Buffered entries go to the page first ("." and ".." are skipped).        *)
Take ==
    /\ dirPc = "fill" /\ cursor.buffered # <<>> /\ Len(page) < size
    /\ cursor' = [cursor EXCEPT !.buffered = Tail(@)]
    /\ page' = IF Head(cursor.buffered).name = "dot" THEN page ELSE Append(page, Head(cursor.buffered))
    /\ UNCHANGED <<world, handles, conn, dirPc, size, complete, dirNames, probe, types, retried, ghosts,
                   sentClose, inWindow>>

(* next_batch: one QUERY_DIRECTORY.  A class the server does not know is    *)
(* replaced before the first batch.                                         *)
NextBatch ==
    /\ dirPc = "fill" /\ cursor.buffered = <<>> /\ Len(page) < size
    /\ IF ~Usable \/ cursor.id \notin DOMAIN handles
       THEN DirFail
       ELSE /\ UNCHANGED <<page, types, retried, sentClose>>
            /\ IF cursor.restart /\ cursor.index /\ ~IndexClass
               THEN cursor' = [cursor EXCEPT !.index = FALSE] /\ UNCHANGED <<handles, complete, dirPc>>
               ELSE IF DirHandle.pos = Len(Listing)
               THEN complete' = TRUE /\ dirPc' = "look" /\ UNCHANGED <<cursor, handles>>
               ELSE \E n \in DirHandle.pos + 1..Len(Listing) :
                      /\ cursor' = [cursor EXCEPT !.restart = FALSE,
                            !.buffered = [k \in 1..n - DirHandle.pos |->
                                [dir |-> DirHandle.dir, name |-> Listing[DirHandle.pos + k]]]]
                      /\ handles' = [handles EXCEPT ![cursor.id].pos = n]
                      /\ UNCHANGED <<complete, dirPc>>
    /\ UNCHANGED <<world, conn, size, dirNames, probe, ghosts, inWindow>>

Full ==
    /\ dirPc = "fill" /\ Len(page) = size /\ dirPc' = "look"
    /\ UNCHANGED <<world, handles, conn, cursor, size, page, complete, dirNames, probe, types, retried,
                   ghosts, sentClose, inWindow>>

-----------------------------------------------------------------------------
(* What the server says of an entry: a symlink to a directory looks like    *)
(* the directory.                                                           *)
Needs(e) == Truth[e.dir][e.name] \in {"dir", "link"}
NeedsProbe == \E k \in DOMAIN page : Needs(page[k])

(* current_path: the identity of the retained directory, and its present    *)
(* path, or the saved one with servers that do not tell.                    *)
CurrentPath ==
    /\ dirPc = "look" /\ NeedsProbe
    /\ IF ~Usable \/ cursor.id \notin DOMAIN handles THEN DirFail /\ UNCHANGED <<probe, inWindow>>
       ELSE IF dirNames /\ \A p \in Paths : where[p] # DirHandle.dir THEN DirFail /\ UNCHANGED <<probe, inWindow>>
       ELSE /\ probe' = [id |-> DirHandle.dir,
                         path |-> IF dirNames THEN CHOOSE p \in Paths : where[p] = DirHandle.dir ELSE DirStart]
            /\ dirPc' = "verify" /\ inWindow' = 0
            /\ UNCHANGED <<cursor, page, types, retried, complete, sentClose, handles>>
    /\ UNCHANGED <<world, conn, size, dirNames, ghosts>>

(* verify_probe_directory, before and after: ESTALE when the path names     *)
(* another directory, or none.                                              *)
StillThere == where[probe.path] = probe.id

Verify ==
    /\ dirPc = "verify"
    /\ IF dirUp /\ where[probe.path] = probe.id
       THEN /\ dirPc' = "probe" /\ inWindow' = 0
            /\ UNCHANGED <<cursor, page, types, retried, complete, sentClose, handles>>
       ELSE DirFail /\ UNCHANGED inWindow
    /\ UNCHANGED <<world, conn, size, dirNames, probe, ghosts>>

(* One probe, by path: whatever is there now answers.                       *)
Probe ==
    /\ dirPc = "probe" /\ Len(types) < Len(page)
    /\ LET e == page[Len(types) + 1]
           d == where[probe.path]
       IN  IF ~Needs(e)
           THEN /\ types' = Append(types, "file")
                /\ UNCHANGED <<dirPc, cursor, page, retried, complete, sentClose, handles>>
           ELSE IF dirUp /\ d # Nowhere
           THEN /\ types' = Append(types, IF Truth[d][e.name] = "link" THEN "link" ELSE "dir")
                /\ UNCHANGED <<dirPc, cursor, page, retried, complete, sentClose, handles>>
           ELSE DirFail
    /\ UNCHANGED <<world, conn, size, dirNames, probe, ghosts, inWindow>>

Recheck ==
    /\ dirPc = "probe" /\ Len(types) = Len(page)
    /\ IF dirUp /\ StillThere
       THEN /\ dirPc' = "finish"
            /\ UNCHANGED <<cursor, page, types, retried, complete, sentClose, handles>>
       ELSE DirFail
    /\ UNCHANGED <<world, conn, size, dirNames, probe, ghosts, inWindow>>

NoProbes ==
    /\ dirPc = "look" /\ ~NeedsProbe
    /\ types' = [k \in DOMAIN page |-> "file"]
    /\ dirPc' = "finish" /\ inWindow' = 0
    /\ UNCHANGED <<world, handles, conn, cursor, size, page, complete, dirNames, probe, retried, ghosts, sentClose>>

(* The page is returned; after the last one the directory is closed, and a  *)
(* CLOSE that fails then fails the call without being sent again.           *)
Spent == [cursor EXCEPT !.open = FALSE]
Kept == [cursor EXCEPT !.open = TRUE]
AfterClose == Spent

Return ==
    /\ dirPc = "finish"
    /\ given' = given \o [k \in DOMAIN page |-> <<page[k].dir, page[k].name>>]
    /\ wrong' = wrong \cup {inWindow : k \in {k \in DOMAIN page : types[k] # Truth[page[k].dir][page[k].name]}}
    /\ ended' = complete
    /\ IF complete THEN SendClose /\ cursor' = AfterClose
       ELSE UNCHANGED <<sentClose, handles, cursor>>
    /\ dirPc' = "idle" /\ page' = <<>> /\ types' = <<>> /\ complete' = FALSE /\ retried' = FALSE
    /\ UNCHANGED <<world, conn, size, dirNames, probe, inWindow>>

DirNext ==
    \/ Move \/ Die \/ Replace \/ Drop \/ Begin \/ Reopen \/ Create \/ Take \/ NextBatch \/ Full
    \/ CurrentPath \/ Verify \/ Probe \/ Recheck \/ NoProbes \/ Return
DirSpec == DirInit /\ [][DirNext]_dirVars

-----------------------------------------------------------------------------
(* The pages of one cursor list one directory, each entry once and in       *)
(* order, and the last page completes it: nothing is enumerated again, or   *)
(* from another directory, after the session was replaced                   *)
(* (DirectoryReader::file_id).                                              *)
PagedOnce ==
    /\ \E d \in Dirs : \A k \in DOMAIN given : k <= Len(Real) /\ given[k] = <<d, Real[k]>>
    /\ ended => Len(given) = Len(Real)

(* An entry of a returned page has its own type, never that of a namesake   *)
(* in a directory that took the place of the listed one, unless the listed  *)
(* directory was moved away and back between the two checks.                *)
TypesTrue == \A n \in wrong : n >= 2

(* A CLOSE is sent at most once for an id of a session, also when it failed *)
(* (DirectoryReader::close, Drop).                                          *)
ClosedOnce == \A k \in DOMAIN sentClose : sentClose[k] <= 1
=============================================================================
