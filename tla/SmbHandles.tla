----------------------------- MODULE SmbHandles -----------------------------
(* Who owns the SMB file ids of one client (crates/vfsi-smb: connection.rs, *)
(* handles.rs, vector.rs, protocol.rs).  An id the server handed out lives  *)
(* in open_files under a descriptor, in the queue deferred_closes after its *)
(* CLOSE failed, or in the operation that opened it for one transfer.  A    *)
(* reply can be lost with its request ("lost") or after the server acted on *)
(* it ("late"), and the session can die; a stat or a fresh directory open   *)
(* then reconnects, and the ids of the old session mean nothing any more.   *)
(* The client keeps them all the same, without a mark of their session, and *)
(* the server may hand out the same ids again.                              *)
EXTENDS Sequences, FiniteSets, SequencesExt, FiniteSetsExt, Integers

CONSTANTS Ids,        \* file ids the server hands out (numbers)
          MaxFds,     \* the descriptor numbers wrap here (i32::MAX in the code)
          MaxFaults,  \* replies lost in a behaviour
          Ambiguous,  \* whether a lost reply may belong to an executed request
          Dies        \* whether a lost reply may take the session with it

VARIABLES live,      \* ids open at the server in the present session
          known,     \* ids whose CREATE reply reached the client and whose CLOSE was not confirmed
          files,     \* open_files: descriptor -> id
          nextFd,    \* next_fd
          deferred,  \* deferred_closes
          up,        \* the session works
          faults,
          held,      \* descriptors handed to the caller, never given to a scalar close nor closed by a vector
          armed,     \* descriptors whose owner has not seen a successful close
          pc,        \* "idle", or "create" once vopen drained the queue, or "down" after shutdown
          closed,    \* ids whose CLOSE was confirmed and that were not handed out again
          failed,    \* ids whose CLOSE failed during shutdown
          reissued   \* ids handed out while the client still held them from before
vars == <<live, known, files, nextFd, deferred, up, faults, held, armed, pc, closed, failed,
          reissued>>

Fds == 1..MaxFds
Lossy == {"lost", "late"}

TypeOK ==
    /\ live \subseteq Ids /\ known \subseteq Ids /\ closed \subseteq Ids /\ failed \subseteq Ids
    /\ reissued \subseteq Ids
    /\ DOMAIN files \subseteq Fds /\ Range(files) \subseteq Ids
    /\ nextFd \in 0..MaxFds /\ deferred \in Seq(Ids)
    /\ up \in BOOLEAN /\ faults \in 0..MaxFaults
    /\ held \subseteq Fds /\ armed \subseteq Fds
    /\ pc \in {"idle", "create", "down"}

Init ==
    /\ live = {} /\ known = {} /\ closed = {} /\ failed = {} /\ reissued = {}
    /\ files = <<>> /\ nextFd = 0 /\ deferred = <<>>
    /\ up = TRUE /\ faults = 0
    /\ held = {} /\ armed = {} /\ pc = "idle"

Owned == Range(files) \cup Range(deferred)

(* What the network and the server may answer a request: "refused" is an    *)
(* error reply, and without a session every request fails before it is sent.*)
Answer(r, possible) ==
    CASE r = "ok" -> up /\ possible
      [] r = "refused" -> up
      [] r = "lost" -> TRUE
      [] r = "late" -> up /\ possible /\ Ambiguous

(* Faults are charged per call, and a lossy reply may end the session.      *)
Losses(r) == Cardinality({i \in DOMAIN r : r[i] \in Lossy})
Lossiness(losses) ==
    LET n == IF up THEN losses ELSE 0
    IN  /\ faults' = faults + n
        /\ faults' <= MaxFaults
        /\ up' \in IF n > 0 /\ Dies THEN BOOLEAN ELSE {up}

(* raw_close / close_on_connection_result for every owner in the domain of  *)
(* `of' at once: an id the server has open is closed, once; one it does not *)
(* know is refused.                                                         *)
Executed == {"ok", "late"}
LossySets(owners) == UNION {kSubset(n, owners) : n \in 0..(MaxFaults - faults)}
Once(of, done) == \A o, p \in done : of[o] = of[p] => o = p
CloseAnswers(of, open) ==
    IF ~up THEN {[o \in DOMAIN of |-> "lost"]}
    ELSE LET able == {o \in DOMAIN of : of[o] \in open}
             Missed(done, lossy) == {o \in able \ lossy : of[o] \notin {of[p] : p \in done}}
         IN  {[o \in DOMAIN of |->
                 IF o \in a[1] THEN IF o \in a[2] THEN "late" ELSE "ok"
                 ELSE IF o \in a[2] THEN "lost" ELSE "refused"] :
              a \in {x \in {d \in SUBSET able : Once(of, d)} \X LossySets(DOMAIN of) :
                     Missed(x[1], x[2]) = {} /\ (x[1] \cap x[2] = {} \/ Ambiguous)}}
Gone(of, r) == {of[o] : o \in {p \in DOMAIN of : r[p] \in Executed}}
Confirmed(r) == {o \in DOMAIN r : r[o] = "ok"}
Failing(r) == DOMAIN r \ Confirmed(r)
Image(of, owners) == {of[o] : o \in owners}
Each(ids) == [h \in ids |-> h]

(* CREATE for a sequence of requests; the ids are the server's choice: the  *)
(* smallest it has not open, or the smallest the client does not hold.      *)
Free(again) == Ids \ (live \cup (IF again THEN {} ELSE Owned))
CreateAnswers(n, again) ==
    {r \in [1..n -> {"ok", "refused", "lost", "late"}] :
        /\ \A i \in 1..n : Answer(r[i], TRUE)
        /\ up => faults + Losses(r) <= MaxFaults
        /\ Cardinality({i \in 1..n : r[i] \in Executed}) <= Cardinality(Free(again))}
Rank(x, S) == Cardinality({y \in S : y < x})
Created(r, again) ==
    LET made == {i \in DOMAIN r : r[i] \in Executed}
    IN  [i \in made |-> CHOOSE h \in Free(again) : Rank(h, Free(again)) = Rank(i, made)]
Issue(ids) == reissued' = reissued \cup (Range(ids) \cap Owned)

(* insert_fd: the next descriptor that is not in use; 0 stands for EMFILE.  *)
Insert(table, h) ==
    LET fs == table.files
        Step(k) == ((table.next + k - 1) % MaxFds) + 1
        k == CHOOSE k \in Fds : /\ Step(k) \notin DOMAIN fs
                                /\ \A j \in 1..k - 1 : Step(j) \in DOMAIN fs
    IN  IF DOMAIN fs = Fds THEN [table EXCEPT !.out = Append(@, 0)]
        ELSE [files |-> [f \in DOMAIN fs \cup {Step(k)} |-> IF f = Step(k) THEN h ELSE fs[f]],
              next |-> Step(k), out |-> Append(table.out, Step(k))]
InsertAll(ids) == FoldLeft(Insert, [files |-> files, next |-> nextFd, out |-> <<>>], ids)

(* drain_deferred_closes: close in order; the first failure keeps itself    *)
(* and everything behind it and fails the caller.                           *)
Retained(q, k) == SubSeq(q, k + 1, Len(q))

Drained(k) ==
    LET done == {deferred[i] : i \in 1..k}
        tried == IF k < Len(deferred) THEN Each({deferred[k + 1]}) ELSE <<>>
    IN  /\ k > 0 => up /\ done \subseteq live /\ Cardinality(done) = k
        /\ \E r \in CloseAnswers(tried, live \ done) :
             /\ Confirmed(r) = {}
             /\ live' = live \ (done \cup Gone(tried, r))
             /\ Lossiness(Losses(r))
        /\ known' = known \ done
        /\ closed' = closed \cup done
        /\ deferred' = Retained(deferred, k)

-----------------------------------------------------------------------------

(* vopen_outcomes_impl, first half: a failing drain fails the whole call    *)
(* before a CREATE is sent.                                                 *)
VOpenDrain ==
    /\ pc = "idle"
    /\ \E k \in 0..Len(deferred) :
            /\ Drained(k)
            /\ pc' = IF k = Len(deferred) THEN "create" ELSE "idle"
    /\ UNCHANGED <<files, nextFd, held, armed, failed, reissued>>

(* Second half: the CREATEs (concurrent for independent paths, one after    *)
(* the other up to the first error otherwise) and the registration of every *)
(* opened id; an id that finds no descriptor is closed, or kept for later.  *)
VOpenCreate ==
    /\ pc = "create"
    /\ \E n \in 1..2, ordered, again \in BOOLEAN : \E r \in CreateAnswers(n, again) :
         LET ids == Created(r, again)
             good == SelectSeq([i \in 1..n |-> i], LAMBDA i : r[i] = "ok")
             table == InsertAll([i \in DOMAIN good |-> ids[good[i]]])
             spare == {ids[good[i]] : i \in {i \in DOMAIN good : table.out[i] = 0}}
         IN  /\ ordered => \A i \in 1..n - 1 : r[i] = "ok"
             /\ \E c \in [spare -> {"ok", "lost"}] :
                  /\ \A h \in spare : Answer(c[h], TRUE)
                  /\ Lossiness(Losses(r) + Losses(c))
                  /\ live' = (live \cup Range(ids)) \ Confirmed(c)
                  /\ known' = (known \cup {ids[i] : i \in Range(good)}) \ Confirmed(c)
                  /\ closed' = (closed \ Range(ids)) \cup Confirmed(c)
                  /\ deferred' = deferred \o SetToSortSeq(Failing(c), <)
             /\ files' = table.files /\ nextFd' = table.next
             /\ Issue(ids)
             /\ held' = held \cup (Range(table.out) \ {0})
             /\ armed' = armed \cup (Range(table.out) \ {0})
    /\ pc' = "idle"
    /\ UNCHANGED failed

Without(f, fds) == [x \in DOMAIN f \ fds |-> f[x]]

(* close_impl: the descriptor goes first, so a failed CLOSE leaves the id   *)
(* in the queue and no descriptor behind.                                   *)
Close(fd) ==
    /\ pc = "idle" /\ fd \in DOMAIN files /\ fd \in armed
    /\ \E r \in CloseAnswers(Each({files[fd]}), live) :
         /\ live' = live \ Gone(Each({files[fd]}), r)
         /\ known' = known \ Confirmed(r) /\ closed' = closed \cup Confirmed(r)
         /\ deferred' = deferred \o SetToSeq(Failing(r))
         /\ Lossiness(Losses(r))
         /\ armed' = IF Failing(r) = {} THEN armed \ {fd} ELSE armed
    /\ files' = Without(files, {fd}) /\ held' = held \ {fd}
    /\ UNCHANGED <<nextFd, pc, failed, reissued>>

(* vclose_impl: every CLOSE is sent at once; only the confirmed ones leave  *)
(* the table.                                                               *)
VClose(fds) ==
    /\ pc = "idle" /\ fds # {} /\ fds \subseteq DOMAIN files \cap held
    /\ LET of == [fd \in fds |-> files[fd]]
       IN  \E r \in CloseAnswers(of, live) :
             /\ live' = live \ Gone(of, r)
             /\ known' = known \ Image(of, Confirmed(r))
             /\ closed' = closed \cup Image(of, Confirmed(r))
             /\ files' = Without(files, Confirmed(r))
             /\ held' = held \ Confirmed(r) /\ armed' = armed \ Confirmed(r)
             /\ Lossiness(Losses(r))
    /\ UNCHANGED <<nextFd, deferred, pc, failed, reissued>>

(* close_deferred, for an owner whose close failed: a descriptor still in   *)
(* the table is closed as above, otherwise the queue is drained.            *)
CloseDeferred(fd) ==
    /\ pc = "idle" /\ fd \in armed \ DOMAIN files
    /\ \E k \in 0..Len(deferred) :
            /\ Drained(k)
            /\ armed' = IF k = Len(deferred) THEN armed \ {fd} ELSE armed
    /\ UNCHANGED <<files, nextFd, held, pc, failed, reissued>>

(* An operation on paths: a compound or a copy opens one or two temporary   *)
(* ids and closes each of them; a CLOSE that failed in the compound and in  *)
(* its fallback leaves the id in the queue.                                 *)
Forgets(c) == <<>>
Retain(c) == SetToSortSeq(Failing(c), <)

Temporary ==
    /\ pc = "idle"
    /\ \E n \in 1..2, again \in BOOLEAN : \E r \in CreateAnswers(n, again) :
         LET ids == Created(r, again)
             mine == {ids[i] : i \in {i \in 1..n : r[i] = "ok"}}
         IN  \E c \in [mine -> {"ok", "lost", "late"}] :
               /\ \A h \in mine : Answer(c[h], TRUE)
               /\ Lossiness(Losses(r) + Losses(c))
               /\ Issue(ids)
               /\ live' = (live \cup Range(ids)) \ Gone(Each(mine), c)
               /\ known' = known \cup Failing(c)
               /\ closed' = (closed \ Range(ids)) \cup Confirmed(c)
               /\ deferred' = deferred \o Retain(c)
    /\ UNCHANGED <<files, nextFd, held, armed, pc, failed>>

(* stat, or a fresh directory open: reconnects a dead session and mounts    *)
(* the share again; the server forgets the ids of the old session.          *)
Reconnect ==
    /\ pc = "idle" /\ ~up
    /\ up' = TRUE /\ live' = {}
    /\ UNCHANGED <<known, files, nextFd, deferred, faults, held, armed, pc, closed, failed, reissued>>

(* shutdown_inner: close everything the client owns at once, then leave the *)
(* share, which closes what is left at the server.                          *)
ShutdownIds ==
    [o \in DOMAIN files \cup {-i : i \in DOMAIN deferred} |->
        IF o > 0 THEN files[o] ELSE deferred[-o]]

Shutdown ==
    /\ pc = "idle"
    /\ \E r \in CloseAnswers(ShutdownIds, live) :
         /\ Lossiness(Losses(r))
         /\ live' = live \ Gone(ShutdownIds, r)
         /\ known' = known \ Image(ShutdownIds, Confirmed(r))
         /\ closed' = closed \cup Image(ShutdownIds, Confirmed(r))
         /\ failed' = Image(ShutdownIds, Failing(r))
    /\ files' = <<>> /\ deferred' = <<>> /\ held' = {} /\ armed' = {}
    /\ pc' = "down"
    /\ UNCHANGED <<nextFd, reissued>>

Next ==
    \/ VOpenDrain \/ VOpenCreate \/ Temporary \/ Reconnect \/ Shutdown
    \/ \E fd \in Fds : Close(fd) \/ CloseDeferred(fd)
    \/ \E fds \in SUBSET Fds : VClose(fds)

Spec == Init /\ [][Next]_vars

-----------------------------------------------------------------------------
(* Ownership: an id that is open at the server and that the client was told *)
(* of has exactly one owner, a descriptor or a place in the queue, however  *)
(* creates, closes, copies and reconnects fail (deferred_closes).  An id    *)
(* handed out again while a descriptor or the queue still names it from     *)
(* before (another session, or a CLOSE whose reply was lost) has two.       *)
Owners(h) == Cardinality({fd \in DOMAIN files : files[fd] = h})
           + Cardinality({i \in DOMAIN deferred : deferred[i] = h})
OwnedOnce == pc # "down" => \A h \in (live \cap known) \ reissued : Owners(h) = 1

(* A confirmed CLOSE ends an id: neither the table nor the queue names it   *)
(* again, so no later drain or shutdown closes it a second time.  An id     *)
(* with two owners is excepted: the older one closes the file of the newer. *)
ConfirmedGone == closed \cap Owned \subseteq reissued

(* A descriptor the caller never gave to a scalar close stays in the table  *)
(* until a vector close of it is confirmed: a failed vclose can be retried. *)
HeldBacked == held \subseteq DOMAIN files

(* Shutdown asks the server to close every id the client ever learnt of and *)
(* still has open, those only the queue knew of included: what survives it  *)
(* is an id whose last CLOSE failed (shutdown_inner).                       *)
ShutdownCloses == pc = "down" => live \cap known \subseteq failed

-----------------------------------------------------------------------------
(* Vectors of renames, removals and mkdirs of the SMB backend (vfsi-smb:    *)
(* vector.rs, protocol.rs).  Items whose paths cannot meet are sent side by *)
(* side, the others one after the other.  The server folds case, follows    *)
(* links in the directories of a path, and removes an entry when the last   *)
(* handle that marked it for deletion is closed; a CLOSE that fails is      *)
(* retried later.                                                           *)

CONSTANTS Names, Ascii, \* components, and those the client can compare
          Fold,         \* [Names -> Names]: the server's case folding
          LinkTarget,   \* the directory every link names
          Starts,       \* namespaces at first
          Vectors       \* records [kind, items], an item a tuple of paths

VARIABLES ns,     \* [canonical path -> "none", "file", "dir", "link", "doomed"]
          dfs,    \* tree.is_dfs
          queue,  \* deferred_closes, by the entry the handle marked
          vector, call, nameFaults
nameVars == <<ns, dfs, queue, vector, call, nameFaults>>

Idle == [pc |-> "idle"]
NameInit ==
    /\ ns \in Starts /\ dfs \in BOOLEAN /\ queue = {} /\ vector \in Vectors
    /\ call = Idle /\ nameFaults = 0

-----------------------------------------------------------------------------
(* The server (external).  A path's directory is followed, its last         *)
(* component is not: of a link the operations take the link itself.         *)
Parent(n, path) ==
    LET dir == <<Fold[path[1]]>>
    IN  IF Len(path) = 1 THEN <<TRUE, <<>>>>
        ELSE IF n[dir] = "dir" THEN <<TRUE, dir>>
        ELSE IF n[dir] = "link" /\ n[LinkTarget] = "dir" THEN <<TRUE, LinkTarget>>
        ELSE <<FALSE, <<>>>>
Place(n, path) == Parent(n, path)[2] \o <<Fold[path[Len(path)]]>>
Reaches(n, path) == Parent(n, path)[1]
Below(n, p) == {q \in DOMAIN n : n[q] # "none" /\ Len(q) > Len(p) /\ SubSeq(q, 1, Len(p)) = p}

Refused(n) == [ok |-> FALSE, ns |-> n]
Made(n, path) ==
    IF Reaches(n, path) /\ n[Place(n, path)] = "none"
    THEN [ok |-> TRUE, ns |-> [n EXCEPT ![Place(n, path)] = "dir"]] ELSE Refused(n)
Moved(n, from, to) ==
    IF ~Reaches(n, from) \/ ~Reaches(n, to) THEN Refused(n)
    ELSE LET s == Place(n, from)
             d == Place(n, to)
             Back(q) == IF Len(q) >= Len(d) /\ SubSeq(q, 1, Len(d)) = d THEN s \o SubSeq(q, Len(d) + 1, Len(q)) ELSE q
             Inside(q, p) == Len(q) >= Len(p) /\ SubSeq(q, 1, Len(p)) = p
         IN  IF \/ n[s] \in {"none", "doomed"} \/ n[d] # "none" \/ Inside(d, s)
                \/ (Len(d) > Len(s) /\ n[s] = "dir")
             THEN Refused(n)
             ELSE [ok |-> TRUE, ns |-> [q \in DOMAIN n |->
                     IF Inside(q, s) THEN "none"
                     ELSE IF Inside(q, d) /\ Back(q) \in DOMAIN n THEN n[Back(q)] ELSE n[q]]]
(* delete_entry_create_request opens a link itself.                         *)
Opened(n, path) == Place(n, path)
Doomed(n, path) ==
    IF ~Reaches(n, path) THEN Refused(n)
    ELSE LET p == Opened(n, path)
         IN  IF n[p] \in {"none", "doomed"} \/ (n[p] = "dir" /\ Below(n, p) # {}) THEN Refused(n)
             ELSE [ok |-> TRUE, ns |-> [n EXCEPT ![p] = "doomed"]]
Applied(n, kind, item) ==
    CASE kind = "mkdir" -> Made(n, item[1])
      [] kind = "rename" -> Moved(n, item[1], item[2])
      [] OTHER -> LET d == Doomed(n, item[1])
                  IN  IF d.ok THEN [d EXCEPT !.ns = [n EXCEPT ![Opened(n, item[1])] = "none"]] ELSE d

-----------------------------------------------------------------------------
(* paths_are_independent                                                    *)
AllPaths(items) == FlattenSeq(items)
(* Mutant: names that differ in case only are taken for two names.          *)
ExactName(a, b) == a = b
SameName(a, b) == Fold[a] = Fold[b]
ComponentPrefix(a, b) == Len(a) <= Len(b) /\ \A i \in DOMAIN a : SameName(a[i], b[i])
AsciiPrefix(a, b) == ComponentPrefix(a, b)
Independent(paths) ==
    /\ \A i \in DOMAIN paths : \A k \in DOMAIN paths[i] : paths[i][k] \in Ascii
    /\ \A i, j \in DOMAIN paths : i < j => ~AsciiPrefix(paths[i], paths[j]) /\ ~AsciiPrefix(paths[j], paths[i])

(* vrename_impl, vremove_impl, vmkdir_impl                                  *)
Begin ==
    /\ call.pc = "idle"
    /\ call' = [pc |-> "run", todo |-> DOMAIN vector.items, results |-> [i \in DOMAIN vector.items |-> "none"],
                aside |-> Len(vector.items) > 1 /\ ~dfs /\ Independent(AllPaths(vector.items)),
                before |-> ns, quiet |-> TRUE, failed |-> {}, error |-> 0]
    /\ UNCHANGED <<ns, dfs, queue, vector, nameFaults>>

Answered(c, i, ok) ==
    [c EXCEPT !.todo = IF c.aside \/ ok THEN @ \ {i} ELSE {}, !.results[i] = IF ok THEN "ok" ELSE "failed"]
Turn(i) == i \in call.todo /\ (call.aside \/ \A j \in call.todo : i <= j)

(* One item: the server's answer, or a reply that is lost after or before   *)
(* the operation.                                                           *)
Item(i) ==
    /\ call.pc = "run" /\ Turn(i)
    /\ LET a == Applied(ns, vector.kind, vector.items[i])
       IN  ns' = a.ns /\ call' = Answered(call, i, a.ok)
    /\ UNCHANGED <<dfs, queue, vector, nameFaults>>
ItemLost(i) ==
    /\ call.pc = "run" /\ Turn(i) /\ nameFaults < MaxFaults /\ nameFaults' = nameFaults + 1
    /\ ns' \in {ns, Applied(ns, vector.kind, vector.items[i]).ns}
    /\ call' = [Answered(call, i, FALSE) EXCEPT !.quiet = FALSE]
    /\ UNCHANGED <<dfs, queue, vector>>

(* delete_entry_on_connection whose CLOSE, and the CLOSE sent after it,     *)
(* fail: the entry waits for its handle.                                    *)
CloseConfirmed == FALSE
Queued(p) == {p}
DeferredClose(p) == Queued(p)
RemoveUnclosed(i) ==
    /\ call.pc = "run" /\ vector.kind = "remove" /\ Turn(i) /\ nameFaults < MaxFaults /\ nameFaults' = nameFaults + 1
    /\ LET d == Doomed(ns, vector.items[i][1])
       IN  /\ d.ok /\ ns' = d.ns
           /\ queue' = queue \cup DeferredClose(Opened(ns, vector.items[i][1]))
           /\ call' = [Answered(call, i, CloseConfirmed) EXCEPT !.quiet = FALSE]
    /\ UNCHANGED <<dfs, vector>>

(* The first failed item is reported, in the order of the vector.           *)
FirstFailed(results) ==
    LET bad == {i \in DOMAIN results : results[i] = "failed"}
    IN  IF bad = {} THEN 0 ELSE CHOOSE i \in bad : \A j \in bad : i <= j
Reported(results) == FirstFailed(results)
Finish ==
    /\ call.pc = "run" /\ call.todo = {}
    /\ call' = [call EXCEPT !.pc = "done", !.error = Reported(call.results)]
    /\ UNCHANGED <<ns, dfs, queue, vector, nameFaults>>
Return ==
    /\ call.pc = "done" /\ call' = Idle
    /\ UNCHANGED <<ns, dfs, queue, vector, nameFaults>>

(* drain_deferred_closes of a later call: the entries go with their handles.*)
Drain ==
    /\ call.pc = "idle" /\ queue # {} /\ queue' = {}
    /\ ns' = [p \in DOMAIN ns |-> IF p \in queue THEN "none" ELSE ns[p]]
    /\ UNCHANGED <<dfs, vector, call, nameFaults>>

NameNext == Begin \/ Finish \/ Return \/ Drain
            \/ \E i \in 1..Len(vector.items) : Item(i) \/ ItemLost(i) \/ RemoveUnclosed(i)
NameSpec == NameInit /\ [][NameNext]_nameVars

-----------------------------------------------------------------------------
Done == call.pc = "done"
(* The items one after the other.                                           *)
InOrder ==
    LET after[i \in 0..Len(vector.items)] ==
          IF i = 0 THEN [ok |-> TRUE, ns |-> call.before]
          ELSE LET p == after[i - 1] IN IF p.ok THEN Applied(p.ns, vector.kind, vector.items[i]) ELSE p
    IN  after[Len(vector.items)]
ThroughLink ==
    \E k \in DOMAIN AllPaths(vector.items) :
        LET p == AllPaths(vector.items)[k] IN Len(p) > 1 /\ call.before[<<Fold[p[1]]>>] = "link"

(* A vector that succeeds item after item succeeds, and leaves the same     *)
(* names, though its items were sent side by side.                          *)
OrderedBatch == Done /\ call.quiet /\ InOrder.ok => call.error = 0 /\ ns = InOrder.ns
OrderKept == Done /\ ~ThroughLink => OrderedBatch

(* The error names an item that failed, and every item before it was        *)
(* carried out.                                                             *)
FirstError ==
    Done /\ call.error # 0 =>
        call.results[call.error] = "failed" /\ \A j \in 1..(call.error - 1) : call.results[j] = "ok"

(* A removal reported as done is done: the entry is not merely marked.      *)
RemovedGone ==
    Done /\ vector.kind = "remove" /\ call.error = 0 /\ ~ThroughLink =>
        \A i \in DOMAIN vector.items : LET p == vector.items[i][1] IN Reaches(ns, p) => ns[Place(ns, p)] = "none"

(* Removing a link leaves the directory it names, and what is in it.        *)
TargetKept ==
    Done /\ vector.kind = "remove" /\ ~ThroughLink
    /\ (\A i \in DOMAIN vector.items : Fold[vector.items[i][1][1]] # LinkTarget[1]) =>
        \A q \in {LinkTarget} \cup Below(call.before, LinkTarget) : ns[q] = call.before[q]

(* An entry marked for deletion has its handle in the queue that will close *)
(* it: none stays half removed for good.                                    *)
DoomedQueued == \A p \in DOMAIN ns : ns[p] = "doomed" => p \in queue
=============================================================================
