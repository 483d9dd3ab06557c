------------------------------ MODULE CHandles ------------------------------
(* Descriptors of the C binding (bindings/c: handles.rs, io.rs and the      *)
(* results of lib.rs).  A filesystem handle holds two mutexes, one around   *)
(* the backend and one around the table of C descriptors; threads look a    *)
(* descriptor up under the second and use it under the first.  What the     *)
(* backend does with a vector of closes depends on the backend.             *)
EXTENDS Sequences, FiniteSets, SequencesExt, Integers

CONSTANTS Threads, Files,
          Kinds,      \* backends: "local", "nfs", "smb"
          MaxFd,      \* i32::MAX: C descriptors wrap to 1 after it
          MaxHandles, \* backend descriptors opened in a behaviour
          MaxFaults   \* backend calls that are refused, fail or panic

VARIABLES kind,
          table,      \* C descriptor -> [handle, file]
          nextFd,
          held,       \* backend descriptor -> file, as the backend keeps them
          nextHandle,
          owner,      \* the thread inside the backend mutex between two steps, or None
          poisoned,
          calls,      \* thread -> its call
          app,        \* descriptors the application holds: fd -> file
          lost,       \* ghost: handles a failed scalar close or clean-up or a full table gave up
          misrouted,  \* ghost: an operation reached another file than its descriptor's
          lied,       \* ghost: an element of a finished vector close was reported wrongly
          faults
vars == <<kind, table, nextFd, held, nextHandle, owner, poisoned, calls, app, lost, misrouted, lied, faults>>
backend == <<held, nextHandle>>
ctable == <<table, nextFd>>
ghosts == <<lost, misrouted, lied>>

None == "none"
Idle == [op |-> "none", pc |-> "idle", fds |-> <<>>, files |-> <<>>, handles |-> <<>>,
         drop |-> 0, items |-> <<>>]
Without(f, S) == [x \in DOMAIN f \ S |-> f[x]]
With(f, x, v) == [y \in DOMAIN f \cup {x} |-> IF y = x THEN v ELSE f[y]]
All(n, v) == [k \in 1..n |-> v]

Init ==
    /\ kind \in Kinds
    /\ table = <<>> /\ nextFd = 1 /\ held = <<>> /\ nextHandle = 1
    /\ owner = None /\ poisoned = FALSE
    /\ calls = [t \in Threads |-> Idle]
    /\ app = <<>> /\ lost = {} /\ misrouted = FALSE /\ lied = FALSE /\ faults = 0

Call(t, c) == calls' = [calls EXCEPT ![t] = c]
C(t) == calls[t]
Fault == faults < MaxFaults /\ faults' = faults + 1
InUse(fd) == \E t \in Threads : \E k \in DOMAIN C(t).fds : C(t).fds[k] = fd

(* result_array: every element starts as not attempted; fail_results marks  *)
(* all of a submitted vector indeterminate, and the failing one as failed.  *)
NotAttempted(n) == All(n, "not attempted")
FailResults(items, index, submitted) ==
    [k \in DOMAIN items |-> IF k = index THEN "failed"
                            ELSE IF submitted THEN "indeterminate" ELSE items[k]]
CompleteResults(n) == All(n, "success")

(* A close reported as done whose handle is still open.                     *)
Lie(handles, items) == \E k \in DOMAIN items : items[k] = "success" /\ handles[k] \in DOMAIN held

-----------------------------------------------------------------------------
(* vfsi_open and vfsi_openv                                                 *)
OpenBegin(t) ==
    /\ C(t).pc = "idle"
    /\ \E op \in {"open", "openv"} : \E files \in [1..(IF op = "open" THEN 1 ELSE 2) -> Files] :
         Call(t, [Idle EXCEPT !.op = op, !.pc = "open", !.files = files])
    /\ UNCHANGED <<kind, ctable, backend, owner, poisoned, app, ghosts, faults>>

IgnoresPoison == owner = None
Free == owner = None /\ ~poisoned
Opening(t) == C(t).pc = "open" /\ owner = None

OpenDone(t) ==
    /\ Opening(t) /\ Free
    /\ nextHandle + Len(C(t).files) - 1 <= MaxHandles
    /\ LET n == Len(C(t).files) IN
         /\ held' = [h \in DOMAIN held \cup (nextHandle..nextHandle + n - 1) |->
                       IF h \in DOMAIN held THEN held[h] ELSE C(t).files[h - nextHandle + 1]]
         /\ nextHandle' = nextHandle + n
         /\ Call(t, [C(t) EXCEPT !.pc = "register", !.handles = [k \in 1..n |-> nextHandle + k - 1]])
    /\ UNCHANGED <<kind, ctable, owner, poisoned, app, ghosts, faults>>

(* Refused, with everything the backend opened closed by it again; the      *)
(* mutex of a backend that panicked earlier refuses as well.                *)
OpenRefused(t) ==
    /\ Opening(t)
    /\ IF Free THEN Fault ELSE UNCHANGED faults
    /\ Call(t, Idle)
    /\ UNCHANGED <<kind, ctable, backend, owner, poisoned, app, ghosts>>

(* A reply with the same handle twice is not registered, and each distinct  *)
(* handle is closed once.                                                   *)
OpenInvalid(t) ==
    /\ Opening(t) /\ Free /\ Fault
    /\ C(t).op = "openv" /\ nextHandle <= MaxHandles
    /\ held' = With(held, nextHandle, C(t).files[1])
    /\ nextHandle' = nextHandle + 1
    /\ Call(t, [C(t) EXCEPT !.pc = "cleanup", !.handles = <<nextHandle, nextHandle>>])
    /\ UNCHANGED <<kind, ctable, owner, poisoned, app, ghosts>>

\* The closes are best effort: what is not closed is given up.
Cleanup(t) ==
    /\ C(t).pc = "cleanup" /\ owner = None
    /\ \E closed \in SUBSET Range(C(t).handles) :
         /\ IF poisoned THEN closed = {} /\ UNCHANGED faults
            ELSE IF closed = Range(C(t).handles) THEN UNCHANGED faults ELSE Fault
         /\ held' = Without(held, closed)
         /\ lost' = lost \cup (Range(C(t).handles) \ closed)
    /\ Call(t, Idle)
    /\ UNCHANGED <<kind, ctable, nextHandle, owner, poisoned, app, misrouted, lied>>

(* insert_c_file: the next descriptor that is not in the table, wrapping.   *)
InsertFd(tab, from) == CHOOSE fd \in 1..MaxFd : fd \notin DOMAIN tab
                          /\ \A e \in 1..MaxFd \ DOMAIN tab :
                               (IF fd >= from THEN fd - from ELSE fd + MaxFd - from)
                               <= (IF e >= from THEN e - from ELSE e + MaxFd - from)
After(fd) == IF fd = MaxFd THEN 1 ELSE fd + 1

\* The descriptors one after the other, under the table's mutex.  A vector that
\* does not fit takes its descriptors back, under the mutex again, and closes
\* its handles; a scalar open forgets its handle.
Register(t) ==
    /\ C(t).pc = "register"
    /\ LET n == Len(C(t).files)
           room == MaxFd - Cardinality(DOMAIN table)
           fit == IF room < n THEN room ELSE n
           Entry(k) == [handle |-> C(t).handles[k], file |-> C(t).files[k]]
           Insert(x, k) == LET fd == InsertFd(x.tab, x.next)
                           IN  [tab |-> With(x.tab, fd, Entry(k)), next |-> After(fd), fds |-> Append(x.fds, fd)]
           new == FoldLeft(Insert, [tab |-> table, next |-> nextFd, fds |-> <<>>], [k \in 1..fit |-> k])
       IN  /\ table' = new.tab /\ nextFd' = new.next
           /\ IF fit = n
              THEN /\ app' = [fd \in DOMAIN app \cup Range(new.fds) |->
                                IF fd \in Range(new.fds) THEN new.tab[fd].file ELSE app[fd]]
                   /\ Call(t, Idle) /\ UNCHANGED lost
              ELSE IF C(t).op = "openv"
              THEN Call(t, [C(t) EXCEPT !.pc = "unregister", !.fds = new.fds]) /\ UNCHANGED <<app, lost>>
              ELSE Call(t, Idle) /\ lost' = lost \cup Range(C(t).handles) /\ UNCHANGED app
    /\ UNCHANGED <<kind, backend, owner, poisoned, misrouted, lied, faults>>

Unregister(t) ==
    /\ C(t).pc = "unregister"
    /\ table' = Without(table, Range(C(t).fds))
    /\ Call(t, [C(t) EXCEPT !.pc = "cleanup", !.fds = <<>>])
    /\ UNCHANGED <<kind, nextFd, backend, owner, poisoned, app, ghosts, faults>>

-----------------------------------------------------------------------------
(* vfsi_close: the descriptor leaves the table before the handle is closed. *)
CloseBegin(t) ==
    /\ C(t).pc = "idle"
    /\ \E fd \in DOMAIN app :
         /\ ~InUse(fd)
         /\ Call(t, [Idle EXCEPT !.op = "close", !.pc = "close", !.fds = <<fd>>,
                       !.handles = <<table[fd].handle>>])
         /\ table' = Without(table, {fd})
         /\ app' = Without(app, {fd})
    /\ UNCHANGED <<kind, nextFd, backend, owner, poisoned, ghosts, faults>>

CloseDone(t) ==
    /\ C(t).pc = "close" /\ owner = None
    /\ \/ ~poisoned /\ held' = Without(held, Range(C(t).handles)) /\ UNCHANGED <<lost, faults>>
       \/ (IF poisoned THEN UNCHANGED faults ELSE Fault)
          /\ lost' = lost \cup Range(C(t).handles) /\ UNCHANGED held
    /\ Call(t, Idle)
    /\ UNCHANGED <<kind, ctable, nextHandle, owner, poisoned, app, misrouted, lied>>

(* vfsi_closev: every descriptor is looked up before anything is submitted. *)
HandleOf(op, fd) == table[fd].handle
VectorBegin(t) ==
    /\ C(t).pc = "idle"
    /\ \E op \in {"closev", "io"} : \E n \in 1..2 : \E fds \in [1..n -> DOMAIN app \cup (1..MaxFd \ DOMAIN table)] :
         /\ \A k \in 1..n : op = "closev" => ~InUse(fds[k])
         /\ \A u \in Threads, k \in 1..n : C(u).op = "closev" => fds[k] \notin Range(C(u).fds)
         /\ LET bad == {k \in 1..n : fds[k] \notin DOMAIN table}
            IN  IF bad # {}
                THEN UNCHANGED calls
                ELSE Call(t, [Idle EXCEPT !.op = op, !.pc = op, !.fds = fds,
                                !.handles = [k \in 1..n |-> HandleOf(op, fds[k])]])
    /\ UNCHANGED <<kind, ctable, backend, owner, poisoned, app, ghosts, faults>>

(* What the backends do with a vector of closes (external): the local one   *)
(* goes on until one fails; NFS and SMB first look all of them up and close *)
(* nothing when one is missing; NFS then closes a prefix, SMB each on its   *)
(* own.  Yields what is closed, and the error.                              *)
Outcomes(hs) ==
    LET n == Len(hs)
        gone == {k \in 1..n : hs[k] \notin DOMAIN held}
        twice == {k \in 1..n : \E j \in 1..k - 1 : hs[j] = hs[k]}
        first(S) == CHOOSE k \in S : \A j \in S : k <= j
        Prefix(k) == {hs[j] : j \in 1..k - 1}
        good == [closed |-> Range(hs), fail |-> 0, transport |-> FALSE, fault |-> FALSE]
        bad(c, k, x, f) == [closed |-> c, fail |-> k, transport |-> x, fault |-> f]
    IN  IF kind = "local"
        THEN IF gone \cup twice # {} THEN {bad(Prefix(first(gone \cup twice)), first(gone \cup twice), FALSE, FALSE)} ELSE {good}
        ELSE IF gone # {} THEN {bad({}, first(gone), FALSE, FALSE)}
        ELSE IF twice # {} THEN {bad(Prefix(first(twice)), first(twice), FALSE, FALSE)}
        ELSE {good} \cup (IF kind = "nfs"
                          THEN {bad(Prefix(k), k, FALSE, TRUE) : k \in 1..n} \cup {bad({}, 0, TRUE, TRUE)}
                          ELSE {bad(Range(hs) \ {hs[j] : j \in S}, first(S), x, TRUE) :
                                  S \in SUBSET (1..n) \ {{}}, x \in BOOLEAN})

(* confirmed_close_prefix *)
Everything(o, n) == n
ConfirmedClosePrefix(o, n) == IF o.transport \/ o.fail = 0 THEN 0 ELSE o.fail - 1

ClosevBackend(t) ==
    /\ C(t).pc = "closev" /\ Free
    /\ \E o \in Outcomes(C(t).handles) :
         /\ IF o.fault THEN Fault ELSE UNCHANGED faults
         /\ held' = Without(held, o.closed)
         /\ Call(t, [C(t) EXCEPT !.pc = "remove",
                       !.drop = IF o.fail = 0 /\ ~o.transport THEN Len(C(t).fds)
                                ELSE ConfirmedClosePrefix(o, Len(C(t).fds)),
                       !.items = IF o.fail = 0 /\ ~o.transport THEN CompleteResults(Len(C(t).fds))
                                 ELSE FailResults(NotAttempted(Len(C(t).fds)), o.fail, TRUE)])
    /\ owner' = t
    /\ UNCHANGED <<kind, ctable, nextHandle, poisoned, app, ghosts>>

ClosevRemove(t) ==
    /\ C(t).pc = "remove"
    /\ LET closed == {C(t).fds[k] : k \in 1..C(t).drop}
       IN  /\ table' = Without(table, closed)
           /\ app' = Without(app, closed)
    /\ owner' = None
    /\ lied' = (lied \/ Lie(C(t).handles, C(t).items))
    /\ Call(t, Idle)
    /\ UNCHANGED <<kind, nextFd, backend, poisoned, lost, misrouted, faults>>

(* vfsi_pread, vfsi_pwrite and their vectors: the handles found earlier.    *)
Io(t) ==
    /\ C(t).pc = "io" /\ Free
    /\ LET hs == C(t).handles
           missing == {k \in DOMAIN hs : hs[k] \notin DOMAIN held}
       IN  /\ misrouted' = (misrouted \/ \E k \in DOMAIN hs \ missing : held[hs[k]] # app[C(t).fds[k]])
           /\ Call(t, Idle)
    /\ UNCHANGED <<kind, ctable, backend, owner, poisoned, app, lost, lied, faults>>

(* lock_or_io: a poisoned mutex refuses a vector before it is submitted.    *)
Refuse(t) ==
    /\ C(t).pc \in {"closev", "io"} /\ owner = None /\ poisoned
    /\ Call(t, Idle)
    /\ UNCHANGED <<kind, ctable, backend, owner, poisoned, app, ghosts, faults>>

(* A backend that panics inside the mutex poisons it (ffi_guard): the call  *)
(* in question answers with the panic result.                               *)
Panic(t) ==
    /\ C(t).pc \in {"open", "io"} /\ Free /\ Fault
    /\ poisoned' = TRUE
    /\ Call(t, Idle)
    /\ UNCHANGED <<kind, ctable, backend, owner, app, ghosts>>

Next == \E t \in Threads :
    \/ OpenBegin(t) \/ OpenDone(t) \/ OpenRefused(t) \/ OpenInvalid(t) \/ Cleanup(t) \/ Register(t) \/ Unregister(t)
    \/ CloseBegin(t) \/ CloseDone(t) \/ VectorBegin(t) \/ ClosevBackend(t) \/ ClosevRemove(t)
    \/ Io(t) \/ Refuse(t) \/ Panic(t)
Spec == Init /\ [][Next]_vars

-----------------------------------------------------------------------------
(* A read or write reaches the file its descriptor was opened for, also     *)
(* when descriptors wrap around live ones and threads open and close in     *)
(* between (insert_c_file).                                                 *)
OwnFile == ~misrouted

(* A handle the backend keeps open can still be closed by the application:  *)
(* it is in the table or a call is dealing with it, unless a scalar close   *)
(* or a best-effort clean-up failed or a scalar open found the table full   *)
(* (confirmed_close_prefix: "close failure only releases a confirmed        *)
(* semantic prefix").                                                       *)
NothingLost ==
    DOMAIN held \subseteq {table[fd].handle : fd \in DOMAIN table} \cup lost
        \cup UNION {Range(C(t).handles) : t \in {u \in Threads : C(u).pc \in {"register", "unregister", "cleanup", "close", "remove"}}}

(* An element of a vector close that is reported as done was closed, also   *)
(* when another element failed (fail_results, complete_results).            *)
ItemsTrue == ~lied

(* After a panic inside the backend no later call reaches it (the mutex     *)
(* stays poisoned).                                                         *)
PoisonFinal == poisoned => held' = held /\ poisoned'

-----------------------------------------------------------------------------
(***************************************************************************)
(* The vector calls of the C bindings: those that take paths               *)
(* (bindings/c/src/namespace.rs, metadata.rs) and the positioned reads and  *)
(* writes of open files (io.rs).  Every element is checked                  *)
(* before the backend sees any, the backend works on the elements in an     *)
(* order of its own and may fail in between, and the caller reads one       *)
(* result per element.  A path is null, outside the mount point, or inside. *)
(***************************************************************************)

CONSTANTS MaxCount      \* elements of a vector

Path == {"null", "out", "in"}
IoCalls == {"preadv", "pwritev"}
Mutations == {"mkdirv", "removev", "renamev", "copyv", "setattrv"}

VARIABLES call,      \* the call in progress
          applied,   \* elements the backend has carried out, for this call
          out,       \* what each element hands back (attributes; bytes and count):
                     \* stale, empty or fresh
          vectorPoisoned   \* the backend's mutex

vectorVars == <<call, applied, out, vectorPoisoned>>

VectorNone == [index |-> -1, error |-> "none"]
VectorIdle == [op |-> "none", pc |-> "idle", errors |-> <<>>, results |-> <<>>, ret |-> VectorNone]
VectorInit == call = VectorIdle /\ applied = {} /\ out = <<>> /\ vectorPoisoned \in BOOLEAN

(* What a check of one element answers.  mkdirv and removev take one path,  *)
(* renamev two; vpath_for refuses a path outside the mount point.           *)
PathError(p) == IF p = "null" THEN "invalid" ELSE IF p = "out" THEN "unmapped" ELSE "none"
PairError(p, q) == IF "null" \in {p, q} THEN "invalid" ELSE IF "out" \in {p, q} THEN "unmapped" ELSE "none"
MkdirError(e) == PathError(e.path)
RemoveError(e) == PathError(e.path)
StatError(e) == PathError(e.path)
RenameError(e) == PairError(e.path, e.other)
(* copyv checks its flag first, setattrv its attribute mask last.           *)
CopyError(e) == IF ~e.flag THEN "invalid" ELSE PairError(e.path, e.other)
SetattrError(e) == IF PathError(e.path) # "none" THEN PathError(e.path) ELSE IF ~e.flag THEN "invalid" ELSE "none"

Elements(pair, flagged) ==
    [path : Path, other : IF pair THEN Path ELSE {"in"}, flag : IF flagged THEN BOOLEAN ELSE {TRUE}]

(* result_array, complete_results, fail_results                             *)
ResultArray(n) == [i \in 1..n |-> "not attempted"]
VectorCompleteResults(n) == [i \in 1..n |-> "success"]
Untouched(results, failure, submitted) ==
    [i \in DOMAIN results |-> IF i = failure.index THEN failure.error ELSE results[i]]
VectorFailResults(results, failure, submitted) ==
    [i \in DOMAIN results |-> IF i = failure.index THEN failure.error
                              ELSE IF submitted THEN "indeterminate" ELSE results[i]]

Fail(failure, submitted) ==
    call' = [call EXCEPT !.pc = "returned", !.ret = failure,
                         !.results = VectorFailResults(@, failure, submitted)]

(* The loop over the elements: the first bad one ends the call.             *)
Refused(errors) == {i \in DOMAIN errors : errors[i] # "none"}
Begin(op, errors) ==
    /\ call.pc = "idle"
    /\ LET c == [op |-> op, pc |-> "lock", errors |-> errors, results |-> ResultArray(Len(errors)), ret |-> VectorNone]
           bad == Refused(errors)
           first == CHOOSE i \in bad : \A j \in bad : i <= j
           failure == [index |-> first, error |-> errors[first]]
       IN  call' = IF bad = {} THEN c
                   ELSE [c EXCEPT !.pc = "returned", !.ret = failure, !.results = VectorFailResults(@, failure, FALSE)]
    /\ applied' = {}
    /\ out' = [i \in DOMAIN errors |-> "stale"]
    /\ UNCHANGED vectorPoisoned

(* The calls; from here on they differ only in what statv answers.          *)
Mkdirv(elems) == Begin("mkdirv", [i \in DOMAIN elems |-> MkdirError(elems[i])])
Removev(elems) == Begin("removev", [i \in DOMAIN elems |-> RemoveError(elems[i])])
Renamev(elems) == Begin("renamev", [i \in DOMAIN elems |-> RenameError(elems[i])])
Copyv(elems) == Begin("copyv", [i \in DOMAIN elems |-> CopyError(elems[i])])
Setattrv(elems) == Begin("setattrv", [i \in DOMAIN elems |-> SetattrError(elems[i])])
Statv(elems) == Begin("statv", [i \in DOMAIN elems |-> StatError(elems[i])])

(* The elements of a read or write: a buffer, needed unless it is empty,    *)
(* and a descriptor.  The descriptor table is locked while they are checked.*)
IoElements == [buffer : {"null", "empty", "given"}, known : BOOLEAN]
IoError(e) == IF e.buffer = "null" THEN "invalid" ELSE IF e.known THEN "none" ELSE "EBADF"
IoErrors(elems, tablePoisoned) ==
    [i \in DOMAIN elems |-> IF ~tablePoisoned THEN IoError(elems[i]) ELSE IF i = 1 THEN "EIO" ELSE "none"]
Preadv(elems, tablePoisoned) == Begin("preadv", IoErrors(elems, tablePoisoned))
Pwritev(elems, tablePoisoned) == Begin("pwritev", IoErrors(elems, tablePoisoned))

(* lock_or_io                                                               *)
Lock ==
    /\ call.pc = "lock"
    /\ IF vectorPoisoned THEN Fail([index |-> 1, error |-> "EIO"], FALSE)
       ELSE call' = [call EXCEPT !.pc = "sent"]
    /\ UNCHANGED <<applied, out, vectorPoisoned>>

(* The backend carries out an element (external); one that was on its way   *)
(* when the call failed may still arrive afterwards.                        *)
Apply ==
    /\ call.pc \in {"sent", "late"}
    /\ \E i \in DOMAIN call.errors \ applied : applied' = applied \cup {i}
    /\ UNCHANGED <<call, out, vectorPoisoned>>

(* It fails at an element, or without naming one (index 0 here).            *)
BackendFails ==
    /\ call.pc = "sent"
    /\ \E i \in (DOMAIN call.errors \ applied) \cup {0} :
         call' = [call EXCEPT !.pc = "late", !.ret = [index |-> i, error |-> "backend"],
                              !.results = VectorFailResults(@, [index |-> i, error |-> "backend"], TRUE)]
    /\ UNCHANGED <<applied, out, vectorPoisoned>>

(* A mutation the backend finished.                                         *)
Complete ==
    /\ call.pc = "sent" /\ call.op \in Mutations /\ applied = DOMAIN call.errors
    /\ call' = [call EXCEPT !.pc = "returned", !.results = VectorCompleteResults(Len(call.errors)),
                            !.ret = [index |-> Len(call.errors), error |-> "none"]]
    /\ UNCHANGED <<applied, out, vectorPoisoned>>

(* statv: elements of which the backend omitted an attribute fail one by    *)
(* one, and their output is cleared.                                        *)
Kept(omitted, i) == IF i \in omitted THEN "stale" ELSE "fresh"
Output(omitted, i) == IF i \in omitted THEN "empty" ELSE "fresh"
FirstFailure(omitted, n) ==
    IF omitted = {} THEN [index |-> n, error |-> "none"]
    ELSE [index |-> CHOOSE i \in omitted : \A j \in omitted : i <= j, error |-> "unsupported"]
StatComplete ==
    /\ call.pc = "sent" /\ call.op = "statv" /\ applied = DOMAIN call.errors
    /\ \E omitted \in SUBSET DOMAIN call.errors :
         /\ out' = [i \in DOMAIN out |-> Output(omitted, i)]
         /\ call' = [call EXCEPT !.pc = "returned",
                       !.results = [i \in DOMAIN @ |-> IF i \in omitted THEN "unsupported" ELSE "success"],
                       !.ret = FirstFailure(omitted, Len(call.errors))]
    /\ UNCHANGED <<applied, vectorPoisoned>>

(* validate_c_read_results and validate_c_write_results: a reply of another *)
(* length, file, offset or size fails the call, and nothing is copied out.  *)
ReadMalformed ==
    /\ call.pc = "sent" /\ call.op = "preadv" /\ applied = DOMAIN call.errors
    /\ Fail([index |-> 0, error |-> "malformed"], TRUE)
    /\ UNCHANGED <<applied, out, vectorPoisoned>>
WriteMalformed ==
    /\ call.pc = "sent" /\ call.op = "pwritev" /\ applied = DOMAIN call.errors
    /\ Fail([index |-> 0, error |-> "malformed"], TRUE)
    /\ UNCHANGED <<applied, out, vectorPoisoned>>

IoComplete ==
    /\ call.pc = "sent" /\ call.op \in IoCalls /\ applied = DOMAIN call.errors
    /\ out' = [i \in DOMAIN out |-> "fresh"]
    /\ call' = [call EXCEPT !.pc = "returned", !.results = VectorCompleteResults(Len(call.errors)),
                            !.ret = [index |-> Len(call.errors), error |-> "none"]]
    /\ UNCHANGED <<applied, vectorPoisoned>>

Forget ==
    /\ call.pc \in {"returned", "late"}
    /\ call' = VectorIdle /\ applied' = {} /\ out' = <<>>
    /\ UNCHANGED vectorPoisoned

VectorNext ==
    \/ \E n \in 1..MaxCount :
         \/ \E elems \in [1..n -> Elements(FALSE, FALSE)] : Mkdirv(elems) \/ Removev(elems) \/ Statv(elems)
         \/ \E elems \in [1..n -> Elements(TRUE, FALSE)] : Renamev(elems)
         \/ \E elems \in [1..n -> Elements(TRUE, TRUE)] : Copyv(elems)
         \/ \E elems \in [1..n -> Elements(FALSE, TRUE)] : Setattrv(elems)
         \/ \E elems \in [1..n -> IoElements], tablePoisoned \in BOOLEAN :
              Preadv(elems, tablePoisoned) \/ Pwritev(elems, tablePoisoned)
    \/ Lock \/ Apply \/ BackendFails \/ Complete \/ StatComplete
    \/ ReadMalformed \/ WriteMalformed \/ IoComplete \/ Forget

VectorSpec == VectorInit /\ [][VectorNext]_vectorVars

-----------------------------------------------------------------------------
Answered == call.pc \in {"returned", "late"}

(* What the element results of a call say is true, and stays true when the  *)
(* backend finishes something after it failed: a success was carried out,   *)
(* and an element that was not attempted never is (vfsi_result).  A read or *)
(* write hands back bytes or a count exactly for its successes.             *)
VectorItemsTrue ==
    Answered => \A i \in DOMAIN call.results :
        /\ call.results[i] = "success" => i \in applied
        /\ call.results[i] = "not attempted" => i \notin applied
        /\ call.op \in IoCalls => (out[i] = "fresh" <=> call.results[i] = "success")

(* An element whose arguments are refused keeps the whole vector from the   *)
(* backend: nothing of a vector with a bad element is ever carried out.     *)
BadNeverSent == (\E i \in DOMAIN call.errors : call.errors[i] # "none") => applied = {}

(* The value vfsi_statv returns agrees with its elements: it is a success   *)
(* only when all are, else it is the first element that failed; and no      *)
(* element that could not be answered leaves the caller's old attributes.   *)
StatAgrees ==
    (call.op = "statv" /\ call.pc = "returned" /\ applied # {}) =>
        /\ call.ret.error = "none" <=> \A i \in DOMAIN out : call.results[i] = "success"
        /\ call.ret.error # "none" => /\ call.results[call.ret.index] = call.ret.error
                                      /\ \A i \in 1..(call.ret.index - 1) : call.results[i] = "success"
        /\ \A i \in DOMAIN out : out[i] = IF call.results[i] = "success" THEN "fresh" ELSE "empty"

-----------------------------------------------------------------------------
(***************************************************************************)
(* Object identities of the C bindings (bindings/c/src/identity.rs): the   *)
(* process-wide table of namespaces and vfsi_get_object_idv, which splits  *)
(* its vector into runs of equal follow policy.  Object numbers are only   *)
(* unique on their server; the namespace makes identities comparable.      *)
(***************************************************************************)

CONSTANTS Servers,    \* filesystems a handle may be made for
          KeyOf,      \* server -> the key its backend names it by, or NoKey
          NoKey,
          Objects,    \* object numbers, the same on every server
          IdentMaxHandles  \* vfsi_fs handles

VARIABLES next,      \* NEXT
          identTable,     \* NAMESPACES: key -> namespace
          identHandles,   \* sequence of [server, ns]
          allotting, \* threads in namespace_id: [server, seen]
          link,      \* server -> path -> object and, for a link, its target
          identCall,      \* the call in progress
          known      \* identities the application holds: [id, server, object]

identVars == <<next, identTable, identHandles, allotting, link, identCall, known>>

IdentIdle == [pc |-> "idle", fs |-> 0, ops |-> <<>>, at |-> 0, got |-> <<>>, out |-> <<>>, results |-> <<>>, ret |-> 0]
Keys == {KeyOf[s] : s \in Servers} \ {NoKey}

(* Every server has a file and a link to it, under any numbers.             *)
IdentInit ==
    /\ next = 1 /\ identTable = [k \in {} |-> 0] /\ identHandles = <<>> /\ allotting = {}
    /\ link \in [Servers -> {<<a, b>> \in Objects \X Objects : a # b}]
    /\ identCall = IdentIdle /\ known = {}

-----------------------------------------------------------------------------
(* namespace_id: an unknown backend takes a new number.  The compare and    *)
(* exchange fails when another thread took the number meanwhile.            *)
Load(s) ==
    /\ Len(identHandles) + Cardinality(allotting) < IdentMaxHandles
    /\ KeyOf[s] = NoKey
    /\ allotting' = allotting \cup {[server |-> s, seen |-> next]}
    /\ UNCHANGED <<next, identTable, identHandles, link, identCall, known>>

Unchecked(seen) == TRUE
Unchanged(seen) == next = seen
Exchange(a) ==
    /\ IF Unchanged(a.seen)
       THEN /\ next' = a.seen + 1
            /\ identHandles' = Append(identHandles, [server |-> a.server, ns |-> a.seen])
            /\ allotting' = allotting \ {a}
       ELSE allotting' = (allotting \ {a}) \cup {[a EXCEPT !.seen = next]} /\ UNCHANGED <<next, identHandles>>
    /\ UNCHANGED <<identTable, link, identCall, known>>

(* A known backend has its number in the table, under the table's mutex.    *)
ByKey(s) ==
    /\ Len(identHandles) + Cardinality(allotting) < IdentMaxHandles
    /\ KeyOf[s] # NoKey
    /\ IF KeyOf[s] \in DOMAIN identTable
       THEN /\ identHandles' = Append(identHandles, [server |-> s, ns |-> identTable[KeyOf[s]]])
            /\ UNCHANGED <<next, identTable>>
       ELSE /\ identTable' = [k \in DOMAIN identTable \cup {KeyOf[s]} |-> IF k \in DOMAIN identTable THEN identTable[k] ELSE next]
            /\ next' = next + 1
            /\ identHandles' = Append(identHandles, [server |-> s, ns |-> next])
    /\ UNCHANGED <<allotting, link, identCall, known>>

-----------------------------------------------------------------------------
(* An element asks for the link or its target by path, or is malformed.     *)
Element == {"follow", "nofollow", "bad"}

IdentBegin(h, ops) ==
    /\ identCall.pc = "idle"
    /\ LET bad == {i \in DOMAIN ops : ops[i] = "bad"}
           first == CHOOSE i \in bad : \A j \in bad : i <= j
           c == [pc |-> "runs", fs |-> h, ops |-> ops, at |-> 1, got |-> [i \in DOMAIN ops |-> 0],
                 out |-> [i \in DOMAIN ops |-> "stale"], results |-> [i \in DOMAIN ops |-> "not attempted"], ret |-> 0]
       IN  identCall' = IF bad # {}
                        THEN [c EXCEPT !.pc = "returned", !.ret = first, !.results[first] = "invalid"]
                        ELSE [c EXCEPT !.out = [i \in DOMAIN ops |-> "empty"]]
    /\ UNCHANGED <<next, identTable, identHandles, allotting, link, known>>

(* The end of the run of equal flags that starts at `at`.                   *)
RunEnd(ops, at) ==
    CHOOSE e \in at..Len(ops) : /\ \A k \in at..e : ops[k] = ops[at]
                                /\ e < Len(ops) => ops[e + 1] # ops[at]

(* The index a run's failure has in the whole call.                         *)
MapIndex(at, index) == at + index - 1

(* One run: the backend answers all of it or fails at one of its elements.  *)
Run ==
    /\ identCall.pc = "runs" /\ identCall.at <= Len(identCall.ops)
    /\ LET end == RunEnd(identCall.ops, identCall.at)
           target == link[identHandles[identCall.fs].server][IF identCall.ops[identCall.at] = "follow" THEN 2 ELSE 1]
       IN  \/ \E index \in 1..(end - identCall.at + 1) :
                LET at == MapIndex(identCall.at, index)
                IN  identCall' = [identCall EXCEPT !.pc = "returned", !.ret = at,
                              !.results = [i \in DOMAIN @ |-> IF i = at THEN "failed" ELSE "indeterminate"],
                              !.got[identCall.at + index - 1] = -1]
           \/ identCall' = [identCall EXCEPT !.at = end + 1,
                         !.got = [i \in DOMAIN @ |-> IF i \in identCall.at..end THEN target ELSE @[i]]]
    /\ UNCHANGED <<next, identTable, identHandles, allotting, link, known>>

(* All runs answered: elements of which a component is missing fail alone.  *)
Answer ==
    /\ identCall.pc = "runs" /\ identCall.at > Len(identCall.ops)
    /\ \E missing \in SUBSET DOMAIN identCall.ops :
         LET ids == [i \in DOMAIN identCall.ops |-> <<identHandles[identCall.fs].ns, identCall.got[i]>>]
         IN  /\ identCall' = [identCall EXCEPT
                         !.pc = "returned",
                         !.ret = IF missing = {} THEN 0 ELSE CHOOSE i \in missing : \A j \in missing : i <= j,
                         !.results = [i \in DOMAIN @ |-> IF i \in missing THEN "unsupported" ELSE "success"],
                         !.out = [i \in DOMAIN @ |-> IF i \in missing THEN "empty" ELSE "fresh"]]
             /\ known' = known \cup {[id |-> ids[i], server |-> identHandles[identCall.fs].server,
                                      object |-> link[identHandles[identCall.fs].server][IF identCall.ops[i] = "follow" THEN 2 ELSE 1]] :
                                        i \in DOMAIN identCall.ops \ missing}
    /\ UNCHANGED <<next, identTable, identHandles, allotting, link>>

IdentForget == identCall.pc = "returned" /\ identCall' = IdentIdle /\ UNCHANGED <<next, identTable, identHandles, allotting, link, known>>

IdentNext ==
    \/ \E s \in Servers : Load(s) \/ ByKey(s)
    \/ \E a \in allotting : Exchange(a)
    \/ \E h \in DOMAIN identHandles, n \in 1..MaxCount : \E ops \in [1..n -> Element] : IdentBegin(h, ops)
    \/ Run \/ Answer \/ IdentForget

IdentSpec == IdentInit /\ [][IdentNext]_identVars

-----------------------------------------------------------------------------
(* Two identities the application holds are equal only when they name the   *)
(* same object of the same server, whatever handles they came from, and     *)
(* handles of one named backend agree: the namespaces never alias.          *)
NeverAlias ==
    /\ \A a, b \in known : a.id = b.id => (a.server = b.server /\ a.object = b.object)
    /\ \A i, j \in DOMAIN identHandles :
         (identHandles[i].server = identHandles[j].server /\ KeyOf[identHandles[i].server] # NoKey) => identHandles[i].ns = identHandles[j].ns

(* Every identity names the object the element asked for: the link itself   *)
(* without following, its target with it, in any mix of the two.            *)
OwnPolicy == \A k \in known : k.id[2] = k.object

(* A failing element of any run is reported at its own place in the call,   *)
(* and an element without an answer never shows the caller's old identity   *)
(* once the backend was asked.                                              *)
OwnPlace ==
    identCall.pc = "returned" =>
             /\ \A i \in DOMAIN identCall.ops : identCall.results[i] = "failed" <=> identCall.got[i] = -1
             /\ (\A i \in DOMAIN identCall.ops : identCall.ops[i] # "bad") =>
                  \A i \in DOMAIN identCall.ops : identCall.out[i] = "fresh" <=> identCall.results[i] = "success"
             /\ \A i \in DOMAIN identCall.ops : identCall.out[i] = "stale" => identCall.results[i] \in {"invalid", "not attempted"}
=============================================================================
