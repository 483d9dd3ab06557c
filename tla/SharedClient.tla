--------------------------- MODULE SharedClient ---------------------------
(***************************************************************************)
(* The shared synchronous client of crates/vfsi-sync: clones of FsClient   *)
(* in several threads, one backend behind a mutex, and RAII handles whose  *)
(* Drop must not wait for that mutex.  Drop pushes a PendingClose on a     *)
(* queue of its own and raises has_pending; whoever locks the backend next *)
(* drains the queue first.                                                 *)
(*                                                                         *)
(* The steps are the ones another thread can observe: the two mutexes, the *)
(* atomic flag and each close are separate steps.  Only the thread that    *)
(* holds the backend mutex has a drain in progress, so the locals of       *)
(* drain_cleanup are plain variables.  Notifications are left out.         *)
(***************************************************************************)

CONSTANTS
  Threads,
  Handles,
  None         \* no thread, no handle

ASSUME ClientConstants == None \notin Threads /\ None \notin Handles

VARIABLES
  client,      \* threads that own a clone of FsClient
  pc,          \* Threads -> step of the call in progress
  want,        \* Threads -> what the call is for: "op", "drain" or "into"
  uses,        \* Threads -> handles a close in progress borrows
  lock,        \* holder of the backend mutex, or None
  poisoned,    \* a backend operation panicked while the mutex was held
  backend,     \* "live", "taken" (into_inner) or "dropped" (last owner gone)
  handle,      \* Handles -> life of the OpenFile value
  closes,      \* history: handles reported closed, once and twice
  dropping,    \* Threads -> handle whose Drop is in progress, or None
  phase,       \* Threads -> how far that Drop is
  pending,     \* queue of PendingClose
  hasPending,  \* its flag
  batch,       \* drain_cleanup: entries taken and still to be closed
  failed,      \* drain_cleanup: entries whose close failed
  drainErr,    \* drain_cleanup: the result is an error
  due          \* history: Drops that were complete when the mutex was taken

callVars == <<client, pc, want, uses, lock, poisoned, backend>>
queueVars == <<pending, hasPending>>
drainVars == <<batch, failed, drainErr, due>>
dropVars == <<dropping, phase>>
vars == <<callVars, queueVars, drainVars, dropVars, handle, closes>>

Locked == {"swap", "take", "close", "extend", "reflag", "op",
           "mismatch", "unlock"}

TypeOK ==
  /\ client \subseteq Threads
  /\ pc \in [Threads -> Locked \cup {"idle", "unwrap"}]
  /\ want \in [Threads -> {"op", "drain", "into"}]
  /\ uses \in [Threads -> SUBSET Handles]
  /\ lock \in Threads \cup {None}
  /\ poisoned \in BOOLEAN
  /\ backend \in {"live", "taken", "dropped"}
  /\ handle \in [Handles -> {"new", "owned", "shut", "dropped", "gone"}]
  /\ closes \in [Handles -> {"never", "once", "twice"}]
  /\ dropping \in [Threads -> Handles \cup {None}]
  /\ phase \in [Threads -> {"pushed", "flagged"}]
  /\ pending \subseteq Handles
  /\ hasPending \in BOOLEAN
  /\ batch \subseteq Handles
  /\ failed \subseteq Handles
  /\ drainErr \in BOOLEAN
  /\ due \subseteq Handles
  /\ \A t \in Threads : (pc[t] \in Locked) <=> (lock = t)

Init ==
  /\ \E t \in Threads : client = {t}
  /\ pc = [t \in Threads |-> "idle"]
  /\ want = [t \in Threads |-> "op"]
  /\ uses = [t \in Threads |-> {}]
  /\ lock = None /\ poisoned = FALSE /\ backend = "live"
  /\ handle = [h \in Handles |-> "new"]
  /\ closes = [h \in Handles |-> "never"]
  /\ dropping = [t \in Threads |-> None]
  /\ phase = [t \in Threads |-> "pushed"]
  /\ pending = {} /\ hasPending = FALSE
  /\ batch = {} /\ failed = {} /\ drainErr = FALSE /\ due = {}

-----------------------------------------------------------------------------
\* The backend reports the handles S closed.
Closed(S) == closes' = [h \in Handles |->
                          IF h \notin S THEN closes[h]
                          ELSE IF closes[h] = "never" THEN "once" ELSE "twice"]
Become(S, life) == handle' = [h \in Handles |-> IF h \in S THEN life ELSE handle[h]]

Goto(t, step) == pc' = [pc EXCEPT ![t] = step]

\* Owners of the Arc among the clients of C, the handle values H (a closed
\* OpenFile still holds its Arc) and the Drops in progress in threads T.
Owned(C, H, T) == \/ C # {}
                  \/ \E h \in H : handle[h] \in {"owned", "shut"}
                  \/ \E u \in T : dropping[u] # None

\* Final-owner teardown: every queued close is tried once more, S succeed.
Teardown(X) ==
  \E S \in SUBSET pending :
    /\ backend' = "dropped"
    /\ Closed(S)
    /\ Become(pending \cup X, "gone")
    /\ pending' = {}
    /\ UNCHANGED hasPending

\* An owner, with the handle values X, releases its Arc.
Release(last, X) ==
  IF last THEN Teardown(X)
  ELSE Become(X, "gone") /\ UNCHANGED <<backend, queueVars, closes>>

-----------------------------------------------------------------------------
\* The start of a call.  Lock the backend mutex; a poisoned one fails the call.
\* A close borrows its handles, and needs no client (try_close) unless it is a
\* vclose of several.
Unused(h) == \A u \in Threads : h \notin uses[u]
Free(h) == handle[h] = "owned" /\ Unused(h)

Lock(t) ==
  /\ pc[t] = "idle" /\ dropping[t] = None
  /\ lock = None /\ ~poisoned
  /\ lock' = t
  /\ \E G \in SUBSET {h \in Handles : Free(h)}, w \in {"op", "drain", "into"} :
       /\ t \in client \/ \E h \in Handles : G = {h}
       /\ G # {} => w = "op"
       /\ uses' = [uses EXCEPT ![t] = G]
       /\ want' = [want EXCEPT ![t] = w]
  /\ Goto(t, "swap")
  /\ drainErr' = FALSE
  /\ due' = {h \in pending : \A u \in Threads : ~(dropping[u] = h /\ phase[u] = "pushed")}
  /\ UNCHANGED <<client, poisoned, backend, queueVars, batch, failed, dropVars, handle, closes>>

\* has_pending.swap(false)
Swap(t) ==
  /\ pc[t] = "swap"
  /\ Goto(t, IF hasPending THEN "take" ELSE "op")
  /\ hasPending' = FALSE
  /\ UNCHANGED <<client, want, uses, lock, poisoned, backend, pending, drainVars, dropVars, handle, closes>>

\* mem::take of the queue, under its own lock
Take(t) ==
  /\ pc[t] = "take"
  /\ Goto(t, "close")
  /\ batch' = pending
  /\ pending' = {}
  /\ UNCHANGED <<client, want, uses, lock, poisoned, backend, hasPending, failed, drainErr, due,
                 dropVars, handle, closes>>

\* One turn of the loop of drain_cleanup: the close succeeds or is retained.
CloseNext(t) ==
  /\ pc[t] = "close"
  /\ \E h \in batch :
       /\ batch' = batch \ {h}
       /\ due' = due \ {h}
       /\ \/ /\ Closed({h}) /\ Become({h}, "gone")
             /\ UNCHANGED <<failed, drainErr>>
          \/ /\ failed' = failed \cup {h} /\ drainErr' = TRUE
             /\ UNCHANGED <<closes, handle>>
  /\ UNCHANGED <<callVars, queueVars, dropVars>>

CloseDone(t) ==
  /\ pc[t] = "close" /\ batch = {}
  /\ Goto(t, IF failed = {} THEN "op" ELSE "extend")
  /\ UNCHANGED <<client, want, uses, lock, poisoned, backend, queueVars, drainVars, dropVars, handle, closes>>

\* Mutant: targets whose close failed are forgotten.
ExtendNothing(t) ==
  /\ pc[t] = "extend"
  /\ Goto(t, "reflag")
  /\ failed' = {}
  /\ UNCHANGED <<client, want, uses, lock, poisoned, backend, queueVars, batch, drainErr, due,
                 dropVars, handle, closes>>

\* The failed targets go back to the queue, then the flag is raised again.
Extend(t) ==
  /\ pc[t] = "extend"
  /\ Goto(t, "reflag")
  /\ pending' = pending \cup failed
  /\ failed' = {}
  /\ UNCHANGED <<client, want, uses, lock, poisoned, backend, hasPending, batch, drainErr, due,
                 dropVars, handle, closes>>

Reflag(t) ==
  /\ pc[t] = "reflag"
  /\ Goto(t, "op")
  /\ hasPending' = TRUE
  /\ UNCHANGED <<client, want, uses, lock, poisoned, backend, pending, drainVars, dropVars, handle, closes>>

-----------------------------------------------------------------------------
\* The body of the call, with the mutex held; operations that neither open nor
\* close a handle change nothing here.
InOp(t) == pc[t] = "op" /\ want[t] = "op"

\* open_with_native, vopen, vopen_dirs_impl: the new handles G are wrapped.
Open(t, G) ==
  /\ InOp(t) /\ uses[t] = {}
  /\ \A h \in G : handle[h] = "new"
  /\ Become(G, "owned")
  /\ Goto(t, "unlock")
  /\ UNCHANGED <<client, want, uses, lock, poisoned, backend, queueVars, drainVars, dropVars, closes>>

\* vopen when the backend returns the wrong number of files: each is closed
\* at once, and one that cannot be closed is dropped as an OpenFile.
OpenMismatch(t, h) ==
  /\ InOp(t) \/ pc[t] = "mismatch"
  /\ uses[t] = {} /\ dropping[t] = None /\ handle[h] = "new"
  /\ \/ /\ Closed({h}) /\ Become({h}, "gone")
        /\ UNCHANGED <<dropVars, pending>>
     \/ /\ Become({h}, "dropped")
        /\ pending' = pending \cup {h}
        /\ dropping' = [dropping EXCEPT ![t] = h]
        /\ phase' = [phase EXCEPT ![t] = "pushed"]
        /\ UNCHANGED closes
  /\ Goto(t, "mismatch")
  /\ UNCHANGED <<client, want, uses, lock, poisoned, backend, hasPending, drainVars>>

\* The close of OpenFile::try_close succeeds and disarms the handle.
Disarm(S) == Closed(S) /\ Become(S, "shut")

\* try_close and vclose: success disarms the handles, failure leaves all armed.
TryClose(t) ==
  /\ InOp(t) /\ uses[t] # {}
  /\ \/ Disarm(uses[t])
     \/ UNCHANGED <<closes, handle>>
  /\ Goto(t, "unlock")
  /\ UNCHANGED <<client, want, uses, lock, poisoned, backend, queueVars, drainVars, dropVars>>

\* into_inner goes on to try_unwrap if its drain reported no error.
IntoGoesOn(t) == want[t] = "into" /\ ~drainErr

\* BackendGuard::drop releases the mutex.
Unlock(t) ==
  /\ \/ pc[t] = "op" /\ uses[t] = {}
     \/ pc[t] = "mismatch" /\ dropping[t] = None
     \/ pc[t] = "unlock"
  /\ lock' = None
  /\ uses' = [uses EXCEPT ![t] = {}]
  /\ Goto(t, IF IntoGoesOn(t) THEN "unwrap" ELSE "idle")
  /\ UNCHANGED <<client, want, poisoned, backend, queueVars, drainVars, dropVars, handle, closes>>

\* A backend operation panics under the mutex, which stays poisoned.  (A panic
\* inside a close of the drain is left out.)
Panic(t) ==
  /\ InOp(t)
  /\ lock' = None /\ poisoned' = TRUE
  /\ uses' = [uses EXCEPT ![t] = {}]
  /\ Goto(t, "idle")
  /\ UNCHANGED <<client, want, backend, queueVars, drainVars, dropVars, handle, closes>>

\* Mutant: into_backend trusts the earlier drain.
UnwrapNoDrain(t) ==
  /\ pc[t] = "unwrap"
  /\ Goto(t, "idle")
  /\ IF Owned(client \ {t}, Handles, Threads) THEN UNCHANGED <<backend, client>>
     ELSE backend' = "taken" /\ client' = {}
  /\ UNCHANGED <<want, uses, lock, poisoned, queueVars, drainVars, dropVars, handle, closes>>

\* Arc::try_unwrap and, for the only owner, into_backend: the queue is drained
\* once more, all but F succeed; a failure gives the client back.
Unwrap(t) ==
  /\ pc[t] = "unwrap"
  /\ Goto(t, "idle")
  /\ IF Owned(client \ {t}, Handles, Threads)
     THEN UNCHANGED <<backend, client, queueVars, handle, closes>>
     ELSE \E F \in SUBSET pending :
            /\ Closed(pending \ F) /\ Become(pending \ F, "gone")
            /\ pending' = F
            /\ hasPending' = (F # {})
            /\ IF F = {} THEN backend' = "taken" /\ client' = {}
                         ELSE UNCHANGED <<backend, client>>
  /\ UNCHANGED <<want, uses, lock, poisoned, drainVars, dropVars>>

-----------------------------------------------------------------------------
\* Drop of an OpenFile, by any thread, whether or not the mutex is held.
CanDrop(t) == pc[t] = "idle" /\ dropping[t] = None

Push(t, h) ==
  /\ CanDrop(t) /\ Free(h)
  /\ Become({h}, "dropped")
  /\ pending' = pending \cup {h}
  /\ dropping' = [dropping EXCEPT ![t] = h]
  /\ phase' = [phase EXCEPT ![t] = "pushed"]
  /\ UNCHANGED <<callVars, hasPending, drainVars, closes>>

\* Mutant: only the first entry of the queue raises the flag.
FlagFirst(t) ==
  /\ dropping[t] # None /\ phase[t] = "pushed"
  /\ phase' = [phase EXCEPT ![t] = "flagged"]
  /\ hasPending' = (hasPending \/ pending = {dropping[t]})
  /\ UNCHANGED <<callVars, pending, drainVars, dropping, handle, closes>>

Flag(t) ==
  /\ dropping[t] # None /\ phase[t] = "pushed"
  /\ phase' = [phase EXCEPT ![t] = "flagged"]
  /\ hasPending' = TRUE
  /\ UNCHANGED <<callVars, pending, drainVars, dropping, handle, closes>>

\* The Arc of the dropped handle is released; the last owner tears down.
ReleaseHandle(t) ==
  /\ dropping[t] # None /\ phase[t] = "flagged"
  /\ dropping' = [dropping EXCEPT ![t] = None]
  /\ Release(~Owned(client, Handles, Threads \ {t}), {})
  /\ UNCHANGED <<client, pc, want, uses, lock, poisoned, drainVars, phase>>

\* Drop of an OpenFile that was closed: nothing is queued.
DropShut(t, h) ==
  /\ CanDrop(t) /\ handle[h] = "shut" /\ Unused(h)
  /\ Release(~Owned(client, Handles \ {h}, Threads), {h})
  /\ UNCHANGED <<client, pc, want, uses, lock, poisoned, drainVars, dropVars>>

\* Clone and Drop of FsClient.
Clone(t) ==
  /\ client # {} /\ t \notin client
  /\ client' = client \cup {t}
  /\ UNCHANGED <<pc, want, uses, lock, poisoned, backend, queueVars, drainVars, dropVars, handle, closes>>

ReleaseClient(t) ==
  /\ t \in client /\ CanDrop(t)
  /\ client' = client \ {t}
  /\ Release(~Owned(client \ {t}, Handles, Threads), {})
  /\ UNCHANGED <<pc, want, uses, lock, poisoned, drainVars, dropVars>>

-----------------------------------------------------------------------------
\* What a thread does once it is inside a call or a Drop.
Step(t) ==
  \/ Swap(t) \/ Take(t) \/ CloseNext(t) \/ CloseDone(t) \/ Extend(t) \/ Reflag(t)
  \/ TryClose(t) \/ Unlock(t) \/ Unwrap(t) \/ Flag(t) \/ ReleaseHandle(t)

\* What the application chooses to do.
Choose(t) ==
  \/ Lock(t) \/ Panic(t) \/ Clone(t) \/ ReleaseClient(t)
  \/ \E G \in SUBSET Handles : G # {} /\ Open(t, G)
  \/ \E h \in Handles : OpenMismatch(t, h) \/ Push(t, h) \/ DropShut(t, h)

Terminated == ~Owned(client, Handles, Threads) /\ UNCHANGED vars

Next == (\E t \in Threads : Step(t) \/ Choose(t)) \/ Terminated

Spec == Init /\ [][Next]_vars /\ \A t \in Threads : WF_vars(Step(t))

-----------------------------------------------------------------------------
\* A handle value that was dropped while open is owned by the cleanup
\* machinery, in exactly one place, until the backend has closed it or is
\* itself torn down ("Failed targets remain owned for later cleanup").
CleanupOwned ==
  \A h \in Handles :
    /\ (handle[h] = "dropped") <=> (h \in pending \/ h \in batch \/ h \in failed)
    /\ h \in pending => h \notin batch \cup failed
    /\ h \in batch => h \notin failed

\* When an operation runs, every Drop that was complete before the operation
\* took the mutex has had its close tried ("Handle Drop queues cleanup,
\* drained before later operations"), although the flag and the queue are
\* read and written in separate steps.
DrainedBeforeUse == lock # None => (pc[lock] = "op" => due = {})

\* No handle is closed twice: neither by a queued close after try_close
\* succeeded nor by two drains.
ClosedOnce == \A h \in Handles : closes[h] # "twice"

\* into_inner hands the backend out only when no dropped handle is left open
\* in it, even one dropped after the shared drain of into_inner.
IntoInnerClean == backend = "taken" => \A h \in Handles : handle[h] # "dropped"

=============================================================================
