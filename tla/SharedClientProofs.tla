------------------------- MODULE SharedClientProofs -------------------------
(***************************************************************************)
(* The safety of the shared client's deferred cleanup for any number of    *)
(* threads and handles.                                                    *)
(*                                                                         *)
(* IInv says where a dropped handle can be at each step of a drain, why    *)
(* the flag cannot be down while a completed Drop is queued, and that      *)
(* whoever is inside a call keeps the backend alive.                       *)
(***************************************************************************)
EXTENDS SharedClient, TLAPS

\* Only a drain in progress holds entries outside the queue.
DrainInv ==
  /\ batch # {} => \E t \in Threads : pc[t] = "close"
  /\ failed # {} => \E t \in Threads : pc[t] \in {"close", "extend"}

\* A queued handle is announced by the flag, or its Drop has yet to raise it,
\* or the drain is about to take the queue or to raise the flag again.
FlagInv ==
  \A h \in pending : \/ hasPending
                     \/ \E t \in Threads : pc[t] \in {"take", "reflag"}
                     \/ \E u \in Threads : dropping[u] = h /\ phase[u] = "pushed"

\* Where the Drops are that a call must drain.
DueInv ==
  /\ \A h \in due, u \in Threads : dropping[u] = h => phase[u] = "flagged"
  /\ \A t \in Threads : pc[t] \in {"swap", "take"} => due \subseteq pending
  /\ \A t \in Threads : pc[t] = "close" => due \subseteq batch
  /\ (\A t \in Threads : pc[t] \notin {"swap", "take", "close"}) => due = {}

\* A thread inside a call has an Arc of its own or borrows one.
BorrowInv ==
  \A t \in Threads :
    /\ pc[t] # "idle" => t \in client \/ uses[t] # {}
    /\ uses[t] # {} => pc[t] \in Locked \ {"mismatch"} /\ want[t] = "op"
    /\ \A h \in uses[t] : handle[h] = "owned" \/ (handle[h] = "shut" /\ pc[t] = "unlock")

\* A handle that may still be closed was not reported closed before.
CloseInv ==
  /\ \A h \in Handles : handle[h] \in {"new", "owned", "dropped"} => closes[h] = "never"
  /\ ClosedOnce

\* Nobody is left once the backend is gone.
EndInv ==
  /\ backend # "live" => ~Owned(client, Handles, Threads)
  /\ backend = "taken" => pending = {}

IInv == /\ TypeOK /\ CleanupOwned /\ DrainInv /\ FlagInv
        /\ DueInv /\ BorrowInv /\ CloseInv /\ EndInv

\* Each action keeps IInv.
LEMMA LockKeeps ==
  ASSUME IInv, NEW t \in Threads, Lock(t)
  PROVE  IInv'
  <1> USE DEF Lock, Goto, queueVars, dropVars, Free, Unused
  <1>1. TypeOK'
    <2>1. /\ uses' \in [Threads -> SUBSET Handles]
          /\ want' \in [Threads -> {"op", "drain", "into"}]
      <3>1. PICK G \in SUBSET {h \in Handles : Free(h)}, w \in {"op", "drain", "into"} :
              uses' = [uses EXCEPT ![t] = G] /\ want' = [want EXCEPT ![t] = w]
        BY Zenon
      <3>2. G \in SUBSET Handles
        OBVIOUS
      <3> QED BY <3>1, <3>2 DEF IInv, TypeOK
    <2>2. pc' \in [Threads -> Locked \cup {"idle", "unwrap"}] /\ due' \subseteq Handles
      BY DEF IInv, TypeOK, Locked
    <2>3. \A u \in Threads : (pc'[u] \in Locked) <=> (lock' = u)
      BY ClientConstants DEF IInv, TypeOK, Locked
    <2> QED BY <2>1, <2>2, <2>3, Zenon DEF IInv, TypeOK
  <1>2. CleanupOwned'
    BY ClientConstants DEF IInv, TypeOK, CleanupOwned, DrainInv, Locked
  <1>3. DrainInv'
    BY ClientConstants DEF IInv, TypeOK, DrainInv, Locked
  <1>4. FlagInv'
    BY ClientConstants DEF IInv, TypeOK, FlagInv
  <1>5. DueInv'
    BY ClientConstants DEF IInv, TypeOK, CleanupOwned, FlagInv, DueInv, BorrowInv, DrainInv,
      Locked
  <1>6. BorrowInv'
    <2>1. PICK G \in SUBSET {h \in Handles : Free(h)} :
            uses' = [uses EXCEPT ![t] = G] /\ (t \in client \/ \E h \in Handles : G = {h})
            /\ (G # {} => want'[t] = "op")
      BY Zenon DEF IInv, TypeOK
    <2>2. t \in client \/ G # {}
      BY <2>1
    <2>3. \A u \in Threads : uses'[u] = IF u = t THEN G ELSE uses[u]
      BY <2>1 DEF IInv, TypeOK
    <2>4. \A h \in G : handle[h] = "owned"
      BY <2>1
    <2>5. \A u \in Threads : pc'[u] # "idle" => u \in client \/ uses'[u] # {}
      BY <2>2, <2>3 DEF IInv, TypeOK, BorrowInv, Locked
    <2>6. \A u \in Threads : u # t => uses[u] = {}
      BY ClientConstants DEF IInv, TypeOK, BorrowInv
    <2> QED BY <2>3, <2>4, <2>5, <2>6 DEF IInv, TypeOK, BorrowInv, Locked
  <1>7. CloseInv'
    BY ClientConstants DEF IInv, TypeOK, CleanupOwned, CloseInv, ClosedOnce, BorrowInv
  <1>8. EndInv'
    BY ClientConstants DEF IInv, TypeOK, EndInv, BorrowInv, Owned
  <1> QED BY <1>1, <1>2, <1>3, <1>4, <1>5, <1>6, <1>7, <1>8 DEF IInv

LEMMA SwapKeeps ==
  ASSUME IInv, NEW t \in Threads, Swap(t)
  PROVE  IInv'
  <1> USE DEF Swap, Goto, drainVars, dropVars
  <1>1. TypeOK'
    BY ClientConstants, Zenon DEF IInv, TypeOK, Locked
  <1>2. CleanupOwned'
    BY ClientConstants DEF IInv, TypeOK, CleanupOwned, DrainInv, Locked
  <1>3. DrainInv'
    BY ClientConstants DEF IInv, TypeOK, DrainInv, Locked
  <1>4. FlagInv'
    BY ClientConstants DEF IInv, TypeOK, FlagInv
  <1>5. DueInv'
    BY ClientConstants DEF IInv, TypeOK, CleanupOwned, FlagInv, DueInv, BorrowInv, DrainInv,
      Locked
  <1>6. BorrowInv'
    BY ClientConstants DEF IInv, TypeOK, CleanupOwned, BorrowInv, Locked
  <1>7. CloseInv'
    BY ClientConstants DEF IInv, TypeOK, CleanupOwned, CloseInv, ClosedOnce, BorrowInv
  <1>8. EndInv'
    BY ClientConstants DEF IInv, TypeOK, EndInv, BorrowInv, Owned
  <1> QED BY <1>1, <1>2, <1>3, <1>4, <1>5, <1>6, <1>7, <1>8 DEF IInv

LEMMA TakeKeeps ==
  ASSUME IInv, NEW t \in Threads, Take(t)
  PROVE  IInv'
  <1> USE DEF Take, Goto, dropVars
  <1>1. TypeOK'
    BY ClientConstants DEF IInv, TypeOK, Locked
  <1>2. CleanupOwned'
    BY ClientConstants DEF IInv, TypeOK, CleanupOwned, DrainInv, Locked
  <1>3. DrainInv'
    BY ClientConstants DEF IInv, TypeOK, DrainInv, Locked
  <1>4. FlagInv'
    BY ClientConstants DEF IInv, TypeOK, FlagInv
  <1>5. DueInv'
    BY ClientConstants DEF IInv, TypeOK, CleanupOwned, FlagInv, DueInv, BorrowInv, DrainInv,
      Locked
  <1>6. BorrowInv'
    BY ClientConstants DEF IInv, TypeOK, CleanupOwned, BorrowInv, Locked
  <1>7. CloseInv'
    BY ClientConstants DEF IInv, TypeOK, CleanupOwned, CloseInv, ClosedOnce, BorrowInv
  <1>8. EndInv'
    BY ClientConstants DEF IInv, TypeOK, EndInv, BorrowInv, Owned
  <1> QED BY <1>1, <1>2, <1>3, <1>4, <1>5, <1>6, <1>7, <1>8 DEF IInv

LEMMA CloseNextKeeps ==
  ASSUME IInv, NEW t \in Threads, CloseNext(t)
  PROVE  IInv'
  <1> USE DEF CloseNext, callVars, queueVars, dropVars, Closed, Become
  <1>1. TypeOK'
    <2>1. /\ handle' \in [Handles -> {"new", "owned", "shut", "dropped", "gone"}]
          /\ closes' \in [Handles -> {"never", "once", "twice"}]
      BY DEF IInv, TypeOK
    <2>2. batch' \subseteq Handles /\ failed' \subseteq Handles /\ due' \subseteq Handles
      BY DEF IInv, TypeOK
    <2>3. drainErr' \in BOOLEAN
      BY Zenon DEF IInv, TypeOK
    <2> QED BY <2>1, <2>2, <2>3 DEF IInv, TypeOK
  <1>2. CleanupOwned'
    BY ClientConstants DEF IInv, TypeOK, CleanupOwned, DrainInv, Locked
  <1>3. DrainInv'
    BY ClientConstants DEF IInv, TypeOK, DrainInv, Locked
  <1>4. FlagInv'
    BY ClientConstants DEF IInv, TypeOK, FlagInv
  <1>5. DueInv'
    BY ClientConstants DEF IInv, TypeOK, CleanupOwned, FlagInv, DueInv, BorrowInv, DrainInv,
      Locked
  <1>6. BorrowInv'
    BY ClientConstants DEF IInv, TypeOK, CleanupOwned, BorrowInv, Locked
  <1>7. CloseInv'
    BY ClientConstants DEF IInv, TypeOK, CleanupOwned, CloseInv, ClosedOnce, BorrowInv
  <1>8. EndInv'
    BY ClientConstants DEF IInv, TypeOK, EndInv, BorrowInv, Owned
  <1> QED BY <1>1, <1>2, <1>3, <1>4, <1>5, <1>6, <1>7, <1>8 DEF IInv

LEMMA CloseDoneKeeps ==
  ASSUME IInv, NEW t \in Threads, CloseDone(t)
  PROVE  IInv'
  <1> USE DEF CloseDone, Goto, queueVars, drainVars, dropVars
  <1>1. TypeOK'
    BY ClientConstants DEF IInv, TypeOK, Locked
  <1>2. CleanupOwned'
    BY ClientConstants DEF IInv, TypeOK, CleanupOwned, DrainInv, Locked
  <1>3. DrainInv'
    BY ClientConstants DEF IInv, TypeOK, DrainInv, Locked
  <1>4. FlagInv'
    BY ClientConstants DEF IInv, TypeOK, FlagInv
  <1>5. DueInv'
    BY ClientConstants DEF IInv, TypeOK, CleanupOwned, FlagInv, DueInv, BorrowInv, DrainInv,
      Locked
  <1>6. BorrowInv'
    BY ClientConstants DEF IInv, TypeOK, CleanupOwned, BorrowInv, Locked
  <1>7. CloseInv'
    BY ClientConstants DEF IInv, TypeOK, CleanupOwned, CloseInv, ClosedOnce, BorrowInv
  <1>8. EndInv'
    BY ClientConstants DEF IInv, TypeOK, EndInv, BorrowInv, Owned
  <1> QED BY <1>1, <1>2, <1>3, <1>4, <1>5, <1>6, <1>7, <1>8 DEF IInv

LEMMA ExtendKeeps ==
  ASSUME IInv, NEW t \in Threads, Extend(t)
  PROVE  IInv'
  <1> USE DEF Extend, Goto, dropVars
  <1>1. TypeOK'
    BY ClientConstants DEF IInv, TypeOK, Locked
  <1>2. CleanupOwned'
    BY ClientConstants DEF IInv, TypeOK, CleanupOwned, DrainInv, Locked
  <1>3. DrainInv'
    BY ClientConstants DEF IInv, TypeOK, DrainInv, Locked
  <1>4. FlagInv'
    BY ClientConstants DEF IInv, TypeOK, FlagInv
  <1>5. DueInv'
    BY ClientConstants DEF IInv, TypeOK, CleanupOwned, FlagInv, DueInv, BorrowInv, DrainInv,
      Locked
  <1>6. BorrowInv'
    BY ClientConstants DEF IInv, TypeOK, CleanupOwned, BorrowInv, Locked
  <1>7. CloseInv'
    BY ClientConstants DEF IInv, TypeOK, CleanupOwned, CloseInv, ClosedOnce, BorrowInv
  <1>8. EndInv'
    BY ClientConstants DEF IInv, TypeOK, EndInv, BorrowInv, Owned
  <1> QED BY <1>1, <1>2, <1>3, <1>4, <1>5, <1>6, <1>7, <1>8 DEF IInv

LEMMA ReflagKeeps ==
  ASSUME IInv, NEW t \in Threads, Reflag(t)
  PROVE  IInv'
  <1> USE DEF Reflag, Goto, drainVars, dropVars
  <1>1. TypeOK'
    BY ClientConstants DEF IInv, TypeOK, Locked
  <1>2. CleanupOwned'
    BY ClientConstants DEF IInv, TypeOK, CleanupOwned, DrainInv, Locked
  <1>3. DrainInv'
    BY ClientConstants DEF IInv, TypeOK, DrainInv, Locked
  <1>4. FlagInv'
    BY ClientConstants DEF IInv, TypeOK, FlagInv
  <1>5. DueInv'
    BY ClientConstants DEF IInv, TypeOK, CleanupOwned, FlagInv, DueInv, BorrowInv, DrainInv,
      Locked
  <1>6. BorrowInv'
    BY ClientConstants DEF IInv, TypeOK, CleanupOwned, BorrowInv, Locked
  <1>7. CloseInv'
    BY ClientConstants DEF IInv, TypeOK, CleanupOwned, CloseInv, ClosedOnce, BorrowInv
  <1>8. EndInv'
    BY ClientConstants DEF IInv, TypeOK, EndInv, BorrowInv, Owned
  <1> QED BY <1>1, <1>2, <1>3, <1>4, <1>5, <1>6, <1>7, <1>8 DEF IInv

LEMMA OpenKeeps ==
  ASSUME IInv, NEW t \in Threads, NEW G \in SUBSET Handles, Open(t, G)
  PROVE  IInv'
  <1> USE DEF Open, Goto, queueVars, drainVars, dropVars, Become, InOp
  <1>1. TypeOK'
    BY ClientConstants DEF IInv, TypeOK, Locked
  <1>2. CleanupOwned'
    BY ClientConstants DEF IInv, TypeOK, CleanupOwned, DrainInv, Locked
  <1>3. DrainInv'
    BY ClientConstants DEF IInv, TypeOK, DrainInv, Locked
  <1>4. FlagInv'
    BY ClientConstants DEF IInv, TypeOK, FlagInv
  <1>5. DueInv'
    BY ClientConstants DEF IInv, TypeOK, CleanupOwned, FlagInv, DueInv, BorrowInv, DrainInv,
      Locked
  <1>6. BorrowInv'
    BY ClientConstants DEF IInv, TypeOK, CleanupOwned, BorrowInv, Locked
  <1>7. CloseInv'
    BY ClientConstants DEF IInv, TypeOK, CleanupOwned, CloseInv, ClosedOnce, BorrowInv
  <1>8. EndInv'
    BY ClientConstants DEF IInv, TypeOK, EndInv, BorrowInv, Owned
  <1> QED BY <1>1, <1>2, <1>3, <1>4, <1>5, <1>6, <1>7, <1>8 DEF IInv

LEMMA OpenMismatchKeeps ==
  ASSUME IInv, NEW t \in Threads, NEW h \in Handles, OpenMismatch(t, h)
  PROVE  IInv'
  <1> USE DEF OpenMismatch, Goto, drainVars, dropVars, Closed, Become, InOp
  <1>1. TypeOK'
    BY ClientConstants DEF IInv, TypeOK, Locked
  <1>2. CleanupOwned'
    BY ClientConstants DEF IInv, TypeOK, CleanupOwned, DrainInv, Locked
  <1>3. DrainInv'
    BY ClientConstants DEF IInv, TypeOK, DrainInv, Locked
  <1>4. FlagInv'
    BY ClientConstants DEF IInv, TypeOK, FlagInv
  <1>5. DueInv'
    BY ClientConstants DEF IInv, TypeOK, CleanupOwned, FlagInv, DueInv, BorrowInv, DrainInv,
      Locked
  <1>6. BorrowInv'
    BY ClientConstants DEF IInv, TypeOK, CleanupOwned, BorrowInv, Locked
  <1>7. CloseInv'
    BY ClientConstants DEF IInv, TypeOK, CleanupOwned, CloseInv, ClosedOnce, BorrowInv
  <1>8. EndInv'
    BY ClientConstants DEF IInv, TypeOK, EndInv, BorrowInv, Owned
  <1> QED BY <1>1, <1>2, <1>3, <1>4, <1>5, <1>6, <1>7, <1>8 DEF IInv

LEMMA TryCloseKeeps ==
  ASSUME IInv, NEW t \in Threads, TryClose(t)
  PROVE  IInv'
  <1> USE DEF TryClose, Goto, queueVars, drainVars, dropVars, Closed, Become, Disarm, InOp
  <1>1. TypeOK'
    BY ClientConstants DEF IInv, TypeOK, Locked
  <1>2. CleanupOwned'
    <2>1. \A h \in uses[t] : handle[h] \in {"owned", "shut"}
      BY DEF IInv, BorrowInv
    <2>2. \A h \in Handles : (handle'[h] = "dropped") <=> (handle[h] = "dropped")
      BY <2>1
    <2> QED BY <2>2 DEF IInv, CleanupOwned
  <1>3. DrainInv'
    BY ClientConstants DEF IInv, TypeOK, DrainInv, Locked
  <1>4. FlagInv'
    BY ClientConstants DEF IInv, TypeOK, FlagInv
  <1>5. DueInv'
    BY ClientConstants DEF IInv, TypeOK, CleanupOwned, FlagInv, DueInv, BorrowInv, DrainInv,
      Locked
  <1>6. BorrowInv'
    BY ClientConstants DEF IInv, TypeOK, CleanupOwned, BorrowInv, Locked
  <1>7. CloseInv'
    <2>1. \A h \in uses[t] : handle[h] = "owned"
      BY DEF IInv, BorrowInv
    <2>2. \A h \in uses[t] : closes[h] = "never"
      BY <2>1 DEF IInv, TypeOK, CloseInv
    <2> QED BY <2>1, <2>2 DEF IInv, TypeOK, CloseInv, ClosedOnce
  <1>8. EndInv'
    BY ClientConstants DEF IInv, TypeOK, EndInv, BorrowInv, Owned
  <1> QED BY <1>1, <1>2, <1>3, <1>4, <1>5, <1>6, <1>7, <1>8 DEF IInv

LEMMA UnlockKeeps ==
  ASSUME IInv, NEW t \in Threads, Unlock(t)
  PROVE  IInv'
  <1> USE DEF Unlock, Goto, queueVars, drainVars, dropVars, IntoGoesOn
  <1>1. TypeOK'
    BY ClientConstants DEF IInv, TypeOK, Locked
  <1>2. CleanupOwned'
    BY ClientConstants DEF IInv, TypeOK, CleanupOwned, DrainInv, Locked
  <1>3. DrainInv'
    BY ClientConstants DEF IInv, TypeOK, DrainInv, Locked
  <1>4. FlagInv'
    BY ClientConstants DEF IInv, TypeOK, FlagInv
  <1>5. DueInv'
    BY ClientConstants DEF IInv, TypeOK, CleanupOwned, FlagInv, DueInv, BorrowInv, DrainInv,
      Locked
  <1>6. BorrowInv'
    <2>1. \A u \in Threads : uses'[u] = IF u = t THEN {} ELSE uses[u]
      BY DEF IInv, TypeOK
    <2>2. IntoGoesOn(t) => t \in client
      BY DEF IInv, TypeOK, BorrowInv, Locked
    <2>3. \A u \in Threads : pc'[u] # "idle" => u \in client \/ uses'[u] # {}
      BY <2>1, <2>2 DEF IInv, TypeOK, BorrowInv, Locked
    <2> QED BY <2>1, <2>3 DEF IInv, TypeOK, BorrowInv, Locked
  <1>7. CloseInv'
    BY ClientConstants DEF IInv, TypeOK, CleanupOwned, CloseInv, ClosedOnce, BorrowInv
  <1>8. EndInv'
    BY ClientConstants DEF IInv, TypeOK, EndInv, BorrowInv, Owned
  <1> QED BY <1>1, <1>2, <1>3, <1>4, <1>5, <1>6, <1>7, <1>8 DEF IInv

LEMMA PanicKeeps ==
  ASSUME IInv, NEW t \in Threads, Panic(t)
  PROVE  IInv'
  <1> USE DEF Panic, Goto, queueVars, drainVars, dropVars, InOp
  <1>1. TypeOK'
    BY ClientConstants DEF IInv, TypeOK, Locked
  <1>2. CleanupOwned'
    BY ClientConstants DEF IInv, TypeOK, CleanupOwned, DrainInv, Locked
  <1>3. DrainInv'
    BY ClientConstants DEF IInv, TypeOK, DrainInv, Locked
  <1>4. FlagInv'
    BY ClientConstants DEF IInv, TypeOK, FlagInv
  <1>5. DueInv'
    BY ClientConstants DEF IInv, TypeOK, CleanupOwned, FlagInv, DueInv, BorrowInv, DrainInv,
      Locked
  <1>6. BorrowInv'
    BY ClientConstants DEF IInv, TypeOK, CleanupOwned, BorrowInv, Locked
  <1>7. CloseInv'
    BY ClientConstants DEF IInv, TypeOK, CleanupOwned, CloseInv, ClosedOnce, BorrowInv
  <1>8. EndInv'
    BY ClientConstants DEF IInv, TypeOK, EndInv, BorrowInv, Owned
  <1> QED BY <1>1, <1>2, <1>3, <1>4, <1>5, <1>6, <1>7, <1>8 DEF IInv

LEMMA UnwrapKeeps ==
  ASSUME IInv, NEW t \in Threads, Unwrap(t)
  PROVE  IInv'
  <1> USE DEF Unwrap, Goto, queueVars, drainVars, dropVars, Closed, Become, Owned
  <1>1. TypeOK'
    <2>1. /\ handle' \in [Handles -> {"new", "owned", "shut", "dropped", "gone"}]
          /\ closes' \in [Handles -> {"never", "once", "twice"}]
      BY DEF IInv, TypeOK
    <2>2. pending' \subseteq Handles /\ client' \subseteq Threads
      BY DEF IInv, TypeOK
    <2>3. hasPending' \in BOOLEAN
      BY Zenon DEF IInv, TypeOK
    <2>4. \A u \in Threads : (pc'[u] \in Locked) <=> (lock' = u)
      BY DEF IInv, TypeOK, Locked
    <2>5. backend' \in {"live", "taken", "dropped"} /\ pc' \in [Threads -> Locked \cup {"idle", "unwrap"}]
      BY DEF IInv, TypeOK
    <2> QED BY <2>1, <2>2, <2>3, <2>4, <2>5 DEF IInv, TypeOK
  <1>2. CleanupOwned'
    BY ClientConstants DEF IInv, TypeOK, CleanupOwned, DrainInv, Locked
  <1>3. DrainInv'
    BY ClientConstants DEF IInv, TypeOK, DrainInv, Locked
  <1>4. FlagInv'
    BY ClientConstants DEF IInv, TypeOK, FlagInv
  <1>5. DueInv'
    BY ClientConstants DEF IInv, TypeOK, CleanupOwned, FlagInv, DueInv, BorrowInv, DrainInv,
      Locked
  <1>6. BorrowInv'
    BY ClientConstants DEF IInv, TypeOK, CleanupOwned, BorrowInv, Locked
  <1>7. CloseInv'
    BY ClientConstants DEF IInv, TypeOK, CleanupOwned, CloseInv, ClosedOnce, BorrowInv
  <1>8. EndInv'
    BY ClientConstants DEF IInv, TypeOK, EndInv, BorrowInv
  <1> QED BY <1>1, <1>2, <1>3, <1>4, <1>5, <1>6, <1>7, <1>8 DEF IInv

LEMMA PushKeeps ==
  ASSUME IInv, NEW t \in Threads, NEW h \in Handles, Push(t, h)
  PROVE  IInv'
  <1> USE DEF Push, callVars, drainVars, Become, Free, Unused, CanDrop
  <1>1. TypeOK'
    BY ClientConstants DEF IInv, TypeOK, Locked
  <1>2. CleanupOwned'
    BY ClientConstants DEF IInv, TypeOK, CleanupOwned, DrainInv, Locked
  <1>3. DrainInv'
    BY ClientConstants DEF IInv, TypeOK, DrainInv, Locked
  <1>4. FlagInv'
    BY ClientConstants DEF IInv, TypeOK, FlagInv
  <1>5. DueInv'
    BY ClientConstants DEF IInv, TypeOK, CleanupOwned, FlagInv, DueInv, BorrowInv, DrainInv,
      Locked
  <1>6. BorrowInv'
    BY ClientConstants DEF IInv, TypeOK, CleanupOwned, BorrowInv, Locked
  <1>7. CloseInv'
    BY ClientConstants DEF IInv, TypeOK, CleanupOwned, CloseInv, ClosedOnce, BorrowInv
  <1>8. EndInv'
    BY ClientConstants DEF IInv, TypeOK, EndInv, BorrowInv, Owned
  <1> QED BY <1>1, <1>2, <1>3, <1>4, <1>5, <1>6, <1>7, <1>8, Zenon DEF IInv

LEMMA FlagKeeps ==
  ASSUME IInv, NEW t \in Threads, Flag(t)
  PROVE  IInv'
  <1> USE DEF Flag, callVars, drainVars
  <1>1. TypeOK'
    BY ClientConstants DEF IInv, TypeOK, Locked
  <1>2. CleanupOwned'
    BY ClientConstants DEF IInv, TypeOK, CleanupOwned, DrainInv, Locked
  <1>3. DrainInv'
    BY ClientConstants DEF IInv, TypeOK, DrainInv, Locked
  <1>4. FlagInv'
    BY ClientConstants DEF IInv, TypeOK, FlagInv
  <1>5. DueInv'
    BY ClientConstants DEF IInv, TypeOK, CleanupOwned, FlagInv, DueInv, BorrowInv, DrainInv,
      Locked
  <1>6. BorrowInv'
    BY ClientConstants DEF IInv, TypeOK, CleanupOwned, BorrowInv, Locked
  <1>7. CloseInv'
    BY ClientConstants DEF IInv, TypeOK, CleanupOwned, CloseInv, ClosedOnce, BorrowInv
  <1>8. EndInv'
    BY ClientConstants DEF IInv, TypeOK, EndInv, BorrowInv, Owned
  <1> QED BY <1>1, <1>2, <1>3, <1>4, <1>5, <1>6, <1>7, <1>8 DEF IInv

LEMMA ReleaseHandleKeeps ==
  ASSUME IInv, NEW t \in Threads, ReleaseHandle(t)
  PROVE  IInv'
  <1> USE DEF ReleaseHandle, queueVars, drainVars, Closed, Become, Release, Teardown, Owned
  <1>1. TypeOK'
    BY ClientConstants DEF IInv, TypeOK, Locked
  <1>2. CleanupOwned'
    BY ClientConstants DEF IInv, TypeOK, CleanupOwned, DrainInv, Locked
  <1>3. DrainInv'
    BY ClientConstants DEF IInv, TypeOK, DrainInv, Locked
  <1>4. FlagInv'
    BY ClientConstants DEF IInv, TypeOK, FlagInv
  <1>5. DueInv'
    BY ClientConstants DEF IInv, TypeOK, CleanupOwned, FlagInv, DueInv, BorrowInv, DrainInv,
      Locked
  <1>6. BorrowInv'
    BY ClientConstants DEF IInv, TypeOK, CleanupOwned, BorrowInv, Locked
  <1>7. CloseInv'
    BY ClientConstants DEF IInv, TypeOK, CleanupOwned, CloseInv, ClosedOnce, BorrowInv
  <1>8. EndInv'
    BY ClientConstants DEF IInv, TypeOK, EndInv, BorrowInv
  <1> QED BY <1>1, <1>2, <1>3, <1>4, <1>5, <1>6, <1>7, <1>8 DEF IInv

LEMMA DropShutKeeps ==
  ASSUME IInv, NEW t \in Threads, NEW h \in Handles, DropShut(t, h)
  PROVE  IInv'
  <1> USE DEF DropShut, queueVars, drainVars, dropVars, Closed, Become, Unused, CanDrop, Release,
    Teardown, Owned
  <1>1. TypeOK'
    BY ClientConstants DEF IInv, TypeOK, Locked
  <1>2. CleanupOwned'
    BY ClientConstants DEF IInv, TypeOK, CleanupOwned, DrainInv, Locked
  <1>3. DrainInv'
    BY ClientConstants DEF IInv, TypeOK, DrainInv, Locked
  <1>4. FlagInv'
    BY ClientConstants DEF IInv, TypeOK, FlagInv
  <1>5. DueInv'
    BY ClientConstants DEF IInv, TypeOK, CleanupOwned, FlagInv, DueInv, BorrowInv, DrainInv,
      Locked
  <1>6. BorrowInv'
    BY ClientConstants DEF IInv, TypeOK, CleanupOwned, BorrowInv, Locked
  <1>7. CloseInv'
    BY ClientConstants DEF IInv, TypeOK, CleanupOwned, CloseInv, ClosedOnce, BorrowInv
  <1>8. EndInv'
    BY ClientConstants DEF IInv, TypeOK, EndInv, BorrowInv
  <1> QED BY <1>1, <1>2, <1>3, <1>4, <1>5, <1>6, <1>7, <1>8 DEF IInv

LEMMA CloneKeeps ==
  ASSUME IInv, NEW t \in Threads, Clone(t)
  PROVE  IInv'
  <1> USE DEF Clone, queueVars, drainVars, dropVars
  <1>1. TypeOK'
    BY ClientConstants DEF IInv, TypeOK, Locked
  <1>2. CleanupOwned'
    BY ClientConstants DEF IInv, TypeOK, CleanupOwned, DrainInv, Locked
  <1>3. DrainInv'
    BY ClientConstants DEF IInv, TypeOK, DrainInv, Locked
  <1>4. FlagInv'
    BY ClientConstants DEF IInv, TypeOK, FlagInv
  <1>5. DueInv'
    BY ClientConstants DEF IInv, TypeOK, CleanupOwned, FlagInv, DueInv, BorrowInv, DrainInv,
      Locked
  <1>6. BorrowInv'
    BY ClientConstants DEF IInv, TypeOK, CleanupOwned, BorrowInv, Locked
  <1>7. CloseInv'
    BY ClientConstants DEF IInv, TypeOK, CleanupOwned, CloseInv, ClosedOnce, BorrowInv
  <1>8. EndInv'
    BY ClientConstants DEF IInv, TypeOK, EndInv, BorrowInv, Owned
  <1> QED BY <1>1, <1>2, <1>3, <1>4, <1>5, <1>6, <1>7, <1>8 DEF IInv

LEMMA ReleaseClientKeeps ==
  ASSUME IInv, NEW t \in Threads, ReleaseClient(t)
  PROVE  IInv'
  <1> USE DEF ReleaseClient, queueVars, drainVars, dropVars, Closed, Become, CanDrop, Release,
    Teardown, Owned
  <1>1. TypeOK'
    BY ClientConstants DEF IInv, TypeOK, Locked
  <1>2. CleanupOwned'
    BY ClientConstants DEF IInv, TypeOK, CleanupOwned, DrainInv, Locked
  <1>3. DrainInv'
    BY ClientConstants DEF IInv, TypeOK, DrainInv, Locked
  <1>4. FlagInv'
    BY ClientConstants DEF IInv, TypeOK, FlagInv
  <1>5. DueInv'
    BY ClientConstants DEF IInv, TypeOK, CleanupOwned, FlagInv, DueInv, BorrowInv, DrainInv,
      Locked
  <1>6. BorrowInv'
    BY ClientConstants DEF IInv, TypeOK, CleanupOwned, BorrowInv, Locked
  <1>7. CloseInv'
    BY ClientConstants DEF IInv, TypeOK, CleanupOwned, CloseInv, ClosedOnce, BorrowInv
  <1>8. EndInv'
    BY ClientConstants DEF IInv, TypeOK, EndInv, BorrowInv
  <1> QED BY <1>1, <1>2, <1>3, <1>4, <1>5, <1>6, <1>7, <1>8 DEF IInv

\* Every reachable state of the shared client satisfies IInv: locking, draining,
\* opening, closing, dropping, cloning and extracting all keep it.
THEOREM Invariance == Spec => []IInv
  <1>1. Init => IInv
    <2> SUFFICES ASSUME Init PROVE IInv
      OBVIOUS
    <2>1. TypeOK
      BY ClientConstants, Zenon DEF Init, TypeOK, Locked
    <2>2. CleanupOwned /\ DrainInv /\ FlagInv /\ DueInv
      BY DEF Init, CleanupOwned, DrainInv, FlagInv, DueInv
    <2>3. BorrowInv /\ CloseInv /\ EndInv
      BY DEF Init, BorrowInv, CloseInv, ClosedOnce, EndInv
    <2> QED BY <2>1, <2>2, <2>3 DEF IInv
  <1>2. IInv /\ [Next]_vars => IInv'
    <2> SUFFICES ASSUME IInv, [Next]_vars PROVE IInv'
      OBVIOUS
    <2>1. ASSUME NEW t \in Threads, Step(t) PROVE IInv'
      BY <2>1, SwapKeeps, TakeKeeps, CloseNextKeeps, CloseDoneKeeps, ExtendKeeps, ReflagKeeps,
         TryCloseKeeps, UnlockKeeps, UnwrapKeeps, FlagKeeps, ReleaseHandleKeeps DEF Step
    <2>2. ASSUME NEW t \in Threads, Choose(t) PROVE IInv'
      BY <2>2, LockKeeps, PanicKeeps, CloneKeeps, ReleaseClientKeeps, OpenKeeps,
         OpenMismatchKeeps, PushKeeps, DropShutKeeps DEF Choose
    <2>3. CASE UNCHANGED vars
      BY <2>3, SMTT(30) DEF vars, callVars, queueVars, drainVars, dropVars, IInv, TypeOK, CleanupOwned,
         DrainInv, FlagInv, DueInv, BorrowInv, CloseInv, ClosedOnce, EndInv, Owned
    <2> QED BY <2>1, <2>2, <2>3 DEF Next, Terminated
  <1> QED BY <1>1, <1>2, PTL DEF Spec

\* A handle dropped while open is never lost by a drain: until it is closed or
\* the backend is torn down it is in exactly one of the queue, the entries the
\* drain has taken and those whose close failed.
THEOREM NothingForgotten == Spec => []CleanupOwned
  <1>1. IInv => CleanupOwned
    BY DEF IInv
  <1> QED BY <1>1, Invariance, PTL

\* An operation starts only after the close of every Drop that was complete
\* before it took the mutex was tried, although defer and drain_cleanup
\* update queue and flag in separate steps.
THEOREM DropsDrainedFirst == Spec => []DrainedBeforeUse
  <1>1. IInv => DrainedBeforeUse
    BY ClientConstants DEF IInv, TypeOK, Locked, DueInv, DrainedBeforeUse
  <1> QED BY <1>1, Invariance, PTL

\* No handle is reported closed twice, by try_close, vclose or a drain.
THEOREM NeverClosedTwice == Spec => []ClosedOnce
  <1>1. IInv => ClosedOnce
    BY Zenon DEF IInv, CloseInv
  <1> QED BY <1>1, Invariance, PTL

\* into_inner gives the backend away only when no dropped handle is open in it.
THEOREM TakenClean == Spec => []IntoInnerClean
  <1>1. IInv => IntoInnerClean
    <2> SUFFICES ASSUME IInv, backend = "taken" PROVE \A h \in Handles : handle[h] # "dropped"
      BY DEF IntoInnerClean
    <2>1. pending = {} /\ ~Owned(client, Handles, Threads)
      BY DEF IInv, EndInv
    <2>2. \A t \in Threads : pc[t] = "idle"
      <3>1. client = {} /\ \A h \in Handles : handle[h] \notin {"owned", "shut"}
        BY <2>1 DEF Owned
      <3>2. \A t \in Threads : uses[t] = {}
        <4>1. \A t \in Threads : uses[t] \subseteq Handles
          BY Zenon DEF IInv, TypeOK
        <4> QED BY <3>1, <4>1, Zenon DEF IInv, BorrowInv
      <3> QED BY <3>1, <3>2, Zenon DEF IInv, BorrowInv
    <2>3. batch = {} /\ failed = {}
      BY <2>2 DEF IInv, DrainInv
    <2> QED BY <2>1, <2>3 DEF IInv, CleanupOwned
  <1> QED BY <1>1, Invariance, PTL

=============================================================================
