----------------------------- MODULE ClientPool -----------------------------
(***************************************************************************)
(* _ClientPool and _ResilientClient (vfsi_fsspec/_fs.py): a pool of native *)
(* sessions behind virtual descriptors (tokens).  Threads call the pool;   *)
(* what runs under one session's lock is one step, since only the token    *)
(* table changes outside it.  Native descriptors are numbered from 1 in    *)
(* every session, so a number means another file after a reconnect.  A     *)
(* token is numbered like the file it was opened for.                      *)
(***************************************************************************)
EXTENDS Integers, Sequences, FiniteSets, FiniteSetsExt, SequencesExt, TLC

CONSTANTS
  Threads,          \* threads using the pool
  Ops,              \* the operations they call
  Size,             \* number of sessions
  Batch,            \* paths of one open_many_independent
  Dirs,             \* working directories, with Root among them
  Root,
  MaxTokens,        \* descriptors the server grants
  MaxCalls,         \* bound: calls made
  MaxFaults,        \* bound: native calls that fail
  MaxConnectFaults, \* bound: failures while a session is rebuilt
  Forked            \* the process is a fork child: sessions are inherited

Owners == 1 .. Size
None == 0
NoThread == "none"

VARIABLES
  open,       \* FALSE once _clients is empty
  session,    \* owner -> native session
  fds,        \* token -> [owner, fd]
  deferred,   \* _deferred_close
  nextToken, nextClient,
  cwd,        \* _cwd
  stalePid,   \* _pid differs from the process
  locks,      \* owner -> thread holding the client lock across steps (chdir)
  rebuilding, \* holder of _reconnect_lock
  th,         \* thread -> its call
  calls, faults, connectFaults,
  kept,       \* ghost: token -> who has it: its caller, the pool or nobody
  events      \* history of what must not happen

vars == <<open, session, fds, deferred, nextToken, nextClient, cwd, stalePid, locks,
          rebuilding, th, calls, faults, connectFaults, kept, events>>

NewSession == [live |-> TRUE, inherited |-> FALSE, raised |-> FALSE, next |-> 0, files |-> <<>>, cwd |-> Root]
Idle == [pc |-> "idle", op |-> "none", tok |-> <<>>, owner |-> None, todo |-> <<>>,
         then |-> "idle", failed |-> FALSE, got |-> <<>>, dir |-> Root]

\* A fork child also inherits a descriptor, a deferred close and a working
\* directory.
Init ==
  /\ open = TRUE
  /\ \E n \in {0, IF Forked THEN 1 ELSE 0} :
       /\ fds = [k \in 1 .. n |-> [owner |-> 1, fd |-> k]]
       /\ deferred \in SUBSET (1 .. n) /\ nextToken = n + 1
       /\ kept = [k \in 1 .. n |-> IF k \in deferred THEN "pool" ELSE "caller"]
       /\ cwd \in IF Forked THEN Dirs ELSE {Root}
       /\ session = [o \in Owners |-> [NewSession EXCEPT !.inherited = Forked, !.cwd = cwd,
                       !.next = IF o = 1 THEN n ELSE 0,
                       !.files = IF o = 1 THEN [k \in 1 .. n |-> k] ELSE <<>>]]
  /\ nextClient = 0 /\ stalePid = Forked
  /\ locks = [o \in Owners |-> NoThread] /\ rebuilding = NoThread
  /\ th = [t \in Threads |-> Idle]
  /\ calls = 0 /\ faults = 0 /\ connectFaults = 0 /\ events = {}

Free(o, t) == locks[o] \in {NoThread, t}
Fault == faults < MaxFaults /\ faults' = faults + 1
Step(t, pc) == th' = [th EXCEPT ![t].pc = pc]
Return(t) == th' = [th EXCEPT ![t] = Idle]

Valid(k) == open /\ k \in DOMAIN fds
WithoutTokens(table, gone) == [k \in DOMAIN table \ gone |-> table[k]]

\* _discard_tokens
Discard(gone) ==
  /\ fds' = WithoutTokens(fds, gone)
  /\ deferred' = deferred \ gone

\* One use of native descriptor f of session o for the file of token k.
Misrouted(o, f, k) ==
  IF f \in DOMAIN session[o].files /\ session[o].files[f] # k THEN {"misrouted"} ELSE {}
OnInherited(o) == IF session[o].inherited THEN {"inherited used"} ELSE {}
Used(o) == DOMAIN session[o].files
NativeClosed(o, closing) ==
  [session EXCEPT ![o].files = [f \in DOMAIN @ \ closing |-> @[f]]]
----------------------------------------------------------------------------
(* _reconnect_client, and _ResilientClient.reconnect under it *)

TokensOf(o) == {k \in DOMAIN fds : fds[k].owner = o}

\* Mutant: the old session is shut down also after a fork.
ShutDown(o, why) == IF session[o].live /\ session[o].inherited THEN {"inherited used"} ELSE {}

\* The session is replaced and the old one retired or, after a fork, abandoned.
\* why is "fork", "retry" or "descriptor".
Retired(o, why) ==
  IF session[o].live /\ session[o].inherited /\ why # "fork"
    THEN {IF why = "descriptor" THEN "inherited retired" ELSE "inherited used"} ELSE {}

Reconnected(o, dir, raised) == [session EXCEPT ![o] = [NewSession EXCEPT !.cwd = dir, !.raised = raised]]

\* The outcomes of _reconnect_client(o): ok, or an exception with the session
\* replaced (retiring the old one or the chdir failed) or not (NfsClient failed).
ReconnectClient(o, why, ok) ==
  \/ /\ open /\ ok
     /\ session' = Reconnected(o, cwd, FALSE)
     /\ Discard(TokensOf(o))
     /\ events' = events \cup Retired(o, why)
     /\ UNCHANGED connectFaults
  \/ /\ open /\ ~ok
     /\ connectFaults < MaxConnectFaults /\ connectFaults' = connectFaults + 1
     /\ \/ session' = [session EXCEPT ![o].raised = TRUE] /\ UNCHANGED <<fds, deferred, events>>
        \/ /\ session' = Reconnected(o, Root, TRUE)
           /\ Discard(TokensOf(o))
           /\ events' = events \cup Retired(o, why)
  \/ /\ ~open /\ ~ok                    \* "filesystem is closed"
     /\ UNCHANGED <<session, fds, deferred, events, connectFaults>>

\* _reconnect_all, one owner per step, holding _reconnect_lock.
TakeReconnectLock(t) ==
  /\ th[t].pc = "rebuild" /\ rebuilding = NoThread
  /\ IF th[t].then # "idle" /\ ~stalePid
       THEN Step(t, th[t].then) /\ UNCHANGED rebuilding
       ELSE /\ rebuilding' = t
            /\ th' = [th EXCEPT ![t].pc = "rebuilding",
                                ![t].todo = IF open THEN [i \in Owners |-> i] ELSE <<>>]
  /\ UNCHANGED <<open, session, fds, deferred, nextToken, nextClient, cwd, stalePid,
                 locks, calls, faults, connectFaults, events, kept>>

RebuildOne(t) ==
  /\ th[t].pc = "rebuilding" /\ th[t].todo # <<>>
  /\ Free(Head(th[t].todo), t)
  /\ \E ok \in BOOLEAN :
       /\ ReconnectClient(Head(th[t].todo), IF stalePid THEN "fork" ELSE "retry", ok)
       /\ th' = [th EXCEPT ![t].todo = Tail(@), ![t].failed = @ \/ ~ok]
  /\ UNCHANGED <<open, nextToken, nextClient, cwd, stalePid, locks, rebuilding,
                 calls, faults, kept>>

RebuildEnds(t) ==
  /\ th[t].pc = "rebuilding" /\ th[t].todo = <<>>
  /\ rebuilding' = NoThread
  /\ stalePid' = (stalePid /\ th[t].failed)
  /\ IF th[t].failed THEN Return(t) ELSE Step(t, th[t].then)
  /\ UNCHANGED <<open, session, fds, deferred, nextToken, nextClient, cwd, locks,
                 calls, faults, connectFaults, events, kept>>
----------------------------------------------------------------------------
(* Calls *)

MustRebuild(op) == stalePid /\ op \notin {"shutdown", "reconnect_descriptor"}

Begin(t, op, tok, dir) ==
  /\ th[t].pc = "idle" /\ op \in Ops /\ open
  /\ calls < MaxCalls /\ calls' = calls + 1
  /\ LET first == CASE op \in {"open", "open_many_independent", "path"} -> "retry"
                    [] op \in {"fd", "close", "close_many", "reconnect_descriptor"} -> "resolve"
                    [] op = "chdir" -> "chdir"
                    [] op = "shutdown" -> "shutdown"
     IN  th' = [th EXCEPT ![t] = [Idle EXCEPT !.op = op, !.tok = tok, !.dir = dir,
                  !.then = first,
                  !.pc = IF MustRebuild(op) THEN "rebuild" ELSE first]]
  /\ UNCHANGED <<open, session, fds, deferred, nextToken, nextClient, cwd, stalePid,
                 locks, rebuilding, faults, connectFaults, events, kept>>

Given == 1 .. nextToken - 1      \* tokens some caller may hold
Call(t) ==
  \/ \E op \in {"open", "open_many_independent", "path", "shutdown"} :
       Begin(t, op, <<>>, Root)
  \/ \E op \in {"fd", "close", "reconnect_descriptor"}, k \in Given :
       Begin(t, op, <<k>>, Root)
  \/ \E k, l \in Given : k < l /\ Begin(t, "close_many", <<k, l>>, Root)
  \/ \E dir \in Dirs : Begin(t, "chdir", <<>>, dir)

\* _retry_deferred_closes: first the snapshot, then one owner at a time.
RetryDeferred(t) ==
  /\ th[t].pc = "retry"
  /\ th' = [th EXCEPT ![t].pc = "retrying",
                      ![t].tok = SetToSeq(deferred \cap DOMAIN fds)]
  /\ deferred' = deferred \cap DOMAIN fds
  /\ UNCHANGED <<open, session, fds, nextToken, nextClient, cwd, stalePid, locks,
                 rebuilding, calls, faults, connectFaults, events, kept>>

Snapshot(t) == {th[t].tok[i] : i \in DOMAIN th[t].tok}
RetryOwner(t) ==
  /\ th[t].pc = "retrying" /\ th[t].tok # <<>>
  /\ \E o \in Owners :
       LET live == {k \in Snapshot(t) : k \in DOMAIN fds /\ fds[k].owner = o}
           nativeFds == {fds[k].fd : k \in live}
       IN  /\ Free(o, t)
           /\ th' = [th EXCEPT ![t].tok = SelectSeq(@, LAMBDA k :
                        k \in DOMAIN fds /\ fds[k].owner # o)]
           /\ \/ /\ session' = NativeClosed(o, nativeFds)
                 /\ events' = events \cup UNION {Misrouted(o, fds[k].fd, k) : k \in live}
                 /\ Discard(live)
                 /\ UNCHANGED <<faults, connectFaults>>
              \/ \* a semantic failure after a prefix
                 /\ Fault /\ live # {}
                 /\ \E done \in SUBSET live :
                      /\ done # live
                      /\ session' = NativeClosed(o, {fds[k].fd : k \in done})
                      /\ Discard(done)
                 /\ UNCHANGED <<connectFaults, events>>
              \/ \* transport: the session is rebuilt, failing silently
                 /\ Fault /\ live # {}
                 /\ \E ok \in BOOLEAN : ReconnectClient(o, "retry", ok)
  /\ UNCHANGED <<open, nextToken, nextClient, cwd, stalePid, locks, rebuilding, calls, kept>>

Choose(t) ==
  /\ th[t].pc = "retrying" /\ th[t].tok = <<>>
  /\ IF ~open THEN Return(t) /\ UNCHANGED nextClient
     ELSE IF th[t].op = "open_many_independent"
       THEN /\ th' = [th EXCEPT ![t].pc = "opening",
                        ![t].todo = [i \in 1 .. Batch |-> ((nextClient + i - 1) % Size) + 1]]
            /\ nextClient' = (nextClient + Batch) % Size
       ELSE /\ th' = [th EXCEPT ![t].pc = "locked", ![t].owner = nextClient + 1]
            /\ nextClient' = (nextClient + 1) % Size
  /\ UNCHANGED <<open, session, fds, deferred, nextToken, cwd, stalePid, locks,
                 rebuilding, calls, faults, connectFaults, events, kept>>
----------------------------------------------------------------------------
(* Under the client lock *)

\* client.open and _register, for a caller or for the running call.
Opened(o, who) ==
  /\ kept' = (nextToken :> who) @@ kept
  /\ session' = [session EXCEPT ![o].next = @ + 1,
                   ![o].files = (session[o].next + 1 :> nextToken) @@ @]
  /\ fds' = (nextToken :> [owner |-> o, fd |-> session[o].next + 1]) @@ fds
  /\ nextToken' = nextToken + 1

Open(t) ==
  LET o == th[t].owner
  IN  /\ th[t].pc = "locked" /\ th[t].op = "open" /\ Free(o, t)
      /\ \/ /\ session[o].live /\ nextToken <= MaxTokens
            /\ Opened(o, "caller") /\ events' = events \cup OnInherited(o)
            /\ UNCHANGED faults
         \/ /\ ~session[o].live \/ nextToken > MaxTokens   \* shut down meanwhile
            /\ UNCHANGED <<session, fds, nextToken, faults, kept, events>>
         \/ /\ Fault /\ UNCHANGED <<session, fds, nextToken, kept, events>>
      /\ Return(t)
      /\ UNCHANGED <<open, deferred, nextClient, cwd, stalePid, locks, rebuilding,
                     calls, connectFaults>>

\* An idempotent path operation: after a transport failure the session is
\* rebuilt under its lock and the operation retried once.
PathCall(t) ==
  LET o == th[t].owner
  IN  /\ th[t].pc = "locked" /\ th[t].op = "path" /\ Free(o, t)
      /\ \/ /\ events' = events \cup (IF session[o].live THEN OnInherited(o) ELSE {})
            /\ UNCHANGED <<session, fds, deferred, faults, connectFaults>>
         \/ /\ Fault /\ session[o].live
            /\ \E ok \in BOOLEAN : ReconnectClient(o, "retry", ok)
      /\ Return(t)
      /\ UNCHANGED <<open, nextToken, nextClient, cwd, stalePid, locks, rebuilding, calls, kept>>

\* fd_call, fd_many_call and reconnect_descriptor: resolve without the client
\* lock; a bad descriptor or two sessions end the call.
Resolve(t) ==
  /\ th[t].pc = "resolve"
  /\ LET owners == {fds[k].owner : k \in {th[t].tok[i] : i \in DOMAIN th[t].tok}}
     IN  IF /\ \A i \in DOMAIN th[t].tok : Valid(th[t].tok[i])
            /\ Cardinality(owners) = 1
           THEN th' = [th EXCEPT ![t].pc = "locked",
                                 ![t].owner = fds[th[t].tok[1]].owner,
                                 ![t].got = [i \in DOMAIN th[t].tok |-> fds[th[t].tok[i]].fd]]
           ELSE Return(t)
  /\ UNCHANGED <<open, session, fds, deferred, nextToken, nextClient, cwd, stalePid,
                 locks, rebuilding, calls, faults, connectFaults, events, kept>>

\* The native descriptors used under the lock: resolved again there.
Resolved(t) ==
  IF \A i \in DOMAIN th[t].tok : Valid(th[t].tok[i])
    THEN [i \in DOMAIN th[t].tok |-> fds[th[t].tok[i]].fd] ELSE <<>>

Settled(t, n) == {th[t].tok[i] : i \in 1 .. n}

FdCall(t) ==
  LET o == th[t].owner
      native == Resolved(t)
      closes == th[t].op \in {"close", "close_many"}
  IN  /\ th[t].pc = "locked" /\ th[t].op \in {"fd", "close", "close_many"} /\ Free(o, t)
      /\ \/ /\ native = <<>> /\ Return(t)
            /\ UNCHANGED <<session, fds, deferred, faults, events>>
         \/ /\ native # <<>>
            /\ events' = events \cup OnInherited(o)
                 \cup UNION {Misrouted(o, native[i], th[t].tok[i]) : i \in DOMAIN native}
            /\ \/ \* the native call succeeds, or finds a descriptor closed
                  /\ IF closes /\ \A i \in DOMAIN native : native[i] \in Used(o)
                       THEN /\ session' = NativeClosed(o, ToSet(native))
                            /\ Step(t, "discard")
                       ELSE Return(t) /\ UNCHANGED session
                  /\ UNCHANGED <<fds, deferred, faults>>
               \/ \* it fails; close_many may have closed a prefix
                  /\ Fault
                  /\ \E n \in 0 .. (IF th[t].op = "close_many" THEN Len(native) - 1 ELSE 0) :
                       /\ session' = NativeClosed(o, {native[i] : i \in 1 .. n})
                       /\ Discard(Settled(t, n))
                  /\ Return(t)
      /\ UNCHANGED <<open, nextToken, nextClient, cwd, stalePid, locks, rebuilding,
                     calls, connectFaults, kept>>

\* After the lock is released.
DiscardClosed(t) ==
  /\ th[t].pc = "discard"
  /\ Discard({th[t].tok[i] : i \in DOMAIN th[t].tok})
  /\ Return(t)
  /\ UNCHANGED <<open, session, nextToken, nextClient, cwd, stalePid, locks, rebuilding,
                 calls, faults, connectFaults, events, kept>>

ReconnectDescriptor(t) ==
  /\ th[t].pc = "locked" /\ th[t].op = "reconnect_descriptor" /\ Free(th[t].owner, t)
  /\ \E ok \in BOOLEAN : ReconnectClient(th[t].owner, "descriptor", ok)
  /\ Return(t)
  /\ UNCHANGED <<open, nextToken, nextClient, cwd, stalePid, locks, rebuilding, calls, faults, kept>>
----------------------------------------------------------------------------
(* open_many_independent: one worker per path *)

OpenOne(t) ==
  /\ th[t].pc = "opening"
  /\ \E i \in DOMAIN th[t].todo :
       LET o == th[t].todo[i]
       IN  /\ Free(o, t)
           /\ \/ /\ open /\ session[o].live /\ nextToken <= MaxTokens
                 /\ Opened(o, "pool") /\ events' = events \cup OnInherited(o)
                 /\ th' = [th EXCEPT ![t].todo = RemoveAt(@, i),
                                     ![t].got = Append(@, nextToken)]
                 /\ UNCHANGED faults
              \/ /\ \/ Fault
                    \/ /\ ~open \/ ~session[o].live \/ nextToken > MaxTokens
                       /\ UNCHANGED faults
                 /\ th' = [th EXCEPT ![t].todo = RemoveAt(@, i), ![t].failed = TRUE]
                 /\ UNCHANGED <<session, fds, nextToken, kept, events>>
  /\ UNCHANGED <<open, deferred, nextClient, cwd, stalePid, locks, rebuilding, calls,
                 connectFaults>>

\* All workers are done.  With failures the opened descriptors are grouped by
\* session; a descriptor that no longer resolves ends the call there.
OpenedAll(t) ==
  /\ th[t].pc = "opening" /\ th[t].todo = <<>>
  /\ IF th[t].failed /\ \A i \in DOMAIN th[t].got : Valid(th[t].got[i])
       THEN th' = [th EXCEPT ![t].pc = "cleanup"]
       ELSE Return(t)
  /\ kept' = LET mine == ToSet(th[t].got)
                 who == IF ~th[t].failed THEN "caller"
                        ELSE IF \E k \in mine : ~Valid(k) THEN "nobody" ELSE "pool"
             IN  [k \in DOMAIN kept |-> IF k \in mine THEN who ELSE kept[k]]
  /\ UNCHANGED <<open, session, fds, deferred, nextToken, nextClient, cwd, stalePid,
                 locks, rebuilding, calls, faults, connectFaults, events>>

Cleanup(t) ==
  /\ th[t].pc = "cleanup"
  /\ IF th[t].got = <<>>
       THEN Return(t) /\ UNCHANGED <<session, fds, deferred, faults, events>>
       ELSE LET k == Head(th[t].got)
            IN  /\ th' = [th EXCEPT ![t].got = Tail(@)]
                /\ \/ /\ Valid(k) /\ Free(fds[k].owner, t)
                      /\ session' = NativeClosed(fds[k].owner, {fds[k].fd})
                      /\ events' = events \cup Misrouted(fds[k].owner, fds[k].fd, k)
                      /\ Discard({k}) /\ UNCHANGED faults
                   \/ /\ ~Valid(k) /\ UNCHANGED <<session, fds, deferred, faults, events>>
                   \/ /\ Valid(k) /\ Free(fds[k].owner, t) /\ Fault /\ deferred' = deferred \cup {k}
                      /\ UNCHANGED <<session, fds, events>>
  /\ UNCHANGED <<open, nextToken, nextClient, cwd, stalePid, locks, rebuilding, calls,
                 connectFaults, kept>>
----------------------------------------------------------------------------
(* chdir, shutdown *)

NextLock(t) == LET left == {o \in Owners : locks[o] # t}
               IN  IF left = {} THEN {} ELSE {Min(left)}

ChdirLock(t) ==
  /\ th[t].pc = "chdir"
  /\ \E o \in NextLock(t) : locks[o] = NoThread /\ locks' = [locks EXCEPT ![o] = t]
  /\ UNCHANGED <<open, session, fds, deferred, nextToken, nextClient, cwd, stalePid,
                 rebuilding, th, calls, faults, connectFaults, events, kept>>

Chdir(t) ==
  /\ th[t].pc = "chdir" /\ \A o \in Owners : locks[o] = t
  /\ locks' = [o \in Owners |-> NoThread]
  /\ events' = events \cup (IF open THEN UNION {OnInherited(o) : o \in Owners} ELSE {})
  /\ \/ /\ session' = [o \in Owners |-> IF open THEN [session[o] EXCEPT !.cwd = th[t].dir]
                                        ELSE session[o]]
        /\ cwd' = th[t].dir
        /\ Return(t) /\ UNCHANGED faults
     \/ /\ Fault /\ open
        /\ \E n \in 0 .. Size - 1 :
             session' = [o \in Owners |->
               IF o <= n THEN [session[o] EXCEPT !.cwd = th[t].dir] ELSE session[o]]
        /\ Step(t, "chdir failed") /\ UNCHANGED cwd
  /\ UNCHANGED <<open, fds, deferred, nextToken, nextClient, stalePid, rebuilding,
                 calls, connectFaults, kept>>

\* Outside the locks: _cwd is reset and every session rebuilt.
ChdirFailed(t) ==
  /\ th[t].pc = "chdir failed"
  /\ cwd' = Root
  /\ th' = [th EXCEPT ![t].pc = "rebuild", ![t].then = "idle"]
  /\ UNCHANGED <<open, session, fds, deferred, nextToken, nextClient, stalePid, locks,
                 rebuilding, calls, faults, connectFaults, events, kept>>

Shutdown(t) ==
  /\ th[t].pc = "shutdown"
  /\ open' = FALSE /\ fds' = <<>> /\ deferred' = {}
  /\ th' = [th EXCEPT ![t].pc = "retiring",
                      ![t].todo = IF open THEN [i \in Owners |-> i] ELSE <<>>]
  /\ UNCHANGED <<session, nextToken, nextClient, cwd, stalePid, locks, rebuilding,
                 calls, faults, connectFaults, events, kept>>

ShutdownOne(t) ==
  /\ th[t].pc = "retiring"
  /\ IF th[t].todo = <<>> THEN Return(t) /\ UNCHANGED <<session, events>>
     ELSE LET o == Head(th[t].todo)
          IN  /\ Free(o, t)
              /\ session' = [session EXCEPT ![o].live = FALSE]
              /\ events' = events \cup Retired(o, IF session[o].inherited THEN "fork" ELSE "retry")
              /\ th' = [th EXCEPT ![t].todo = Tail(@)]
  /\ UNCHANGED <<open, fds, deferred, nextToken, nextClient, cwd, stalePid, locks,
                 rebuilding, calls, faults, connectFaults, kept>>

Work(t) ==
  \/ TakeReconnectLock(t) \/ RebuildOne(t) \/ RebuildEnds(t) \/ RetryDeferred(t)
  \/ RetryOwner(t) \/ Choose(t) \/ Open(t) \/ PathCall(t) \/ Resolve(t) \/ FdCall(t)
  \/ DiscardClosed(t) \/ ReconnectDescriptor(t) \/ OpenOne(t) \/ OpenedAll(t)
  \/ Cleanup(t) \/ ChdirLock(t) \/ Chdir(t) \/ ChdirFailed(t) \/ Shutdown(t)
  \/ ShutdownOne(t)
Next == \E t \in Threads : Call(t) \/ Work(t)
Spec == Init /\ [][Next]_vars /\ \A t \in Threads : WF_vars(Work(t))
----------------------------------------------------------------------------
(* Properties *)

Quiet == \A t \in Threads : th[t].pc = "idle"

\* A virtual descriptor never reaches another file: whatever reconnects between
\* resolving a token and using it, the native descriptor number that is sent
\* belongs to the session and file the token was opened for.
NeverMisrouted == "misrouted" \notin events

\* In a fork child nothing is sent over a session inherited from the parent, not
\* even its CLOSE, whichever call comes first and whichever reconnect fails.
\* The exception is reconnect_descriptor of an inherited descriptor, which does
\* not ask for the process and shuts the parent's session down (_fs.py:805-808,
\* reached from _BufferGroup._reopen_readers).
ParentUntouched == "inherited used" \notin events

\* Between calls every live session has the working directory of the pool, also
\* after a chdir that failed half way while other threads rebuilt sessions,
\* unless its last reconnect raised: then nobody repeats the chdir
\* (_fs.py:785-788).
CwdAgrees ==
  (Quiet /\ open) =>
    \A o \in Owners : (session[o].live /\ ~session[o].raised) => session[o].cwd = cwd

\* After shutdown no session is left, whatever was in flight, and every native
\* descriptor of a live session has a token that a caller holds or the pool
\* will close.  The exception is a failed open_many_independent one of whose
\* descriptors a reconnect has taken away: its clean-up stops at _resolve and
\* nobody closes the others before the session goes (_fs.py:910).
NothingLeaks ==
  Quiet =>
    /\ ~open => \A o \in Owners : ~session[o].live
    /\ \A o \in Owners : session[o].live =>
         \A f \in Used(o) : \E k \in DOMAIN fds :
           fds[k] = [owner |-> o, fd |-> f] /\ (kept[k] \in {"caller", "nobody"} \/ k \in deferred)

=============================================================================
