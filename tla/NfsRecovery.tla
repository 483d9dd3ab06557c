----------------------------- MODULE NfsRecovery ----------------------------
(***************************************************************************)
(* The NFSv4.1 server as crates/vfsi-nfs uses it (external code): client   *)
(* IDs with a lease, one slot per session, OPEN state, and requests whose  *)
(* sender gave up on them but that the server may still execute.           *)
(*                                                                         *)
(* A connection creates at most one session, so sessions are named by the  *)
(* number of their connection.  A stateid names client ID, open owner and  *)
(* object, plus an instance number: the server keeps one OPEN per owner    *)
(* and object, and a second OPEN of it makes the first stateid stale.      *)
(***************************************************************************)
EXTENDS Integers

CONSTANTS
  Conns,    \* connection numbers, 1..n
  Cids,     \* client IDs, 1..n
  Objs,     \* objects (filehandles)
  SeqMod    \* slot sequence numbers are 32 bit in the code: SeqMod = 2^32

ASSUME ServerConstants ==
  /\ Conns \in SUBSET (Nat \ {0})
  /\ Cids \in SUBSET (Nat \ {0})
  /\ SeqMod \in Nat \ {0, 1}

VARIABLES
  lease,     \* Cids -> "free", "unconfirmed", "confirmed" or "gone"
  sess,      \* Conns -> slot sequence number of the session, or NoSession
  sessCid,   \* Conns -> client ID the session was created for
  opens,     \* stateids the server would accept
  gen,       \* instance number of the last OPEN
  late,      \* requests abandoned by their sender and not executed so far
  written    \* history: how often each WRITE was applied

serverVars == <<lease, sess, sessCid, opens, gen, late, written>>

NoSession == -1
NoCid == 0
Seqs == 0..(SeqMod - 1)
Succ(s) == IF s = SeqMod - 1 THEN 0 ELSE s + 1

Stateids == [cid: Cids, owner: Nat, obj: Objs, gen: Nat]
Key(st) == <<st.cid, st.owner, st.obj>>
Live(c) == lease[c] \in {"unconfirmed", "confirmed"}

\* What a COMPOUND asks for: OPENs <<owner, obj>>, CLOSEs of stateids, WRITEs;
\* "use" holds the stateids its READs and WRITEs present.
Requests == [conn: Conns, seq: Seqs, open: SUBSET (Nat \X Objs),
             close: SUBSET Stateids, write: SUBSET Nat, use: SUBSET Stateids]

\* SEQUENCE is accepted: the session exists and the sequence number is next.
Accepts(k, s) == sess[k] # NoSession /\ s = Succ(sess[k])

\* The stateids that executing the OPENs of q creates.
Created(q) == {[cid |-> sessCid[q.conn], owner |-> o[1], obj |-> o[2], gen |-> gen + 1] :
               o \in q.open}

\* SEQUENCE succeeds and the operations q (a prefix of those sent) execute.
Execute(q) ==
  /\ sess' = [sess EXCEPT ![q.conn] = q.seq]
  /\ opens' = {st \in opens : st \notin q.close
                              /\ \A new \in Created(q) : Key(st) # Key(new)}
              \cup Created(q)
  /\ gen' = IF q.open = {} THEN gen ELSE gen + 1
  /\ written' = [w \in DOMAIN written |->
                   written[w] + (IF w \in q.write /\ q.use \subseteq opens THEN 1 ELSE 0)]
  /\ UNCHANGED <<lease, sessCid>>

\* A request that was delayed past its sender's timeout reaches the server.
LateRequest ==
  \E q \in late :
    /\ Accepts(q.conn, q.seq)
    /\ Execute(q)
    /\ late' = late \ {q}

\* EXCHANGE_ID: a known confirmed owner keeps its client ID; otherwise a new
\* unconfirmed record replaces an unconfirmed one of the same owner.
Confirmed == {c \in Cids : lease[c] = "confirmed"}
ExchangeNew(c, stable) ==
  /\ lease[c] = "free"
  /\ lease' = [d \in Cids |-> IF d = c THEN "unconfirmed"
                              ELSE IF stable /\ lease[d] = "unconfirmed" THEN "gone"
                              ELSE lease[d]]

\* CREATE_SESSION on connection k confirms the client ID.
CreateSession(k, c) ==
  /\ Live(c)
  /\ lease' = [lease EXCEPT ![c] = "confirmed"]
  /\ sess' = [sess EXCEPT ![k] = 0]
  /\ sessCid' = [sessCid EXCEPT ![k] = c]

\* A request of a session that is gone can never be accepted again.
DestroySession(k) ==
  /\ sess' = [sess EXCEPT ![k] = NoSession]
  /\ late' = {q \in late : q.conn # k}

\* DESTROY_CLIENTID is refused while sessions or OPENs of the client remain.
Busy(c) == (\E k \in Conns : sess[k] # NoSession /\ sessCid[k] = c)
           \/ (\E st \in opens : st.cid = c)

\* Lease expiry, or a restart of the server: the client's state is gone.
Forget(c) ==
  /\ Live(c)
  /\ lease' = [lease EXCEPT ![c] = "gone"]
  /\ sess' = [k \in Conns |-> IF sessCid[k] = c THEN NoSession ELSE sess[k]]
  /\ late' = {q \in late : sessCid[q.conn] # c}
  /\ opens' = {st \in opens : st.cid # c}
  /\ UNCHANGED <<sessCid, gen, written>>

ServerTypeOK ==
  /\ lease \in [Cids -> {"free", "unconfirmed", "confirmed", "gone"}]
  /\ sess \in [Conns -> Seqs \cup {NoSession}]
  /\ sessCid \in [Conns -> Cids \cup {NoCid}]
  /\ opens \in SUBSET Stateids
  /\ gen \in Nat
  /\ late \in SUBSET Requests

-----------------------------------------------------------------------------
(***************************************************************************)
(* One NfsVecFs over its sessions: the slot discipline and the identity    *)
(* handling of session.rs, descriptors and deferred CLOSEs of nfs/open.rs  *)
(* and nfs/handle_backend.rs, reconnect and read_with_recovery of          *)
(* nfs/recovery.rs.  The caller holds &mut self, so API calls follow each  *)
(* other; the server forgets leases and executes late requests in between. *)
(*                                                                         *)
(* Connection k is the k-th Session built.  cur is the one self owns, rep  *)
(* the replacement under construction.  mem::swap is cur' = rep; abandon() *)
(* (which only suppresses the teardown RPCs of the old Session) is the     *)
(* absence of a teardown of the old cur.                                   *)
(***************************************************************************)

CONSTANTS
  Fds,             \* descriptor numbers, 1..n
  Writes,          \* WRITE calls, 1..n
  NoState,         \* no OPEN state
  StableOwner,     \* client_owner is configured
  AutoReconnect,   \* auto_reconnect
  Attempts,        \* reconnect_attempts, at least 1
  ReadChunks,      \* READ compounds of one vectored read
  MaxOffset,       \* bound: file positions the model follows
  MaxOwner,        \* bound: OPENs are started with owner numbers below it
  MaxFaults        \* bound: failures and losses the environment may cause

ASSUME RecoveryConstants ==
  /\ Fds \in SUBSET Nat /\ Writes \in SUBSET Nat
  /\ NoState \notin Stateids
  /\ StableOwner \in BOOLEAN /\ AutoReconnect \in BOOLEAN
  /\ Attempts \in Nat \ {0} /\ ReadChunks \in Nat \ {0}
  /\ MaxOffset \in Nat /\ MaxOwner \in Nat /\ MaxFaults \in Nat
  /\ 1 \in Conns /\ 1 \in Cids

VARIABLES
  cid, seq, created, owns, poisoned,   \* Session, per connection
  nextOwner,   \* next_public_open_owner_id, per connection
  files,       \* open_files: descriptor -> stateid or NoState, per connection
  off,         \* cur_offset, per connection and descriptor
  deferFd,     \* deferred_descriptor_closes, per connection
  deferPath,   \* deferred_path_closes, per connection
  cur, rep, used,      \* self, the replacement (0: none), last connection built
  nextFd, nextWrite,   \* descriptors and WRITE calls handed out so far
  pc, call, attempt,   \* step of the API call under way, the call, its attempt
  pend,        \* the OPEN that open_path_impl has not registered so far
  todo,        \* <<descriptor, new owner>> still to be reopened
  faults,      \* environment failures so far
  told,        \* history: what each WRITE call returned
  delivered,   \* history: position up to which reads of a descriptor returned
  held,        \* history: stateids that were registered in self at some time
  downOk       \* history: whether shutdown has met no error

connVars == <<cid, created, owns>>
fdVars == <<files, off, deferFd, deferPath, nextOwner>>
selfVars == <<cur, rep, used, nextFd, nextWrite>>
ctlVars == <<pc, call, attempt, pend, todo>>
histVars == <<told, delivered, held, downOk>>
vars == <<serverVars, connVars, seq, poisoned, fdVars, selfVars, ctlVars, faults, histVars>>

NoCall == [kind |-> "none", fd |-> 0, start |-> 0, chunk |-> 0, retried |-> FALSE]
Calls == [kind: {"none", "read", "reconnect", "shutdown", "drop"}, fd: Nat, start: Nat, chunk: Nat,
          retried: BOOLEAN]
Steps == {"idle", "register", "unregister", "read", "exchange", "create", "reclaim",
          "mount", "reopen", "retireClose", "retireSession", "dropClose", "dropSession",
          "dropClient", "downClose", "downDrain", "downSession", "downClient", "down"}

OpenFds(k) == {fd \in Fds : files[k][fd] # NoState}
FileStates(k) == {files[k][fd] : fd \in OpenFds(k)}
Tracked(k) == FileStates(k) \cup deferFd[k] \cup deferPath[k]

----------------------------------------------------------------------------
(* Session::compound.                                                      *)

\* Requests as they are built: OPENs, CLOSEs, WRITEs and the stateids in use.
Ask(k, o, c, w, u) ==
  [conn |-> k, seq |-> seq[k], open |-> o, close |-> c, write |-> w, use |-> u]
Plain(k) == Ask(k, {}, {}, {}, {})
Opening(k, o) == Ask(k, o, {}, {}, {})
Closes(k, c) == Ask(k, {}, c, {}, {})

Part(q, o, c, w) ==
  [conn |-> q.conn, seq |-> q.seq, open |-> o, close |-> c, write |-> w, use |-> q.use]
Parts(q) == {Part(q, o, c, w) : o \in SUBSET q.open, c \in SUBSET q.close, w \in SUBSET q.write}
Nothing(q) == Part(q, {}, {}, {})
HasEffect(q) == q.open # {} \/ q.close # {} \/ q.write # {}

Fault == faults < MaxFaults /\ faults' = faults + 1
FaultUnless(forced) == IF forced THEN UNCHANGED faults ELSE Fault

Unsent == UNCHANGED serverVars
Quiet == Unsent /\ UNCHANGED <<seq, poisoned, faults>>   \* no RPC at all
Advance(k) == seq' = [seq EXCEPT ![k] = Succ(@)] /\ UNCHANGED poisoned
NotPoisoned(k) == UNCHANGED <<poisoned, seq>>
Poison(k) == poisoned' = [poisoned EXCEPT ![k] = TRUE] /\ UNCHANGED seq

\* Every operation succeeded: the slot number advances.
Answered(k, q) ==
  /\ Accepts(k, q.seq) /\ q.close \cup q.use \subseteq opens
  /\ Execute(q) /\ Advance(k) /\ UNCHANGED <<late, faults>>

\* SEQUENCE succeeded and a later operation failed, after part of q ran.
Failed(k, q, part) ==
  /\ Accepts(k, q.seq) /\ part.close \subseteq opens /\ part.write = {}
  /\ part = q => ~HasEffect(q)
  /\ FaultUnless(~(q.close \cup q.use \subseteq opens))
  /\ Execute(part) /\ Advance(k) /\ UNCHANGED late

\* SEQUENCE failed, or the reply has no operation results: nothing consumed.
Rejected(k, q) ==
  /\ FaultUnless(~Accepts(k, q.seq))
  /\ Unsent /\ UNCHANGED <<seq, poisoned>>

\* An RPC error: the server ran part of q, or has not seen it so far.
Lost(k, q, part) ==
  /\ Fault /\ Poison(k)
  /\ \/ Accepts(k, q.seq) /\ Execute(part) /\ UNCHANGED late
     \/ /\ part = Nothing(q) /\ late' = IF HasEffect(q) THEN late \cup {q} ELSE late
        /\ UNCHANGED <<lease, sess, sessCid, opens, gen, written>>

\* One COMPOUND q on connection k: r is what the caller learns, part what the
\* server executed before it.  A poisoned session refuses to send anything.
Compound(k, q, part, r) ==
  \/ r = "ok" /\ ~poisoned[k] /\ part = q /\ Answered(k, q)
  \/ r = "op" /\ ~poisoned[k] /\ Failed(k, q, part)
  \/ r = "rejected" /\ ~poisoned[k] /\ part = Nothing(q) /\ Rejected(k, q)
  \/ r = "lost" /\ ~poisoned[k] /\ Lost(k, q, part)
  \/ r = "refused" /\ poisoned[k] /\ part = Nothing(q) /\ Quiet

Replies == {"ok", "op", "rejected", "lost", "refused"}

----------------------------------------------------------------------------
(* Descriptors: open_path_impl, close_impl, close_deferred, vwrite, vread. *)

Return == pc' = "idle" /\ call' = NoCall

\* next_public_open_owner_name.
TakeOwner(k) == nextOwner' = [nextOwner EXCEPT ![k] = @ + 1]

\* open_slot: a fresh public owner for every OPEN, whatever its outcome.
OpenFile(obj) ==
  LET q == Opening(cur, {<<nextOwner[cur], obj>>}) IN
  /\ pc = "idle" /\ nextFd + 1 \in Fds /\ ~poisoned[cur] /\ nextOwner[cur] < MaxOwner
  /\ TakeOwner(cur)
  /\ \E r \in Replies, part \in Parts(q) :
       /\ Compound(cur, q, part, r)
       /\ IF r = "ok"
          THEN pc' = "register" /\ pend' = Created(q)
          ELSE UNCHANGED <<pc, pend>>
  /\ UNCHANGED <<connVars, files, off, deferFd, deferPath, selfVars, call, attempt, todo, histVars>>

\* The setup SETATTRs succeeded, or none was needed: insert_open_file.
Register ==
  /\ pc = "register" /\ Quiet
  /\ nextFd' = nextFd + 1
  /\ files' = [files EXCEPT ![cur][nextFd + 1] = CHOOSE st \in pend : TRUE]
  /\ off' = [off EXCEPT ![cur][nextFd + 1] = 0]
  /\ pend' = {} /\ Return
  /\ held' = held \cup pend
  /\ UNCHANGED <<connVars, deferFd, deferPath, nextOwner, cur, rep, used, nextWrite,
                 attempt, todo, told, delivered, downOk>>

\* A setup SETATTR failed: the OPEN is closed as well as possible.
SetupFails ==
  /\ pc = "register" /\ pc' = "unregister"
  /\ \E r \in {"op", "lost"} : Compound(cur, Plain(cur), Plain(cur), r)
  /\ UNCHANGED <<connVars, fdVars, selfVars, call, attempt, pend, todo, histVars>>

Unregister ==
  LET q == Closes(cur, pend) IN
  /\ pc = "unregister" /\ Return /\ pend' = {}
  /\ \E r \in Replies, part \in Parts(q) : Compound(cur, q, part, r)
  /\ UNCHANGED <<connVars, fdVars, selfVars, attempt, todo, histVars>>

\* close_impl: the descriptor goes at once; an unconfirmed CLOSE is deferred.
CloseFile(fd) ==
  LET st == files[cur][fd]
      q == Closes(cur, {st}) IN
  /\ pc = "idle" /\ fd \in OpenFds(cur)
  /\ files' = [files EXCEPT ![cur][fd] = NoState]
  /\ \E r \in Replies, part \in Parts(q) :
       /\ Compound(cur, q, part, r)
       /\ deferFd' = IF r = "ok" THEN deferFd ELSE [deferFd EXCEPT ![cur] = @ \cup {st}]
  /\ UNCHANGED <<connVars, off, deferPath, nextOwner, selfVars, ctlVars, histVars>>

\* drain_deferred_descriptor_closes: a status error names the first CLOSE
\* that was not confirmed, a transport error confirms none.
DrainDeferred ==
  LET q == Closes(cur, deferFd[cur]) IN
  /\ pc = "idle" /\ deferFd[cur] # {}
  /\ \E r \in Replies, part \in Parts(q) :
       /\ Compound(cur, q, part, r)
       /\ deferFd' = [deferFd EXCEPT ![cur] =
                        CASE r = "ok" -> {}
                          [] r = "op" -> @ \ part.close
                          [] OTHER -> @]
  /\ UNCHANGED <<connVars, files, off, deferPath, nextOwner, selfVars, ctlVars, histVars>>

\* (mutant) The WRITE is sent again when its reply was lost.
WriteFileRetried(fd) ==
  LET w == nextWrite + 1
      q == Ask(cur, {}, {}, {w}, {files[cur][fd]}) IN
  /\ pc = "idle" /\ fd \in OpenFds(cur) /\ w \in Writes
    /\ \E r \in Replies, part \in Parts(q) :
       /\ Compound(cur, q, part, r)
       /\ nextWrite' = IF r = "lost" THEN nextWrite ELSE w
       /\ told' = [told EXCEPT ![w] = CASE r = "ok" -> "ok" [] r = "lost" -> "unknown"
                                        [] OTHER -> "failed"]
  /\ UNCHANGED <<connVars, fdVars, cur, rep, used, nextFd, ctlVars, delivered, held, downOk>>

\* A descriptor WRITE: sent once, whatever comes back.
WriteFile(fd) ==
  LET w == nextWrite + 1
      q == Ask(cur, {}, {}, {w}, {files[cur][fd]}) IN
  /\ pc = "idle" /\ fd \in OpenFds(cur) /\ w \in Writes
  /\ nextWrite' = w
  /\ \E r \in Replies, part \in Parts(q) :
       /\ Compound(cur, q, part, r)
       /\ told' = [told EXCEPT ![w] = CASE r = "ok" -> "ok" [] r = "lost" -> "unknown"
                                        [] OTHER -> "failed"]
  /\ UNCHANGED <<connVars, fdVars, cur, rep, used, nextFd, ctlVars, delivered, held, downOk>>

\* vread: resolve_offset, then the READ compounds; see vread_batch_nfs.
ReadFile(fd) ==
  /\ pc = "idle" /\ fd \in OpenFds(cur) /\ off[cur][fd] + ReadChunks <= MaxOffset
  /\ pc' = "read"
  /\ call' = [kind |-> "read", fd |-> fd, start |-> off[cur][fd], chunk |-> 1,
              retried |-> FALSE]
  /\ Quiet
  /\ UNCHANGED <<connVars, fdVars, selfVars, attempt, pend, todo, histVars>>

PublishedEach(fd) == [off EXCEPT ![cur][fd] = @ + 1]
\* Cursors move once, after the last chunk of the whole vector.
Published(fd) == [off EXCEPT ![cur][fd] =
                    IF call.chunk = ReadChunks THEN call.start + ReadChunks ELSE @]

\* The first attempt of reconnect: a new connection number.
FirstAttempt == attempt' = 1 /\ used' = used + 1 /\ rep' = used + 1 /\ pc' = "exchange"

\* read_with_recovery: one reconnect for an error that needs_recovery names;
\* the error of a retried read, and any other error, goes to the caller.
Recover ==
  \/ /\ AutoReconnect /\ ~call.retried /\ used + 1 \in Conns
     /\ FirstAttempt /\ UNCHANGED call
  \/ Return /\ UNCHANGED <<rep, used, attempt>>

\* One READ compound of vread_batch_nfs.
ReadChunk ==
  LET q == Ask(cur, {}, {}, {}, {files[cur][call.fd]})
      last == call.chunk = ReadChunks IN
  /\ pc = "read"
  /\ \E r \in Replies :
       /\ Compound(cur, q, q, r)
       /\ IF r = "ok"
          THEN /\ off' = Published(call.fd)
               /\ IF last THEN Return ELSE call' = [call EXCEPT !.chunk = @ + 1] /\ pc' = pc
               /\ delivered' = [delivered EXCEPT ![call.fd] = @ + (IF last THEN ReadChunks ELSE 0)]
               /\ UNCHANGED <<rep, used, attempt>>
          ELSE Recover /\ UNCHANGED <<off, delivered>>
  /\ UNCHANGED <<connVars, files, deferFd, deferPath, nextOwner, cur, nextFd, nextWrite,
                 pend, todo, told, held, downOk>>

----------------------------------------------------------------------------
(* reconnect, reconnect_once and the handshake of Session.                 *)

Reconnect ==
  /\ pc = "idle" /\ used + 1 \in Conns /\ FirstAttempt
  /\ call' = [NoCall EXCEPT !.kind = "reconnect"]
  /\ Quiet
  /\ UNCHANGED <<connVars, fdVars, cur, nextFd, nextWrite, pend, todo, histVars>>

\* (mutant) The attempts start again when they are used up.
AttemptFailsAgain(k) ==
  \/ /\ k \in Conns /\ attempt' = IF attempt < Attempts THEN attempt + 1 ELSE 1
     /\ used' = k /\ rep' = k /\ pc' = "exchange" /\ UNCHANGED call
  \/ k \notin Conns /\ Return /\ attempt' = 0 /\ rep' = 0 /\ UNCHANGED used

\* The next attempt of the loop, as connection k; or the loop ends (attempts or
\* time used up, or the object is stale) and the call returns the error.
AttemptFails(k) ==
  \/ /\ attempt < Attempts /\ k \in Conns
     /\ attempt' = attempt + 1 /\ used' = k /\ rep' = k
     /\ pc' = "exchange" /\ UNCHANGED call
  \/ Return /\ attempt' = 0 /\ rep' = 0 /\ UNCHANGED used

\* exchange_id: a confirmed identity is shared with the old connection.
ExchangeOk ==
  /\ \/ /\ StableOwner /\ \E c \in Confirmed : cid' = [cid EXCEPT ![rep] = c]
        /\ UNCHANGED <<lease, owns>>
     \/ /\ StableOwner => Confirmed = {}
        /\ \E c \in Cids : ExchangeNew(c, StableOwner) /\ cid' = [cid EXCEPT ![rep] = c]
        /\ owns' = [owns EXCEPT ![rep] = TRUE]
  /\ pc' = "create"
  /\ UNCHANGED <<call, attempt, rep, used, faults>>

\* check_credentials refuses, or no connection is made: no Session is built, so
\* the number is free for the next attempt, and the server may refuse for ever.
ConnectFails == AttemptFails(rep) /\ UNCHANGED <<lease, cid, owns, faults>>

\* EXCHANGE_ID failed; clientid is still 0, nothing to undo.
ExchangeFails ==
  /\ Fault /\ AttemptFails(used + 1)
  /\ \/ \E c \in Cids : (StableOwner => Confirmed = {}) /\ ExchangeNew(c, StableOwner)
     \/ UNCHANGED lease
  /\ UNCHANGED <<cid, owns>>

Exchange ==
  /\ pc = "exchange" /\ (ExchangeOk \/ ConnectFails \/ ExchangeFails)
  /\ UNCHANGED <<sess, sessCid, opens, gen, late, written, created, seq, poisoned, fdVars, cur,
                 nextFd, nextWrite, pend, todo, histVars>>

\* create_session: session_created precedes the check of the channel limits.
Create ==
  /\ pc = "create"
  /\ \/ /\ CreateSession(rep, cid[rep])
        /\ \/ created' = [created EXCEPT ![rep] = TRUE] /\ pc' = "reclaim" /\ UNCHANGED faults
           \/ created' = [created EXCEPT ![rep] = TRUE] /\ pc' = "dropSession" /\ Fault
           \/ UNCHANGED created /\ pc' = "dropSession" /\ Fault
     \/ /\ pc' = "dropSession" /\ FaultUnless(~Live(cid[rep]))
        /\ UNCHANGED <<lease, sess, sessCid, created>>
  /\ UNCHANGED <<opens, gen, late, written, cid, owns, seq, poisoned, fdVars, selfVars, call,
                 attempt, pend, todo, histVars>>

\* reclaim_complete; COMPLETE_ALREADY counts as success.
Reclaim ==
  /\ pc = "reclaim"
  /\ \E r \in Replies :
       /\ Compound(rep, Plain(rep), Plain(rep), r)
       /\ pc' = IF r = "ok" THEN "mount" ELSE "dropSession"
  /\ UNCHANGED <<connVars, fdVars, selfVars, call, attempt, pend, todo, histVars>>

\* Owner names for the snapshots, in the order the table yields them: count
\* numbers from first on, one for each descriptor.
OwnerChoices(first, count, fds) ==
  {f \in [fds -> first..(first + count - 1)] :
     /\ \A a, b \in fds : f[a] = f[b] => a = b
     /\ \A o \in first..(first + count - 1) : \E fd \in fds : f[fd] = o}

FirstOwnerZero == 0
\* prepare_reconnect: owners continue after those of the old connection.
FirstOwner == nextOwner[cur]

\* session_mount_root and mount.verify, then the owner names that
\* openv_handle_compound takes.
Mount ==
  LET first == FirstOwner IN
  /\ pc = "mount"
  /\ \E r \in Replies :
       /\ Compound(rep, Plain(rep), Plain(rep), r)
       /\ IF r = "ok"
          THEN /\ \E count \in 0..nextFd : \E f \in OwnerChoices(first, count, OpenFds(cur)) :
                    /\ todo' = {<<fd, f[fd]>> : fd \in OpenFds(cur)}
                    /\ nextOwner' = [nextOwner EXCEPT ![rep] = first + count]
               /\ pc' = IF OpenFds(cur) = {} THEN "retireClose" ELSE "reopen"
          ELSE pc' = "dropSession" /\ UNCHANGED <<todo, nextOwner>>
  /\ UNCHANGED <<connVars, files, off, deferFd, deferPath, selfVars, call, attempt, pend,
                 histVars>>

\* openv_handle_compound with CLAIM_FH: chunks in owner order; what a failed
\* chunk still opened is registered in the replacement and closed with it.
Reopen ==
  \E chunk \in SUBSET todo \ {{}} :
    LET want(p) == <<p[2], files[cur][p[1]].obj>>
        q == Opening(rep, {want(p) : p \in chunk}) IN
    /\ pc = "reopen" /\ \A p \in chunk, o \in todo \ chunk : p[2] < o[2]
    /\ \E r \in Replies, part \in Parts(q) :
         LET got == IF r \in {"ok", "op"} THEN {p \in chunk : want(p) \in part.open} ELSE {}
             opened(fd) == {st \in Created(part) : \E p \in got : p[1] = fd /\ p[2] = st.owner}
         IN
         /\ Compound(rep, q, part, r)
         /\ files' = [files EXCEPT ![rep] = [fd \in Fds |->
                        IF \E p \in got : p[1] = fd THEN CHOOSE st \in opened(fd) : TRUE
                        ELSE @[fd]]]
         /\ off' = [off EXCEPT ![rep] = [fd \in Fds |->
                      IF \E p \in got : p[1] = fd THEN off[cur][fd] ELSE @[fd]]]
         /\ todo' = IF r = "ok" THEN todo \ chunk ELSE {}
         /\ pc' = IF r # "ok" THEN "dropClose" ELSE IF chunk = todo THEN "retireClose" ELSE pc
    /\ UNCHANGED <<connVars, deferFd, deferPath, nextOwner, selfVars, call, attempt, pend,
                   histVars>>

\* The NfsVecFs and the Session of connection k are dropped.
Freed(k) ==
  /\ cid' = [cid EXCEPT ![k] = NoCid] /\ created' = [created EXCEPT ![k] = FALSE]
  /\ seq' = [seq EXCEPT ![k] = 1] /\ poisoned' = [poisoned EXCEPT ![k] = FALSE]
  /\ nextOwner' = [nextOwner EXCEPT ![k] = 0] /\ off' = [off EXCEPT ![k] = [fd \in Fds |-> 0]]

\* mem::swap: the replacement becomes self; a read runs again from its plan.
Adopt ==
  /\ cur' = rep /\ rep' = 0 /\ attempt' = 0 /\ Freed(cur)
  /\ files' = [files EXCEPT ![cur] = [fd \in Fds |-> NoState]]
  /\ deferFd' = [deferFd EXCEPT ![cur] = {}]
  /\ deferPath' = [deferPath EXCEPT ![cur] = {}]
  /\ IF call.kind = "read"
     THEN /\ pc' = "read"
          /\ call' = [call EXCEPT !.start = off[rep][call.fd], !.chunk = 1, !.retried = TRUE]
     ELSE Return
  /\ held' = held \cup FileStates(rep)
  /\ UNCHANGED <<used, nextFd, nextWrite>>

\* Everything the old connection still had to close.
Obsolete == Tracked(cur)

\* retire_replaced_connection: only a shared identity still has the old OPENs.
RetireClose ==
  LET old == Obsolete
      q == Closes(rep, old) IN
  /\ pc = "retireClose"
  /\ \/ cid[rep] # cid[cur] /\ Unsent /\ Adopt /\ UNCHANGED faults
        /\ owns' = [owns EXCEPT ![cur] = FALSE]
     \/ /\ cid[rep] = cid[cur] /\ pc' = "retireSession"
        /\ IF old = {} THEN Quiet /\ UNCHANGED deferPath
           ELSE \E r \in Replies, part \in Parts(q) :
                  /\ Compound(rep, q, part, r)
                  /\ deferPath' = IF r = "ok" THEN deferPath
                                  ELSE [deferPath EXCEPT ![rep] = @ \cup old]
        /\ UNCHANGED <<connVars, off, nextOwner, files, deferFd, selfVars, call, attempt, held>>
  /\ UNCHANGED <<pend, todo, told, delivered, downOk>>

\* retire_previous_session: best effort, then the old ownership is inherited.
RetireSession ==
  /\ pc = "retireSession"
  /\ \/ DestroySession(cur) /\ UNCHANGED faults
     \/ UNCHANGED <<sess, late>> /\ FaultUnless(sess[cur] = NoSession)
  /\ owns' = [owns EXCEPT ![rep] = owns[cur], ![cur] = FALSE]
  /\ Adopt
  /\ UNCHANGED <<lease, sessCid, opens, gen, written, pend, todo, told, delivered, downOk>>

----------------------------------------------------------------------------
(* Teardown: of a failed replacement (Drop), of self (shutdown or Drop).   *)

Teardown(kind) ==
  /\ pc = "idle" /\ pc' = "downClose"
  /\ call' = [NoCall EXCEPT !.kind = kind] /\ downOk' = TRUE
  /\ Quiet
  /\ UNCHANGED <<connVars, fdVars, selfVars, attempt, pend, todo, told, delivered, held>>

Closing(k) == FileStates(k) \cup deferFd[k]

\* close_many of every descriptor and every deferred descriptor CLOSE.
CloseAll ==
  LET k == IF pc = "downClose" THEN cur ELSE rep
      all == Closing(k)
      q == Closes(k, all) IN
  /\ pc \in {"dropClose", "downClose"}
  /\ pc' = IF pc = "dropClose" THEN "dropSession"
           ELSE IF call.kind = "shutdown" THEN "downDrain" ELSE "downSession"
  /\ files' = [files EXCEPT ![k] = [fd \in Fds |-> NoState]]
  /\ deferFd' = [deferFd EXCEPT ![k] = {}]
  /\ IF all = {} THEN Quiet /\ UNCHANGED downOk
     ELSE \E r \in Replies, part \in Parts(q) :
            Compound(k, q, part, r) /\ downOk' = (downOk /\ r = "ok")
  /\ UNCHANGED <<connVars, off, deferPath, nextOwner, selfVars, call, attempt, pend, todo,
                 told, delivered, held>>

\* drain_deferred_path_closes: a stateid the server no longer knows is done.
DownDrain ==
  /\ pc = "downDrain"
  /\ \/ deferPath[cur] = {} /\ Quiet /\ pc' = "downSession" /\ UNCHANGED <<deferPath, downOk>>
     \/ \E st \in deferPath[cur] :
          LET q == Closes(cur, {st}) IN
          \E r \in Replies, part \in Parts(q) :
            /\ Compound(cur, q, part, r)
            /\ IF r = "ok" \/ (r = "op" /\ st \notin opens)
               THEN /\ deferPath' = [deferPath EXCEPT ![cur] = @ \ {st}]
                    /\ UNCHANGED <<pc, downOk>>
               ELSE pc' = "downSession" /\ downOk' = FALSE /\ UNCHANGED deferPath
  /\ UNCHANGED <<connVars, files, off, deferFd, nextOwner, selfVars, call, attempt, pend, todo,
                 told, delivered, held>>

\* Session::shutdown, first half: BADSESSION and DEADSESSION count as done.
TearSession ==
  LET k == IF pc = "downSession" THEN cur ELSE rep IN
  /\ pc \in {"dropSession", "downSession"}
  /\ pc' = IF pc = "dropSession" THEN "dropClient" ELSE "downClient"
  /\ \/ created[k] /\ DestroySession(k) /\ UNCHANGED <<faults, downOk>>
     \/ created[k] /\ Fault /\ (DestroySession(k) \/ UNCHANGED <<sess, late>>) /\ downOk' = FALSE
     \/ ~created[k] /\ UNCHANGED <<sess, late, faults, downOk>>
  /\ UNCHANGED <<lease, sessCid, opens, gen, written, connVars, seq, poisoned, fdVars,
                 selfVars, call, attempt, pend, todo, told, delivered, held>>

\* Session::shutdown, second half: only the owner destroys the client ID.
TearClient ==
  LET k == IF pc = "downClient" THEN cur ELSE rep
      c == cid[k] IN
  /\ pc \in {"dropClient", "downClient"}
  /\ \/ ~owns[k] /\ UNCHANGED <<lease, faults, downOk>>
     \/ /\ owns[k] /\ ~Busy(c) /\ Live(c)
        /\ lease' = [lease EXCEPT ![c] = "gone"] /\ UNCHANGED <<faults, downOk>>
     \/ owns[k] /\ FaultUnless(Busy(c) \/ ~Live(c)) /\ UNCHANGED lease /\ downOk' = FALSE
  /\ IF pc = "dropClient"
     THEN AttemptFails(used + 1) /\ Freed(rep) /\ owns' = [owns EXCEPT ![rep] = FALSE]
     ELSE pc' = "down" /\ UNCHANGED <<call, attempt, rep, used, connVars, seq, poisoned, nextOwner, off>>
  /\ UNCHANGED <<sess, sessCid, opens, gen, late, written, files, deferFd, deferPath, cur, nextFd, nextWrite, pend, todo, told, delivered, held>>

----------------------------------------------------------------------------
\* connect_with_options has returned: one session, RECLAIM_COMPLETE and the
\* lookup of the root done.
Init ==
  /\ lease = [c \in Cids |-> IF c = 1 THEN "confirmed" ELSE "free"]
  /\ sess = [k \in Conns |-> IF k = 1 THEN Succ(1) ELSE NoSession]
  /\ sessCid = [k \in Conns |-> IF k = 1 THEN 1 ELSE NoCid]
  /\ opens = {} /\ gen = 0 /\ late = {}
  /\ written = [w \in Writes |-> 0]
  /\ cid = sessCid
  /\ seq = [k \in Conns |-> IF k = 1 THEN Succ(Succ(1)) ELSE 1]
  /\ created = [k \in Conns |-> k = 1]
  /\ owns = created
  /\ poisoned = [k \in Conns |-> FALSE]
  /\ nextOwner = [k \in Conns |-> 0]
  /\ files = [k \in Conns |-> [fd \in Fds |-> NoState]]
  /\ off = [k \in Conns |-> [fd \in Fds |-> 0]]
  /\ deferFd = [k \in Conns |-> {}] /\ deferPath = [k \in Conns |-> {}]
  /\ cur = 1 /\ rep = 0 /\ used = 1
  /\ nextFd = 0 /\ nextWrite = 0
  /\ pc = "idle" /\ call = NoCall /\ attempt = 0 /\ pend = {} /\ todo = {}
  /\ faults = 0
  /\ told = [w \in Writes |-> "none"]
  /\ delivered = [fd \in Fds |-> 0]
  /\ held = {} /\ downOk = TRUE

CallStep == \/ Register \/ SetupFails \/ Unregister \/ ReadChunk
            \/ Exchange \/ Create \/ Reclaim \/ Mount \/ Reopen
            \/ RetireClose \/ RetireSession
            \/ CloseAll \/ DownDrain \/ TearSession \/ TearClient

CallStart == \/ \E obj \in Objs : OpenFile(obj)
             \/ \E fd \in Fds : CloseFile(fd) \/ WriteFile(fd) \/ ReadFile(fd)
             \/ DrainDeferred \/ Reconnect
             \/ \E kind \in {"shutdown", "drop"} : Teardown(kind)

clientVars == <<connVars, seq, poisoned, fdVars, selfVars, ctlVars, histVars>>
ServerStep == \/ LateRequest /\ UNCHANGED <<faults, clientVars>>
              \/ (\E c \in Cids : Forget(c)) /\ Fault /\ UNCHANGED clientVars

Done == pc = "down" /\ UNCHANGED vars
Next == CallStep \/ CallStart \/ ServerStep \/ Done
Spec == Init /\ [][Next]_vars /\ WF_vars(CallStep)

----------------------------------------------------------------------------
TypeOK ==
  /\ ServerTypeOK
  /\ written \in [Writes -> Nat]
  /\ cid \in [Conns -> Cids \cup {NoCid}]
  /\ seq \in [Conns -> Seqs]
  /\ created \in [Conns -> BOOLEAN] /\ owns \in [Conns -> BOOLEAN]
  /\ poisoned \in [Conns -> BOOLEAN]
  /\ nextOwner \in [Conns -> Nat]
  /\ files \in [Conns -> [Fds -> Stateids \cup {NoState}]]
  /\ off \in [Conns -> [Fds -> Nat]]
  /\ deferFd \in [Conns -> SUBSET Stateids] /\ deferPath \in [Conns -> SUBSET Stateids]
  /\ cur \in Conns /\ rep \in Conns \cup {0} /\ used \in Conns
  /\ nextFd \in Nat /\ nextWrite \in Nat
  /\ pc \in Steps /\ call \in Calls /\ attempt \in 0..Attempts
  /\ pend \in SUBSET Stateids /\ todo \in SUBSET (Fds \X Nat)
  /\ faults \in 0..MaxFaults
  /\ told \in [Writes -> {"none", "ok", "failed", "unknown"}]
  /\ delivered \in [Fds -> Nat]
  /\ held \in SUBSET Stateids /\ downOk \in BOOLEAN

\* Session::compound: a session that is not poisoned offers the sequence
\* number its server slot expects, across replies without a SEQUENCE result,
\* lost replies, late executions and wrap-around.
SlotInSync ==
  \A k \in Conns : created[k] /\ ~poisoned[k] /\ sess[k] # NoSession
                   => seq[k] = Succ(sess[k])

\* "Mutating operations are never replayed automatically": the server applies
\* a WRITE at most once; one reported done was applied, one reported failed
\* was not and will not be.
WriteAtMostOnce ==
  \A w \in Writes : /\ written[w] <= 1
                    /\ told[w] = "ok" => written[w] = 1
                    /\ told[w] = "failed" => written[w] = 0

\* The connection whose descriptors the caller will see next.
Holder == IF pc \in {"retireClose", "retireSession"} THEN rep ELSE cur

\* reconnect and its failed attempts, deferred and late CLOSEs never take the
\* server's OPEN away from an open descriptor: it lasts as long as the lease.
DescriptorsLive ==
  \A fd \in OpenFds(Holder) :
    lease[cid[Holder]] = "confirmed" =>
      \E st \in opens : Key(st) = Key(files[Holder][fd])

\* OPEN state the filesystem has registered is never forgotten while it is
\* usable under the present client ID: a descriptor or a queue has it.
StateTracked ==
  pc \notin {"downDrain", "downSession", "downClient", "down"} =>
    \A st \in held \cap opens :
      st.cid = cid[Holder] =>
        st \in Tracked(Holder) \cup (IF pc = "retireClose" THEN Tracked(cur) ELSE {})

\* A shutdown that returns Ok has closed everything registered under the
\* client ID it had, whatever was deferred or replaced before.
ShutdownClosesAll ==
  pc = "down" /\ call.kind = "shutdown" /\ downOk =>
    \A st \in held \cap opens : st.cid # cid[cur]

\* Reconnects, deferred closes and shutdown neither take state away from a
\* descriptor nor leave any behind.
StateKept == DescriptorsLive /\ StateTracked /\ ShutdownClosesAll

\* vread_batch_nfs moves cursors only after the whole vector: a recovered
\* read starts where the last returned one ended.
NoBytesSkipped == pc = "read" => call.start = delivered[call.fd]

\* Every API call returns: reconnect gives up after its attempts, also when the
\* server refuses connections for ever, and shutdown stops draining CLOSEs that
\* the server refuses.  Failures past the connect are bounded by MaxFaults.
CallReturns == (pc # "idle") ~> (pc \in {"idle", "down"})
=============================================================================
