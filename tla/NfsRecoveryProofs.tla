------------------------- MODULE NfsRecoveryProofs -------------------------
(***************************************************************************)
(* Proofs about NfsRecovery, for any number of connections, descriptors,   *)
(* calls and failures: the slot discipline of Session::compound, and that  *)
(* the server applies a WRITE at most once.                                *)
(***************************************************************************)
EXTENDS NfsRecovery, TLAPS

\* Slots: a connection that is not created is untouched, and requests that are
\* still on their way belong to poisoned (or dropped) connections.
SlotInv ==
  /\ sess \in [Conns -> Seqs \cup {NoSession}]
  /\ seq \in [Conns -> Seqs]
  /\ created \in [Conns -> BOOLEAN] /\ poisoned \in [Conns -> BOOLEAN]
  /\ \A k \in Conns : created[k] /\ ~poisoned[k] /\ sess[k] # NoSession
                      => seq[k] = Succ(sess[k])
  /\ \A k \in Conns : ~created[k] => seq[k] = 1 /\ ~poisoned[k]
  /\ \A q \in late : q.conn \in Conns /\ q.seq \in Seqs
                     /\ (created[q.conn] => poisoned[q.conn])

\* Connections: self is created, a new number was never used before.
ConnInv ==
  /\ cur \in Conns /\ rep \in Conns \cup {0} /\ used \in Nat
  /\ cur <= used /\ rep <= used /\ cur # rep /\ created[cur]
  /\ \A k \in Conns : k > used => ~created[k]
  /\ \A q \in late : q.conn <= used
  /\ pc \in {"exchange", "create"} =>
       rep \in Conns /\ ~created[rep] /\ \A q \in late : q.conn # rep
  /\ pc = "exchange" => rep = used
  /\ pc \in {"reclaim", "mount", "reopen", "retireClose", "retireSession", "dropClose"} =>
       rep \in Conns /\ created[rep]
  /\ pc \in {"dropSession", "dropClient"} => rep \in Conns

USE ServerConstants, RecoveryConstants, SMTT(10), Zenon, SMTT(30)

LEMMA SuccSeq ==
  /\ 1 \in Seqs /\ Succ(0) = 1
  /\ \A s \in Seqs : Succ(s) \in Seqs
  BY DEF Seqs, Succ

LEMMA NoSessionNew == NoSession \notin Seqs
  BY DEF Seqs, NoSession

\* The request fields the slot depends on.
LEMMA AskFields ==
  ASSUME NEW k, NEW o, NEW c, NEW w, NEW u
  PROVE  /\ Ask(k, o, c, w, u).conn = k /\ Ask(k, o, c, w, u).seq = seq[k]
         /\ Ask(k, o, c, w, u).write = w /\ Ask(k, o, c, w, u).close = c
         /\ Ask(k, o, c, w, u).open = o
  BY DEF Ask

LEMMA PartFields ==
  ASSUME NEW q, NEW part \in Parts(q)
  PROVE  part.conn = q.conn /\ part.seq = q.seq /\ part.write \subseteq q.write
  BY DEF Parts, Part

LEMMA NothingFields ==
  ASSUME NEW q
  PROVE  Nothing(q).conn = q.conn /\ Nothing(q).seq = q.seq /\ Nothing(q).write = {}
  BY DEF Nothing, Part

\* What any COMPOUND does to the slot of its connection.
SlotEffect(k, q) ==
  \/ /\ sess' = [sess EXCEPT ![k] = seq[k]] /\ seq' = [seq EXCEPT ![k] = Succ(seq[k])]
     /\ UNCHANGED <<poisoned, late>>
  \/ UNCHANGED <<sess, seq, poisoned, late>>
  \/ /\ poisoned' = [poisoned EXCEPT ![k] = TRUE] /\ UNCHANGED seq
     /\ \/ sess' = [sess EXCEPT ![k] = seq[k]] /\ UNCHANGED late
        \/ UNCHANGED sess /\ (UNCHANGED late \/ late' = late \cup {q})

LEMMA CompoundSlot ==
  ASSUME NEW k, NEW q, NEW part, NEW r, Compound(k, q, part, r),
         q.conn = k, q.seq = seq[k], part.conn = k, part.seq = seq[k]
  PROVE  SlotEffect(k, q)
  <1>1. CASE r = "ok" /\ part = q /\ Answered(k, q)
    BY <1>1 DEF Answered, Execute, Advance, SlotEffect
  <1>2. CASE Failed(k, q, part)
    BY <1>2 DEF Failed, Execute, Advance, SlotEffect
  <1>3. CASE Rejected(k, q)
    BY <1>3 DEF Rejected, Unsent, serverVars, SlotEffect
  <1>4. CASE Lost(k, q, part)
    BY <1>4 DEF Lost, Execute, Poison, SlotEffect
  <1>5. CASE Quiet
    BY <1>5 DEF Quiet, Unsent, serverVars, SlotEffect
  <1> QED BY <1>1, <1>2, <1>3, <1>4, <1>5 DEF Compound

LEMMA SlotEffectKeeps ==
  ASSUME SlotInv, NEW k \in Conns, created[k], NEW q, q.conn = k, q.seq = seq[k],
         SlotEffect(k, q), UNCHANGED created
  PROVE  SlotInv'
  <1> USE SuccSeq, NoSessionNew DEF SlotInv
  <1>1. CASE /\ sess' = [sess EXCEPT ![k] = seq[k]]
             /\ seq' = [seq EXCEPT ![k] = Succ(seq[k])] /\ UNCHANGED <<poisoned, late>>
    BY <1>1
  <1>2. CASE UNCHANGED <<sess, seq, poisoned, late>>
    BY <1>2
  <1>3. CASE /\ poisoned' = [poisoned EXCEPT ![k] = TRUE] /\ UNCHANGED seq
             /\ sess' = [sess EXCEPT ![k] = seq[k]] /\ UNCHANGED late
    BY <1>3
  <1>4. CASE /\ poisoned' = [poisoned EXCEPT ![k] = TRUE] /\ UNCHANGED seq
             /\ UNCHANGED sess /\ (UNCHANGED late \/ late' = late \cup {q})
    BY <1>4
  <1> QED BY <1>1, <1>2, <1>3, <1>4 DEF SlotEffect

LEMMA AskSlot ==
  ASSUME NEW k, NEW o, NEW c, NEW w, NEW u, NEW r, NEW part,
         part \in Parts(Ask(k, o, c, w, u)) \/ part = Ask(k, o, c, w, u),
         Compound(k, Ask(k, o, c, w, u), part, r)
  PROVE  SlotEffect(k, Ask(k, o, c, w, u))
  <1>1. PICK q : q = Ask(k, o, c, w, u)
    OBVIOUS
  <1>2. q.conn = k /\ q.seq = seq[k]
    BY <1>1, AskFields
  <1>3. part.conn = k /\ part.seq = seq[k]
    BY <1>1, <1>2, PartFields
  <1> QED BY <1>1, <1>2, <1>3, CompoundSlot

\* A call that sends at most one COMPOUND on connection k, and keeps every
\* connection where it is.
Step1(k) ==
  /\ UNCHANGED <<created, cur, rep, used>>
  /\ \/ UNCHANGED <<sess, seq, poisoned, late>>
     \/ \E o, c, w, u : SlotEffect(k, Ask(k, o, c, w, u))

LEMMA Step1Keeps ==
  ASSUME SlotInv, ConnInv, NEW k \in Conns, created[k], Step1(k),
         pc' \notin {"exchange", "create"},
         pc' \in {"reclaim", "mount", "reopen", "retireClose", "retireSession", "dropClose"} =>
           rep \in Conns /\ created[rep],
         pc' \in {"dropSession", "dropClient"} => rep \in Conns
  PROVE  SlotInv' /\ ConnInv'
  <1>1. CASE UNCHANGED <<sess, seq, poisoned, late>>
    BY <1>1 DEF Step1, SlotInv, ConnInv
  <1>2. CASE \E o, c, w, u : SlotEffect(k, Ask(k, o, c, w, u))
    <2>1. PICK o, c, w, u : SlotEffect(k, Ask(k, o, c, w, u))
      BY <1>2
    <2>2. PICK q : q = Ask(k, o, c, w, u)
      OBVIOUS
    <2>3. q.conn = k /\ q.seq = seq[k] /\ SlotEffect(k, q)
      BY <2>1, <2>2, AskFields
    <2>4. SlotInv'
      BY <2>3, SlotEffectKeeps DEF Step1
    <2>5. k <= used
      BY DEF ConnInv
    <2>6. \A p \in late' : p \in late \/ p = q
      BY <2>3 DEF SlotEffect
    <2>7. ConnInv'
      BY <2>3, <2>5, <2>6 DEF ConnInv, Step1
    <2> QED BY <2>4, <2>7
  <1> QED BY <1>1, <1>2 DEF Step1

----------------------------------------------------------------------------
(* Every action keeps SlotInv and ConnInv.                                 *)

SlotConn == SlotInv /\ ConnInv

LEMMA OpenFileSlot ==
  ASSUME SlotConn, NEW obj \in Objs, OpenFile(obj)
  PROVE  SlotConn'
  <1>1. Step1(cur)
    BY AskSlot DEF OpenFile, Opening, Step1, connVars, selfVars
  <1>2. pc' \in {"idle", "register"}
    BY DEF OpenFile
  <1> QED BY <1>1, <1>2, Step1Keeps DEF SlotConn, ConnInv

LEMMA RegisterSlot ==
  ASSUME SlotConn, Register \/ SetupFails \/ Unregister
  PROVE  SlotConn'
  <1>1. CASE Register
    <2>1. Step1(cur)
      BY <1>1 DEF Register, Quiet, Unsent, serverVars, Step1, connVars
    <2> QED BY <1>1, <2>1, Step1Keeps DEF SlotConn, ConnInv, Register, Return
  <1>2. CASE SetupFails
    <2>1. Step1(cur)
      BY <1>2, AskSlot DEF SetupFails, Plain, Step1, connVars, selfVars
    <2> QED BY <1>2, <2>1, Step1Keeps DEF SlotConn, ConnInv, SetupFails
  <1>3. CASE Unregister
    <2>1. Step1(cur)
      BY <1>3, AskSlot DEF Unregister, Closes, Step1, connVars, selfVars
    <2> QED BY <1>3, <2>1, Step1Keeps DEF SlotConn, ConnInv, Unregister, Return
  <1> QED BY <1>1, <1>2, <1>3

LEMMA CallSlot ==
  ASSUME SlotConn,
         \/ \E fd \in Fds : CloseFile(fd) \/ WriteFile(fd) \/ ReadFile(fd)
         \/ DrainDeferred
         \/ \E kind \in {"shutdown", "drop"} : Teardown(kind)
  PROVE  SlotConn'
  <1>1. ASSUME NEW fd \in Fds, CloseFile(fd) PROVE SlotConn'
    <2>1. Step1(cur)
      BY <1>1, AskSlot DEF CloseFile, Closes, Step1, connVars, selfVars
    <2> QED BY <1>1, <2>1, Step1Keeps DEF SlotConn, ConnInv, CloseFile, ctlVars
  <1>2. ASSUME NEW fd \in Fds, WriteFile(fd) PROVE SlotConn'
    <2>1. Step1(cur)
      BY <1>2, AskSlot DEF WriteFile, Step1, connVars
    <2> QED BY <1>2, <2>1, Step1Keeps DEF SlotConn, ConnInv, WriteFile, ctlVars
  <1>3. ASSUME NEW fd \in Fds, ReadFile(fd) PROVE SlotConn'
    <2>1. Step1(cur)
      BY <1>3 DEF ReadFile, Quiet, Unsent, serverVars, Step1, connVars, selfVars
    <2> QED BY <1>3, <2>1, Step1Keeps DEF SlotConn, ConnInv, ReadFile
  <1>4. CASE DrainDeferred
    <2>1. Step1(cur)
      BY <1>4, AskSlot DEF DrainDeferred, Closes, Step1, connVars, selfVars
    <2> QED BY <1>4, <2>1, Step1Keeps DEF SlotConn, ConnInv, DrainDeferred, ctlVars
  <1>5. ASSUME NEW kind, Teardown(kind) PROVE SlotConn'
    <2>1. Step1(cur)
      BY <1>5 DEF Teardown, Quiet, Unsent, serverVars, Step1, connVars, selfVars
    <2> QED BY <1>5, <2>1, Step1Keeps DEF SlotConn, ConnInv, Teardown
  <1> QED BY <1>1, <1>2, <1>3, <1>4, <1>5

\* A fresh connection number: nothing was ever sent on it.
LEMMA FreshConn ==
  ASSUME ConnInv, used + 1 \in Conns, used' = used + 1, rep' = used + 1, pc' = "exchange",
         UNCHANGED cur, created'[cur], \A k \in Conns : created'[k] => created[k],
         \A q \in late' : q.conn \in Conns /\ q.conn <= used
  PROVE  ConnInv'
  <1> USE DEF ConnInv
  <1>1. \A k \in Conns : k > used => ~created'[k]
    OBVIOUS
  <1>2. \A n \in Conns : n <= used => n <= used + 1 /\ n # used + 1
    OBVIOUS
  <1>3. \A q \in late' : q.conn <= used' /\ q.conn # rep'
    BY <1>2, Zenon
  <1>4. cur' \in Conns /\ cur' <= used' /\ cur' # rep' /\ created'[cur']
    OBVIOUS
  <1>5. \A k \in Conns : k > used' => ~created'[k]
    BY <1>1
  <1>6. rep' \in Conns /\ ~created'[rep'] /\ used' \in Nat /\ rep' <= used'
    BY <1>1
  <1> QED BY <1>3, <1>4, <1>5, <1>6

\* No replacement: rep is 0 and the call is over.
LEMMA NoReplacement ==
  ASSUME ConnInv, rep' = 0 \/ UNCHANGED rep, pc' \in {"idle", "read"}, UNCHANGED <<cur, used>>,
         created'[cur], \A k \in Conns : created'[k] => created[k],
         \A q \in late' : q.conn <= used
  PROVE  ConnInv'
  BY DEF ConnInv

LEMMA ReadChunkSlot ==
  ASSUME SlotConn, ReadChunk
  PROVE  SlotConn'
  <1>1. PICK q, r : q = Ask(cur, {}, {}, {}, {files[cur][call.fd]}) /\ Compound(cur, q, q, r)
    BY DEF ReadChunk
  <1>2. SlotEffect(cur, q) /\ q.conn = cur /\ q.seq = seq[cur]
    <2>1. SlotEffect(cur, q)
      BY <1>1, AskSlot
    <2>2. q.conn = cur /\ q.seq = seq[cur]
      BY <1>1, AskFields, SMTT(30)
    <2> QED BY <2>1, <2>2
  <1>3. UNCHANGED <<created, cur>>
    BY DEF ReadChunk, connVars
  <1>4. SlotInv'
    BY <1>2, <1>3, SlotEffectKeeps DEF SlotConn, ConnInv
  <1>5. \A p \in late' : p.conn \in Conns /\ p.conn <= used
    BY <1>2, SMTT(30) DEF SlotEffect, SlotConn, ConnInv, SlotInv
  <1>6. \/ pc' \in {"idle", "read"} /\ UNCHANGED <<rep, used>>
        \/ used + 1 \in Conns /\ FirstAttempt
    BY DEF ReadChunk, Return, Recover
  <1>7. ConnInv'
    BY <1>3, <1>5, <1>6, FreshConn, NoReplacement DEF SlotConn, ConnInv, FirstAttempt
  <1> QED BY <1>4, <1>7 DEF SlotConn

LEMMA ReconnectSlot ==
  ASSUME SlotConn, Reconnect
  PROVE  SlotConn'
  <1>1. UNCHANGED <<sess, seq, created, poisoned, late, cur>>
    BY DEF Reconnect, Quiet, Unsent, serverVars, connVars
  <1>2. SlotInv'
    BY <1>1 DEF SlotConn, SlotInv
  <1>3. ConnInv'
    BY <1>1, FreshConn DEF Reconnect, FirstAttempt, SlotConn, SlotInv, ConnInv
  <1> QED BY <1>2, <1>3 DEF SlotConn

LEMMA AttemptFailsConn ==
  ASSUME SlotConn, AttemptFails(used + 1), UNCHANGED <<cur, late>>, created'[cur],
         \A k \in Conns : created'[k] => created[k]
  PROVE  ConnInv'
  <1>1. \A p \in late' : p.conn \in Conns /\ p.conn <= used
    BY DEF SlotConn, SlotInv, ConnInv
  <1> QED BY <1>1, FreshConn, NoReplacement DEF AttemptFails, Return, SlotConn

LEMMA ExchangeSlot ==
  ASSUME SlotConn, Exchange
  PROVE  SlotConn'
  <1>1. UNCHANGED <<sess, seq, created, poisoned, late, cur>> /\ pc = "exchange"
    BY DEF Exchange
  <1>2. SlotInv'
    BY <1>1 DEF SlotConn, SlotInv
  <1>3. CASE ExchangeOk
    BY <1>1, <1>2, <1>3 DEF ExchangeOk, Exchange, SlotConn, ConnInv
  <1>4. CASE ExchangeFails
    BY <1>1, <1>2, <1>4, AttemptFailsConn DEF ExchangeFails, SlotConn, ConnInv
  <1>5. CASE ConnectFails
    <2>1. CASE pc' = "exchange" /\ UNCHANGED <<rep, used>>
      BY <1>1, <1>2, <2>1 DEF SlotConn, ConnInv
    <2>2. CASE pc' = "idle" /\ rep' = 0 /\ UNCHANGED used
      BY <1>1, <1>2, <2>2, NoReplacement DEF SlotConn, ConnInv
    <2>3. pc = "exchange" => rep = used
      BY DEF SlotConn, ConnInv
    <2> QED BY <1>5, <2>1, <2>2, <2>3 DEF ConnectFails, AttemptFails, Return, Exchange
  <1> QED BY <1>3, <1>4, <1>5 DEF Exchange

LEMMA CreateSlot ==
  ASSUME SlotConn, Create
  PROVE  SlotConn'
  <1> USE DEF SlotConn
  <1>1. /\ rep \in Conns /\ ~created[rep] /\ seq[rep] = 1 /\ cur # rep
        /\ \A q \in late : q.conn # rep
    BY DEF Create, ConnInv, SlotInv
  <1>2. UNCHANGED <<seq, poisoned, late, cur, rep, used>>
    BY DEF Create, selfVars
  <1>3. /\ sess' = sess \/ sess' = [sess EXCEPT ![rep] = 0]
        /\ created' = created \/ (created' = [created EXCEPT ![rep] = TRUE]
                                  /\ sess' = [sess EXCEPT ![rep] = 0])
    BY DEF Create, CreateSession
  <1>4. 0 \in Seqs
    BY DEF Seqs
  <1>5. SlotInv'
    BY <1>1, <1>2, <1>3, <1>4, SuccSeq, ZenonT(60) DEF SlotInv
  <1>6. pc' = "dropSession" \/ (pc' = "reclaim" /\ created' = [created EXCEPT ![rep] = TRUE])
    BY DEF Create
  <1>7. created'[cur] /\ \A k \in Conns : created'[k] => created[k] \/ k = rep
    BY <1>1, <1>3 DEF SlotInv, ConnInv
  <1>8. ConnInv'
    <2>1. \A k \in Conns : k > used => ~created'[k]
      BY <1>1, <1>7, SMTT(30) DEF ConnInv
    <2>2. pc' = "reclaim" => created'[rep]
      BY <1>1, <1>6 DEF SlotInv
    <2> QED BY <1>1, <1>2, <1>6, <1>7, <2>1, <2>2 DEF ConnInv
  <1> QED BY <1>5, <1>8

LEMMA ReplacementSlot ==
  ASSUME SlotConn, Reclaim \/ Mount \/ Reopen
  PROVE  SlotConn'
  <1> USE DEF SlotConn
  <1>1. rep \in Conns /\ created[rep]
    BY DEF Reclaim, Mount, Reopen, ConnInv
  <1>2. CASE Reclaim
    <2>1. Step1(rep)
      BY <1>2, AskSlot DEF Reclaim, Plain, Step1, connVars, selfVars
    <2> QED BY <1>1, <1>2, <2>1, Step1Keeps DEF Reclaim
  <1>3. CASE Mount
    <2>1. Step1(rep)
      BY <1>3, AskSlot, ZenonT(60) DEF Mount, Plain, Step1, connVars, selfVars
    <2>2. pc' \in {"retireClose", "reopen", "dropSession"}
      BY <1>3 DEF Mount
    <2> QED BY <1>1, <2>1, <2>2, Step1Keeps
  <1>4. CASE Reopen
    <2>1. UNCHANGED <<created, cur, rep, used>>
      BY <1>4, ZenonT(60) DEF Reopen, connVars, selfVars
    <2>2. PICK o, r, part : /\ part \in Parts(Opening(rep, o)) /\ Compound(rep, Opening(rep, o), part, r)
                            /\ pc' \in {"dropClose", "retireClose", pc}
      BY <1>4, Zenon DEF Reopen
    <2>3. Step1(rep)
      BY <2>1, <2>2, AskSlot DEF Opening, Step1
    <2> QED BY <1>1, <1>4, <2>2, <2>3, Step1Keeps, ZenonT(60) DEF Reopen
  <1> QED BY <1>2, <1>3, <1>4

\* The old connection is dropped and the replacement takes its place.
LEMMA AdoptConn ==
  ASSUME SlotConn, Adopt, pc \in {"retireClose", "retireSession"}, late' \subseteq late,
         sess' = sess \/ sess' = [sess EXCEPT ![cur] = NoSession]
  PROVE  SlotConn'
  <1> USE DEF SlotConn
  <1>1. rep \in Conns /\ created[rep] /\ cur # rep /\ cur \in Conns /\ created[cur]
    BY DEF ConnInv
  <1>2. /\ cur' = rep /\ rep' = 0 /\ UNCHANGED used /\ pc' \in {"idle", "read"}
        /\ created' = [created EXCEPT ![cur] = FALSE]
        /\ seq' = [seq EXCEPT ![cur] = 1] /\ poisoned' = [poisoned EXCEPT ![cur] = FALSE]
    BY DEF Adopt, Freed, Return
  <1>3. SlotInv'
    BY <1>1, <1>2, SuccSeq DEF SlotInv
  <1>4. ConnInv'
    <2>1. created'[rep] /\ \A k \in Conns : k > used => ~created'[k]
      BY <1>1, <1>2 DEF SlotInv, ConnInv
    <2> QED BY <1>1, <1>2, <2>1, SMTT(30) DEF ConnInv
  <1> QED BY <1>3, <1>4

LEMMA RetireSlot ==
  ASSUME SlotConn, RetireClose \/ RetireSession
  PROVE  SlotConn'
  <1>1. CASE RetireClose /\ cid[rep] # cid[cur]
    BY <1>1, AdoptConn DEF RetireClose, Unsent, serverVars
  <1>2. CASE RetireClose /\ cid[rep] = cid[cur]
    <2>1. Step1(rep) /\ pc' = "retireSession"
      BY <1>2, AskSlot DEF RetireClose, Closes, Quiet, Unsent, serverVars, Step1, connVars, selfVars
    <2>2. rep \in Conns /\ created[rep]
      BY <1>2 DEF RetireClose, SlotConn, ConnInv
    <2> QED BY <2>1, <2>2, Step1Keeps, Zenon DEF SlotConn
  <1>3. CASE RetireSession
    BY <1>3, AdoptConn DEF RetireSession, DestroySession
  <1> QED BY <1>1, <1>2, <1>3

LEMMA CloseAllSlot ==
  ASSUME SlotConn, CloseAll \/ DownDrain
  PROVE  SlotConn'
  <1> USE DEF SlotConn
  <1>1. CASE CloseAll
    <2>1. PICK k : k = IF pc = "downClose" THEN cur ELSE rep
      OBVIOUS
    <2>2. k \in Conns /\ created[k] /\ (pc = "dropClose" => rep \in Conns)
      BY <1>1, <2>1 DEF CloseAll, ConnInv
    <2>3. Step1(k)
      <3>1. UNCHANGED <<created, cur, rep, used>>
        BY <1>1 DEF CloseAll, connVars, selfVars
      <3>2. CASE Quiet
        BY <3>1, <3>2 DEF Quiet, Unsent, serverVars, Step1
      <3>3. CASE ~Quiet
        <4>1. \E c, r : \E part \in Parts(Ask(k, {}, c, {}, {})) :
                 Compound(k, Ask(k, {}, c, {}, {}), part, r)
          BY <1>1, <2>1, <3>3 DEF CloseAll, Closes
        <4> QED BY <3>1, <4>1, AskSlot DEF Step1
      <3> QED BY <3>2, <3>3
    <2>4. \/ pc = "dropClose" /\ pc' = "dropSession"
          \/ pc' \in {"downDrain", "downSession"}
      BY <1>1, Zenon DEF CloseAll
    <2> QED BY <2>2, <2>3, <2>4, Step1Keeps
  <1>2. CASE DownDrain
    <2>1. Step1(cur)
      BY <1>2, AskSlot, Zenon DEF DownDrain, Closes, Quiet, Unsent, serverVars, Step1, connVars, selfVars
    <2>2. pc' \in {"downDrain", "downSession"}
      BY <1>2, Zenon DEF DownDrain
    <2> QED BY <2>1, <2>2, Step1Keeps DEF ConnInv
  <1> QED BY <1>1, <1>2

LEMMA TearSlot ==
  ASSUME SlotConn, TearSession \/ TearClient
  PROVE  SlotConn'
  <1> USE DEF SlotConn
  <1>1. CASE TearSession
    <2>1. PICK k : k = IF pc = "downSession" THEN cur ELSE rep
      BY Zenon
    <2>2. k \in Conns
      BY <1>1, <2>1, Zenon DEF TearSession, ConnInv
    <2>3. /\ UNCHANGED <<seq, created, poisoned, cur, rep, used>>
          /\ sess' = sess \/ sess' = [sess EXCEPT ![k] = NoSession]
          /\ late' \subseteq late
      BY <1>1, <2>1 DEF TearSession, DestroySession, connVars, selfVars
    <2>4. SlotInv'
      BY <2>2, <2>3, Zenon DEF SlotInv
    <2>5. pc' = "downClient" \/ (pc' = "dropClient" /\ rep \in Conns)
      BY <1>1 DEF TearSession, ConnInv
    <2>6. ConnInv'
      BY <2>3, <2>5, Zenon DEF ConnInv
    <2> QED BY <2>4, <2>6
  <1>2. CASE TearClient /\ pc = "downClient"
    <2>1. UNCHANGED <<sess, seq, created, poisoned, late, cur, rep, used>> /\ pc' = "down"
      BY <1>2 DEF TearClient, connVars
    <2> QED BY <2>1, Zenon DEF SlotInv, ConnInv
  <1>3. CASE TearClient /\ pc = "dropClient"
    <2>1. UNCHANGED <<sess, late, cur>> /\ AttemptFails(used + 1) /\ Freed(rep) /\ rep \in Conns /\ cur # rep
      BY <1>3 DEF TearClient, ConnInv
    <2>2. SlotInv'
      BY <2>1, SuccSeq DEF Freed, SlotInv
    <2>3. created'[cur] /\ \A k \in Conns : created'[k] => created[k]
      BY <2>1 DEF Freed, SlotInv, ConnInv
    <2> QED BY <2>1, <2>2, <2>3, AttemptFailsConn, Zenon
  <1> QED BY <1>1, <1>2, <1>3, Zenon DEF TearClient

\* A late request only moves the slot of a session that was given up.
LEMMA ServerSlot ==
  ASSUME SlotConn, ServerStep
  PROVE  SlotConn'
  <1> USE DEF SlotConn
  <1>1. UNCHANGED <<seq, created, poisoned, cur, rep, used, pc>>
    BY DEF ServerStep, clientVars, connVars, selfVars, ctlVars
  <1>2. CASE LateRequest
    <2>1. PICK q \in late : sess' = [sess EXCEPT ![q.conn] = q.seq] /\ late' = late \ {q}
      BY <1>2, Zenon DEF LateRequest, Execute
    <2>2. q.conn \in Conns /\ q.seq \in Seqs /\ (created[q.conn] => poisoned[q.conn])
      BY DEF SlotInv
    <2>3. SlotInv'
      BY <1>1, <2>1, <2>2 DEF SlotInv
    <2> QED BY <1>1, <2>1, <2>3 DEF ConnInv
  <1>3. CASE \E c \in Cids : Forget(c)
    <2>1. PICK c \in Cids : Forget(c)
      BY <1>3
    <2>2. /\ sess' = [k \in Conns |-> IF sessCid[k] = c THEN NoSession ELSE sess[k]]
          /\ late' \subseteq late
      BY <2>1 DEF Forget
    <2>3. SlotInv'
      BY <1>1, <2>2 DEF SlotInv
    <2> QED BY <1>1, <2>2, <2>3 DEF ConnInv
  <1> QED BY <1>2, <1>3 DEF ServerStep

LEMMA InitSlot == Init => SlotConn
  <1> SUFFICES ASSUME Init PROVE SlotConn
    OBVIOUS
  <1>1. SlotInv
    BY SuccSeq, Zenon DEF Init, SlotInv
  <1>2. \A k \in Conns : created[k] <=> k = 1
    BY Zenon DEF Init
  <1>3. /\ cur = 1 /\ rep = 0 /\ used = 1 /\ late = {} /\ pc = "idle"
    BY DEF Init
  <1>4. ConnInv
    BY <1>2, <1>3, SMTT(30) DEF ConnInv
  <1> QED BY <1>1, <1>4 DEF SlotConn

LEMMA NextSlot == SlotConn /\ [Next]_vars => SlotConn'
  <1> SUFFICES ASSUME SlotConn, [Next]_vars PROVE SlotConn'
    OBVIOUS
  <1>1. CASE CallStep
    BY <1>1, RegisterSlot, ReadChunkSlot, ExchangeSlot, CreateSlot, ReplacementSlot, RetireSlot,
       CloseAllSlot, TearSlot DEF CallStep
  <1>2. CASE CallStart
    BY <1>2, OpenFileSlot, CallSlot, ReconnectSlot DEF CallStart
  <1>3. CASE ServerStep
    BY <1>3, ServerSlot, Zenon
  <1>4. CASE UNCHANGED vars
    BY <1>4 DEF vars, serverVars, connVars, selfVars, ctlVars, SlotConn, SlotInv, ConnInv
  <1> QED BY <1>1, <1>2, <1>3, <1>4 DEF Next, Done

\* Session::compound: for any number of connections, calls and failures, a
\* session that is not poisoned offers the sequence number its server slot
\* expects next.
THEOREM SlotsInSync == Spec => []SlotInSync
  <1>1. SlotConn => SlotInSync
    BY DEF SlotConn, SlotInv, SlotInSync
  <1> QED BY <1>1, InitSlot, NextSlot, PTL DEF Spec

-----------------------------------------------------------------------------
\* A WRITE still on its way was not applied, its caller got no answer, and no
\* other request on its way has it.
WriteInv ==
  /\ written \in [Writes -> Nat] /\ nextWrite \in Nat
  /\ told \in [Writes -> {"none", "ok", "failed", "unknown"}]
  /\ \A w \in Writes : w > nextWrite => written[w] = 0 /\ told[w] = "none"
  /\ \A w \in Writes : written[w] <= 1
  /\ \A w \in Writes : told[w] = "ok" => written[w] = 1
  /\ \A w \in Writes : told[w] = "failed" => written[w] = 0
  /\ \A q \in late : \A w \in Writes \cap q.write :
       w <= nextWrite /\ written[w] = 0 /\ told[w] = "unknown"
  /\ \A q, p \in late : q # p => q.write \cap p.write = {}

\* No WRITE is executed or left behind.
NoWrite ==
  /\ UNCHANGED <<written, nextWrite, told>>
  /\ \A p \in late' : p \in late \/ p.write = {}

LEMMA NoWriteKeeps ==
  ASSUME WriteInv, NoWrite
  PROVE  WriteInv'
  BY ZenonT(60) DEF WriteInv, NoWrite

LEMMA ExecuteNoWrite ==
  ASSUME WriteInv, NEW q, q.write = {}, Execute(q)
  PROVE  UNCHANGED written
  <1>1. written' = [w \in Writes |-> written[w] + 0]
    BY DEF Execute, WriteInv
  <1> QED BY <1>1 DEF WriteInv

\* A COMPOUND without WRITEs.
LEMMA CompoundNoWrite ==
  ASSUME WriteInv, NEW k, NEW o, NEW c, NEW u, NEW r, NEW part,
         part \in Parts(Ask(k, o, c, {}, u)) \/ part = Ask(k, o, c, {}, u),
         Compound(k, Ask(k, o, c, {}, u), part, r), UNCHANGED <<nextWrite, told>>
  PROVE  WriteInv'
  <1>1. PICK q : q = Ask(k, o, c, {}, u)
    OBVIOUS
  <1>2. q.write = {} /\ part.write = {}
    BY <1>1, AskFields, PartFields
  <1>3. Compound(k, q, part, r)
    BY <1>1
  <1>4. CASE Answered(k, q)
    BY <1>2, <1>4, ExecuteNoWrite, NoWriteKeeps, ZenonT(60) DEF Answered, NoWrite
  <1>5. CASE Failed(k, q, part)
    BY <1>2, <1>5, ExecuteNoWrite, NoWriteKeeps, ZenonT(60) DEF Failed, NoWrite
  <1>6. CASE Rejected(k, q) \/ Quiet
    BY <1>6, NoWriteKeeps DEF Rejected, Quiet, Unsent, serverVars, NoWrite
  <1>7. CASE Lost(k, q, part)
    <2>1. UNCHANGED written
      BY <1>2, <1>7, ExecuteNoWrite DEF Lost
    <2>2. \A p \in late' : p \in late \/ p = q
      BY <1>7 DEF Lost
    <2> QED BY <1>2, <2>1, <2>2, NoWriteKeeps DEF NoWrite
  <1> QED BY <1>3, <1>4, <1>5, <1>6, <1>7 DEF Compound

LEMMA ExecuteWrite ==
  ASSUME WriteInv, NEW q, NEW w \in Writes, q.write \subseteq {w}, Execute(q)
  PROVE  /\ written' \in [Writes -> Nat]
         /\ \A v \in Writes : v # w => written'[v] = written[v]
         /\ written'[w] \in {written[w], written[w] + 1}
         /\ q.write = {} => written'[w] = written[w]
         /\ q.write = {w} /\ q.use \subseteq opens => written'[w] = written[w] + 1
  <1>1. written' = [v \in Writes |->
                     written[v] + (IF v \in q.write /\ q.use \subseteq opens THEN 1 ELSE 0)]
    BY DEF Execute, WriteInv
  <1>2. \A v \in Writes : written[v] \in Nat
    BY DEF WriteInv
  <1>3. \A v \in Writes : v \in q.write /\ q.use \subseteq opens => written'[v] = written[v] + 1
    BY <1>1, <1>2
  <1>4. \A v \in Writes : ~(v \in q.write /\ q.use \subseteq opens) => written'[v] = written[v]
    BY <1>1, <1>2
  <1>5. written' \in [Writes -> Nat]
    <2>1. \A v \in Writes : written'[v] \in Nat
      BY <1>2, <1>3, <1>4
    <2> QED BY <1>1, <2>1
  <1> QED BY <1>3, <1>4, <1>5

\* What a WRITE compound does to the call it stands for.
LEMMA WriteFileWrites ==
  ASSUME WriteInv, NEW fd \in Fds, WriteFile(fd)
  PROVE  WriteInv'
  <1>1. PICK w : w = nextWrite + 1
    OBVIOUS
  <1>2. PICK q : q = Ask(cur, {}, {}, {w}, {files[cur][fd]})
    OBVIOUS
  <1>3. PICK r \in Replies, part \in Parts(q) :
          /\ Compound(cur, q, part, r)
          /\ told' = [told EXCEPT ![w] = CASE r = "ok" -> "ok" [] r = "lost" -> "unknown"
                                           [] OTHER -> "failed"]
    BY <1>1, <1>2, Zenon DEF WriteFile
  <1>4. w \in Writes /\ w \in Nat /\ nextWrite' = w /\ w > nextWrite
    BY <1>1 DEF WriteFile, WriteInv
  <1>5. q.write = {w} /\ part.write \subseteq {w} /\ Nothing(q).write = {} /\ q.use = {files[cur][fd]}
    <2>1. q.write = {w}
      BY <1>2 DEF Ask
    <2>2. q.use = {files[cur][fd]}
      BY <1>2 DEF Ask
    <2>3. part.write \subseteq q.write
      BY PartFields
    <2>4. Nothing(q).write = {}
      BY NothingFields
    <2> QED BY <2>1, <2>2, <2>3, <2>4
  <1>6. written[w] = 0 /\ told[w] = "none" /\ \A p \in late : w \notin p.write
    BY <1>4 DEF WriteInv
  <1>7. \A v \in Writes : v # w => told'[v] = told[v]
    BY <1>3 DEF WriteInv
  <1>8. ASSUME written' \in [Writes -> Nat], \A v \in Writes : v # w => written'[v] = written[v],
               told'[w] \in {"ok", "failed", "unknown"},
               written'[w] \in {0, 1}, told'[w] = "ok" => written'[w] = 1,
               told'[w] = "failed" => written'[w] = 0,
               late' = late \/ (late' = late \cup {q} /\ written'[w] = 0 /\ told'[w] = "unknown")
        PROVE  WriteInv'
    <2>1. told' \in [Writes -> {"none", "ok", "failed", "unknown"}]
      BY <1>3, ZenonT(60) DEF WriteInv
    <2>2. \A v \in Writes : v > nextWrite' => written'[v] = 0 /\ told'[v] = "none"
      BY <1>4, <1>7, <1>8 DEF WriteInv
    <2>3. \A p \in late : \A v \in Writes \cap p.write :
            v <= nextWrite' /\ written'[v] = 0 /\ told'[v] = "unknown"
      BY <1>4, <1>6, <1>7, <1>8 DEF WriteInv
    <2>4. \A p \in late' : \A v \in Writes \cap p.write :
            v <= nextWrite' /\ written'[v] = 0 /\ told'[v] = "unknown"
      <3>1. CASE late' = late
        BY <2>3, <3>1, ZenonT(60)
      <3>2. CASE late' = late \cup {q} /\ written'[w] = 0 /\ told'[w] = "unknown"
        <4>1. \A v \in Writes \cap q.write : v = w
          BY <1>5
        <4>2. w <= nextWrite'
          BY <1>4
        <4> QED BY <2>3, <3>2, <4>1, <4>2, Zenon
      <3> QED BY <1>8, <3>1, <3>2
    <2>5. \A p1, p2 \in late' : p1 # p2 => p1.write \cap p2.write = {}
      <3>1. \A p1, p2 \in late : p1 # p2 => p1.write \cap p2.write = {}
        BY DEF WriteInv
      <3>2. \A p \in late : p.write \cap q.write = {} /\ q.write \cap p.write = {}
        BY <1>5, <1>6
      <3>3. \A p \in late' : p \in late \/ p = q
        BY <1>8
      <3> QED BY <3>1, <3>2, <3>3
    <2>6. \A v \in Writes : /\ written'[v] <= 1 /\ (told'[v] = "ok" => written'[v] = 1)
                            /\ (told'[v] = "failed" => written'[v] = 0)
      BY <1>7, <1>8 DEF WriteInv
    <2> QED BY <1>4, <1>8, <2>1, <2>2, <2>4, <2>5, <2>6 DEF WriteInv
  <1>9. told'[w] = CASE r = "ok" -> "ok" [] r = "lost" -> "unknown" [] OTHER -> "failed"
    BY <1>3, <1>4 DEF WriteInv
  <1>10. CASE r = "ok" /\ Answered(cur, q)
    <2>1. told'[w] = "ok" /\ late' = late /\ Execute(q) /\ q.use \subseteq opens
      BY <1>9, <1>10 DEF Answered
    <2>2. /\ written' \in [Writes -> Nat] /\ \A v \in Writes : v # w => written'[v] = written[v]
          /\ written'[w] = 1
      BY <1>4, <1>5, <1>6, <2>1, ExecuteWrite
    <2> QED BY <1>8, <2>1, <2>2, ZenonT(60)
  <1>11. CASE r = "op" /\ Failed(cur, q, part)
    <2>1. told'[w] = "failed" /\ late' = late /\ Execute(part) /\ part.write = {}
      BY <1>9, <1>11 DEF Failed
    <2>2. /\ written' \in [Writes -> Nat] /\ \A v \in Writes : v # w => written'[v] = written[v]
          /\ written'[w] = 0
      BY <1>4, <1>6, <2>1, ExecuteWrite, Zenon
    <2> QED BY <1>8, <2>1, <2>2, ZenonT(60)
  <1>12. CASE r \in {"rejected", "refused"} /\ (Rejected(cur, q) \/ Quiet)
    <2>1. told'[w] = "failed" /\ UNCHANGED <<late, written>>
      BY <1>9, <1>12 DEF Rejected, Quiet, Unsent, serverVars
    <2> QED BY <1>6, <1>8, <2>1 DEF WriteInv
  <1>13. CASE r = "lost" /\ Lost(cur, q, part)
    <2>1. told'[w] = "unknown"
      BY <1>9, <1>13
    <2>2. CASE Execute(part) /\ UNCHANGED late
      <3>1. /\ written' \in [Writes -> Nat] /\ \A v \in Writes : v # w => written'[v] = written[v]
            /\ written'[w] \in {0, 1}
        BY <1>4, <1>5, <1>6, <2>2, ExecuteWrite
      <3> QED BY <1>8, <2>1, <2>2, <3>1
    <2>3. CASE (late' = late \/ late' = late \cup {q}) /\ UNCHANGED written
      BY <1>6, <1>8, <2>1, <2>3 DEF WriteInv
    <2> QED BY <1>13, <2>2, <2>3 DEF Lost
  <1> QED BY <1>3, <1>10, <1>11, <1>12, <1>13 DEF Compound

LEMMA LateWrites ==
  ASSUME WriteInv, LateRequest, UNCHANGED <<told, nextWrite>>
  PROVE  WriteInv'
  <1>1. PICK q \in late : Execute(q) /\ late' = late \ {q}
    BY DEF LateRequest
  <1>2. written' = [v \in Writes |->
                      written[v] + (IF v \in q.write /\ q.use \subseteq opens THEN 1 ELSE 0)]
    BY <1>1, ZenonT(60) DEF Execute, WriteInv
  <1>3. \A v \in Writes : written[v] \in Nat
    BY DEF WriteInv
  <1>4. \A v \in Writes : v \notin q.write => written'[v] = written[v]
    BY <1>2, <1>3
  <1>5. \A v \in Writes : v \in q.write =>
          written'[v] \in {0, 1} /\ told[v] = "unknown" /\ v <= nextWrite
    BY <1>2, <1>3 DEF WriteInv
  <1>6. written' \in [Writes -> Nat]
    <2>1. \A v \in Writes : written'[v] \in Nat
      BY <1>3, <1>4, <1>5
    <2> QED BY <1>2, <2>1
  <1>7. \A p \in late' : \A v \in Writes \cap p.write :
          v <= nextWrite' /\ written'[v] = 0 /\ told'[v] = "unknown"
    BY <1>1, <1>4 DEF WriteInv
  <1>8. \A v \in Writes : v > nextWrite => written'[v] = 0 /\ told[v] = "none"
    BY <1>4, <1>5 DEF WriteInv
  <1>9. \A v \in Writes : /\ written'[v] <= 1 /\ (told[v] = "ok" => written'[v] = 1)
                          /\ (told[v] = "failed" => written'[v] = 0)
    BY <1>4, <1>5 DEF WriteInv
  <1>10. \A p1, p2 \in late' : p1 # p2 => p1.write \cap p2.write = {}
    BY <1>1 DEF WriteInv
  <1> QED BY <1>6, <1>7, <1>8, <1>9, <1>10 DEF WriteInv

\* Steps that send nothing, or only drop requests.
LEMMA QuietWrites ==
  ASSUME WriteInv, late' \subseteq late, UNCHANGED <<written, nextWrite, told>>
  PROVE  WriteInv'
  BY NoWriteKeeps DEF NoWrite

LEMMA CallStepWrites ==
  ASSUME WriteInv, CallStep
  PROVE  WriteInv'
  <1> USE DEF selfVars, histVars
  <1>1. CASE Register
    BY <1>1, QuietWrites DEF Register, Quiet, Unsent, serverVars
  <1>2. CASE SetupFails
    BY <1>2, CompoundNoWrite DEF SetupFails, Plain
  <1>3. CASE Unregister
    BY <1>3, CompoundNoWrite DEF Unregister, Closes
  <1>4. CASE ReadChunk
    BY <1>4, CompoundNoWrite DEF ReadChunk
  <1>5. CASE Exchange
    BY <1>5, QuietWrites DEF Exchange
  <1>6. CASE Create
    BY <1>6, QuietWrites DEF Create
  <1>7. CASE Reclaim
    BY <1>7, CompoundNoWrite DEF Reclaim, Plain
  <1>8. CASE Mount
    BY <1>8, CompoundNoWrite, ZenonT(60) DEF Mount, Plain
  <1>9. CASE Reopen
    <2>1. PICK o, r, part : part \in Parts(Opening(rep, o)) /\ Compound(rep, Opening(rep, o), part, r)
      BY <1>9, ZenonT(60) DEF Reopen
    <2> QED BY <1>9, <2>1, CompoundNoWrite, ZenonT(60) DEF Reopen, Opening
  <1>10. CASE RetireClose
    <2>1. UNCHANGED <<told, nextWrite>>
      BY <1>10 DEF RetireClose, Adopt
    <2>2. CASE Unsent
      BY <2>1, <2>2, QuietWrites DEF Unsent, serverVars
    <2>3. CASE \E c, r, part : part \in Parts(Closes(rep, c)) /\ Compound(rep, Closes(rep, c), part, r)
      BY <2>1, <2>3, CompoundNoWrite DEF Closes
    <2> QED BY <1>10, <2>2, <2>3 DEF RetireClose, Quiet
  <1>11. CASE RetireSession
    BY <1>11, QuietWrites DEF RetireSession, DestroySession, Adopt
  <1>12. CASE CloseAll
    <2>1. UNCHANGED <<told, nextWrite>>
      BY <1>12 DEF CloseAll
    <2>2. CASE Quiet
      BY <2>1, <2>2, QuietWrites DEF Quiet, Unsent, serverVars
    <2>3. CASE \E k, c, r, part : part \in Parts(Closes(k, c)) /\ Compound(k, Closes(k, c), part, r)
      BY <2>1, <2>3, CompoundNoWrite DEF Closes
    <2> QED BY <1>12, <2>2, <2>3 DEF CloseAll
  <1>13. CASE DownDrain
    <2>1. UNCHANGED <<told, nextWrite>>
      BY <1>13 DEF DownDrain
    <2>2. CASE Quiet
      BY <2>1, <2>2, QuietWrites DEF Quiet, Unsent, serverVars
    <2>3. CASE \E c, r, part : part \in Parts(Closes(cur, c)) /\ Compound(cur, Closes(cur, c), part, r)
      BY <2>1, <2>3, CompoundNoWrite DEF Closes
    <2> QED BY <1>13, <2>2, <2>3, ZenonT(60) DEF DownDrain
  <1>14. CASE TearSession
    BY <1>14, QuietWrites DEF TearSession, DestroySession
  <1>15. CASE TearClient
    BY <1>15, QuietWrites DEF TearClient
  <1> QED BY <1>1, <1>2, <1>3, <1>4, <1>5, <1>6, <1>7, <1>8, <1>9, <1>10, <1>11, <1>12, <1>13,
             <1>14, <1>15 DEF CallStep

LEMMA CallStartWrites ==
  ASSUME WriteInv, CallStart
  PROVE  WriteInv'
  <1> USE DEF selfVars, histVars
  <1>1. ASSUME NEW obj \in Objs, OpenFile(obj) PROVE WriteInv'
    BY <1>1, CompoundNoWrite, ZenonT(60) DEF OpenFile, Opening
  <1>2. ASSUME NEW fd \in Fds, CloseFile(fd) PROVE WriteInv'
    BY <1>2, CompoundNoWrite DEF CloseFile, Closes
  <1>3. ASSUME NEW fd \in Fds, WriteFile(fd) PROVE WriteInv'
    BY <1>3, WriteFileWrites
  <1>4. ASSUME NEW fd \in Fds, ReadFile(fd) PROVE WriteInv'
    BY <1>4, QuietWrites DEF ReadFile, Quiet, Unsent, serverVars
  <1>5. CASE DrainDeferred
    BY <1>5, CompoundNoWrite DEF DrainDeferred, Closes
  <1>6. CASE Reconnect
    BY <1>6, QuietWrites DEF Reconnect, Quiet, Unsent, serverVars
  <1>7. ASSUME NEW kind, Teardown(kind) PROVE WriteInv'
    BY <1>7, QuietWrites DEF Teardown, Quiet, Unsent, serverVars
  <1> QED BY <1>1, <1>2, <1>3, <1>4, <1>5, <1>6, <1>7 DEF CallStart

LEMMA NextWrites == WriteInv /\ [Next]_vars => WriteInv'
  <1> SUFFICES ASSUME WriteInv, [Next]_vars PROVE WriteInv'
    OBVIOUS
  <1>1. CASE ServerStep
    <2>1. UNCHANGED <<told, nextWrite>>
      BY <1>1 DEF ServerStep, clientVars, selfVars, histVars
    <2>2. CASE LateRequest
      BY <2>1, <2>2, LateWrites
    <2>3. ASSUME NEW c \in Cids, Forget(c) PROVE WriteInv'
      BY <2>1, <2>3, QuietWrites DEF Forget
    <2> QED BY <1>1, <2>2, <2>3 DEF ServerStep
  <1>2. CASE UNCHANGED vars
    BY <1>2, QuietWrites DEF vars, serverVars, selfVars, histVars
  <1> QED BY <1>1, <1>2, CallStepWrites, CallStartWrites DEF Next, Done

\* NfsRecoveryPolicy: "Mutating operations are never replayed automatically".
\* Whatever is lost, delayed, retried or reconnected, the server applies a
\* WRITE call at most once; one reported done was applied and one reported
\* failed never is.
THEOREM WritesAtMostOnce == Spec => []WriteAtMostOnce
  <1>1. Init => WriteInv
    BY SMTT(30) DEF Init, WriteInv
  <1>2. WriteInv => WriteAtMostOnce
    BY DEF WriteInv, WriteAtMostOnce
  <1> QED BY <1>1, <1>2, NextWrites, PTL DEF Spec
=============================================================================
