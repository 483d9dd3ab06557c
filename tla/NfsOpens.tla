----------------------------- MODULE NfsOpens -----------------------------
(* Opening and closing descriptors of the NFS backend (crates/vfsi-nfs:     *)
(* nfs/handle_backend.rs, nfs/open.rs, nfs/vector_backend.rs).  A scalar    *)
(* open is a row of requests, and another client may change the directory   *)
(* between any two of them; a vector open is one compound per stretch       *)
(* without symbolic links.  A request can be refused, lost, or lost after   *)
(* it was executed; a lost one poisons the session (Session::compound) and  *)
(* only a reconnect, modelled in NfsRecovery, ends that.  One compound is   *)
(* one step.                                                                *)
EXTENDS Naturals, Sequences, FiniteSets, SequencesExt

CONSTANTS Names,      \* entries of one directory
          Inos,       \* inodes that may come into being (numbers)
          Ids,        \* OPEN stateids (numbers); each public OPEN has its own owner
          MaxFds,     \* the descriptor numbers wrap here (i32::MAX in the code)
          MaxItems,   \* length of a vector
          MaxFaults,  \* refused, lost or revoked things in a behaviour
          MaxForeign, \* changes made by the other client
          Revokes,    \* whether the server may revoke an open
          Flags,      \* kinds of open the callers use
          VFlags      \* the kinds of the items of a vector open, in order

VARIABLES srv,      \* the server: ns, live, and ghosts: who made a file (made), whose files we
                    \* set the mode of (moded), what was opened for which path (what), and
                    \* the opens the client cannot know of or failed to clean up (excused)
          cl,       \* the client: files, next, deferred (deferred_descriptor_closes), paths
                    \* (deferred_path_closes), and the ghost known: opens whose OPEN was
                    \* answered and whose CLOSE was not
          up,       \* the session is not poisoned
          faults, foreign,
          call      \* the call in progress
vars == <<srv, cl, up, faults, foreign, call>>

None == [kind |-> "none", ino |-> 0, to |-> CHOOSE n \in Names : TRUE]
File(i) == [None EXCEPT !.kind = "file", !.ino = i]
Link(n) == [None EXCEPT !.kind = "link", !.to = n]
Nothing == [ino |-> 0, by |-> "none"]
FlagOf(f) == [create |-> f \in {"create", "excl"}, excl |-> f = "excl", trunc |-> f = "trunc",
              mutates |-> f # "read"]
Idle == [pc |-> "idle"]

Init ==
    /\ srv \in {[ns |-> s, made |-> [i \in Inos |-> IF \E n \in Names : s[n].ino = i THEN "other" ELSE "nobody"],
                 moded |-> {}, live |-> {}, excused |-> {}, what |-> [h \in Ids |-> Nothing]] :
                  s \in {[n \in Names |-> IF n \in L THEN Link(t) ELSE IF n \in F THEN File(1) ELSE None] :
                           L \in SUBSET Names, F \in SUBSET Names, t \in Names}}
    /\ \A n, o \in Names : srv.ns[n].kind = "file" /\ srv.ns[o].kind = "file" => n = o
    /\ cl = [files |-> <<>>, next |-> 0, deferred |-> <<>>, paths |-> <<>>, known |-> {}]
    /\ up = TRUE /\ faults = 0 /\ foreign = 0 /\ call = Idle

(* What becomes of a request; without a session none is sent.               *)
Meets(o) ==
    /\ o \in IF up THEN {"ok", "refused", "lost", "late"} ELSE {"lost"}
    /\ faults' = IF up /\ o # "ok" THEN faults + 1 ELSE faults
    /\ faults' <= MaxFaults
    /\ up' = (up /\ o \notin {"lost", "late"})

(* OPEN at the server.                                                      *)
Used(s) == s.live \cup Range(cl.files) \cup Range(cl.deferred) \cup Range(cl.paths)
           \cup (IF "give" \in DOMAIN call THEN Range(call.give) ELSE {})
FreshId(s) == CHOOSE h \in Ids \ Used(s) : \A k \in Ids \ Used(s) : h <= k
FreshIno(s) == CHOOSE i \in Inos : /\ s.made[i] = "nobody"
                                   /\ \A k \in Inos : s.made[k] = "nobody" => i <= k
Room(s, n) == /\ Cardinality(Ids \ Used(s)) >= n
              /\ Cardinality({i \in Inos : s.made[i] = "nobody"}) >= Cardinality({e \in Names : s.ns[e].kind = "none"})
Opens(s, i, by) == [s EXCEPT !.live = @ \cup {FreshId(s)}, !.what[FreshId(s)] = [ino |-> i, by |-> by]]
ServerOpen(s, n, mode, by) ==
    LET e == s.ns[n]
        i == FreshIno(s)
    IN  CASE e.kind = "none" /\ mode = "nocreate" -> [s |-> s, status |-> "NOENT", id |-> 0]
          [] e.kind = "none" /\ mode # "nocreate" ->
               [s |-> [Opens(s, i, by) EXCEPT !.ns[n] = File(i), !.made[i] = "me"], status |-> "ok", id |-> FreshId(s)]
          [] e.kind = "file" /\ mode \in {"nocreate", "unchecked"} ->
               [s |-> Opens(s, e.ino, by), status |-> "ok", id |-> FreshId(s)]
          [] e.kind # "none" /\ mode \in {"guarded", "exclusive"} -> [s |-> s, status |-> "EXIST", id |-> 0]
          [] OTHER -> [s |-> s, status |-> "SYMLINK", id |-> 0]

(* insert_fd; 0 stands for EMFILE.                                          *)
Inserted(c, h) ==
    LET Step(k) == ((c.next + k - 1) % MaxFds) + 1
        k == CHOOSE k \in 1..MaxFds : /\ Step(k) \notin DOMAIN c.files
                                      /\ \A j \in 1..k - 1 : Step(j) \in DOMAIN c.files
    IN  IF DOMAIN c.files = 1..MaxFds THEN [c |-> c, fd |-> 0]
        ELSE [c |-> [c EXCEPT !.files = [f \in DOMAIN c.files \cup {Step(k)} |->
                                            IF f = Step(k) THEN h ELSE c.files[f]],
                              !.next = Step(k)],
              fd |-> Step(k)]
Without(f, fds) == [x \in DOMAIN f \ fds |-> f[x]]

(* CLOSE of a sequence of stateids in order (close_many): the first that is *)
(* not open, or that the server refuses (the k-th), ends it.                *)
Closable(s, ids, k) ==
    LET bad == {j \in DOMAIN ids : ids[j] \notin s.live \/ j = k}
    IN  IF bad = {} THEN Len(ids) ELSE (CHOOSE j \in bad : \A i \in bad : j <= i) - 1
Closes(s, ids, n) == [s EXCEPT !.live = @ \ {ids[j] : j \in 1..n}]
Forgets(c, ids, n) == [c EXCEPT !.known = @ \ {ids[j] : j \in 1..n}]

(* An OPEN that was executed and whose reply was lost: the client has no    *)
(* name for it.                                                             *)
Unheard(s, ids) == [s EXCEPT !.excused = @ \cup ids]

-----------------------------------------------------------------------------
(* The other client.                                                        *)
Foreign ==
    /\ foreign < MaxForeign /\ foreign' = foreign + 1
    /\ \E n \in Names :
         \/ /\ srv.ns[n].kind # "none" /\ srv' = [srv EXCEPT !.ns[n] = None]
         \/ /\ srv.ns[n].kind = "none" /\ Room(srv, 1)
            /\ srv' = [srv EXCEPT !.ns[n] = File(FreshIno(srv)), !.made[FreshIno(srv)] = "other"]
         \/ /\ srv.ns[n].kind = "none"
            /\ \E t \in Names \ {n} : srv' = [srv EXCEPT !.ns[n] = Link(t)]
    /\ UNCHANGED <<cl, up, faults, call>>

(* The server takes an open back (an administrator, an expired lease).      *)
Revoke(h) ==
    /\ Revokes /\ h \in srv.live /\ faults < MaxFaults
    /\ srv' = [srv EXCEPT !.live = @ \ {h}] /\ faults' = faults + 1
    /\ UNCHANGED <<cl, up, foreign, call>>

(* A reconnect reopens the descriptors (under the same numbers here) and    *)
(* closes what both queues hold over the new session, or queues it there    *)
(* (reconnect_once, retire_replaced_connection).                            *)
Reconnect ==
    /\ call.pc = "idle" /\ ~up
    /\ up' = TRUE
    /\ \E retired \in BOOLEAN :
         LET left == IF retired THEN <<>> ELSE cl.deferred \o cl.paths
         IN  /\ retired \/ (cl.deferred \o cl.paths # <<>> /\ faults < MaxFaults)
             /\ faults' = IF retired THEN faults ELSE faults + 1
             /\ srv' = [srv EXCEPT !.live = Range(cl.files) \cup (@ \cap Range(left))]
             /\ cl' = [cl EXCEPT !.deferred = <<>>, !.paths = left, !.known = Range(cl.files) \cup (@ \cap Range(left))]
    /\ UNCHANGED <<foreign, call>>

-----------------------------------------------------------------------------
(* The scalar open, alone or for a link inside a vector.                    *)
Fresh(ns, fs, vector) ==
    [pc |-> IF vector THEN "merged" ELSE "follow", names |-> ns, flags |-> fs, i |-> 1, vector |-> vector,
     got |-> <<>>, outer |-> FALSE, target |-> "none", created |-> FALSE, give |-> <<>>, status |-> "ok",
     before |-> DOMAIN cl.files]  \* ghost
Flag == FlagOf(call.flags[call.i])
Done(got, outer) == [call EXCEPT !.pc = "returned", !.got = got, !.outer = outer, !.i = 1, !.flags = <<>>,
                                 !.target = "none", !.created = FALSE, !.give = <<>>, !.status = "ok"]
Ends(r) == Done(Append(call.got, r), FALSE)
Continues(r) ==
    IF call.vector /\ call.i < Len(call.names)
    THEN [call EXCEPT !.pc = "merged", !.got = Append(@, r), !.i = @ + 1, !.target = "none", !.give = <<>>] ELSE Ends(r)
(* The opens in call.give are closed, and after that the call goes on as    *)
(* "status" says: "item" and "vector" answer it, "outer" fails as a whole.  *)
CleansUp(ids, then) == [call EXCEPT !.pc = "cleanup", !.give = ids, !.status = then]

OpenPath(n, f) ==
    /\ call.pc = "idle" /\ call' = Fresh(<<n>>, <<f>>, FALSE)
    /\ UNCHANGED <<srv, cl, up, faults, foreign>>

(* follow_target_path, except for an exclusive create.                      *)
Reached(n) ==
    LET f[k \in 0..Cardinality(Names)] ==
          IF k = 0 THEN n ELSE LET m == f[k - 1] IN IF srv.ns[m].kind = "link" THEN srv.ns[m].to ELSE m
    IN  f[Cardinality(Names)]
Follow ==
    /\ call.pc = "follow"
    /\ \E o \in {"ok", "refused", "lost"} :
         LET n == call.names[call.i]
             t == IF Flag.excl THEN n ELSE Reached(n)
         IN  /\ IF Flag.excl THEN o = "ok" /\ UNCHANGED <<up, faults>> ELSE Meets(o)
             /\ call' = IF o # "ok" \/ (~Flag.excl /\ srv.ns[t].kind = "link") THEN Ends(0)
                        ELSE [call EXCEPT !.pc = "probe", !.target = t]
    /\ UNCHANGED <<srv, cl, foreign>>

(* The existence probe decides whether the OPEN creates.                    *)
Probe ==
    /\ call.pc = "probe"
    /\ LET asks == Flag.create /\ ~Flag.excl
       IN  \E o \in {"ok", "refused", "lost"} :
             /\ IF asks THEN Meets(o) ELSE o = "ok" /\ UNCHANGED <<up, faults>>
             /\ call' = IF o # "ok" THEN Ends(0)
                        ELSE [call EXCEPT !.pc = "open",
                                !.created = Flag.excl \/ (asks /\ srv.ns[call.target].kind = "none")]
    /\ UNCHANGED <<srv, cl, foreign>>

(* open_after_create_probe and open_impl.  A create that finds the name     *)
(* taken is retried without creating.                                       *)
CreateMode ==
    IF ~call.created \/ call.pc = "retry" THEN "nocreate" ELSE IF Flag.excl THEN "exclusive" ELSE "guarded"
Created == call.created /\ call.pc = "open"

Open ==
    /\ call.pc \in {"open", "retry"} /\ Room(srv, 1)
    /\ \E o \in {"ok", "refused", "lost", "late"} :
         LET r == ServerOpen(srv, call.target, CreateMode, call.names[call.i])
         IN  /\ Meets(o)
             /\ srv' = CASE o = "ok" -> r.s [] o = "late" -> Unheard(r.s, IF r.status = "ok" THEN {r.id} ELSE {}) [] OTHER -> srv
             /\ cl' = IF o = "ok" /\ r.status = "ok" THEN [cl EXCEPT !.known = @ \cup {r.id}] ELSE cl
             /\ call' = IF o # "ok" THEN Ends(0)
                        ELSE IF r.status = "EXIST" /\ ~Flag.excl
                             THEN [call EXCEPT !.pc = "retry"]
                        ELSE IF r.status # "ok" THEN Ends(0)
                        ELSE [call EXCEPT !.pc = "mode", !.give = <<r.id>>, !.created = Created]
    /\ UNCHANGED foreign

(* The mode of a file this call created, then the truncation and the        *)
(* descriptor; after a failure the open is closed.                          *)
SetMode ==
    /\ call.pc = "mode"
    /\ LET asks == call.created /\ ~Flag.excl
       IN  \E o \in {"ok", "refused", "lost", "late"} :
             LET s == IF asks /\ o \in {"ok", "late"}
                      THEN [srv EXCEPT !.moded = @ \cup {srv.made[srv.what[Head(call.give)].ino]}] ELSE srv
             IN  /\ IF asks THEN Meets(o) ELSE o = "ok" /\ UNCHANGED <<up, faults>>
                 /\ srv' = s
                 /\ call' = IF o = "ok" THEN [call EXCEPT !.pc = "truncate"] ELSE CleansUp(call.give, "item")
    /\ UNCHANGED <<cl, foreign>>

Truncate ==
    /\ call.pc = "truncate"
    /\ \E o \in {"ok", "refused", "lost"} :
         /\ IF Flag.trunc THEN Meets(o) ELSE o = "ok" /\ UNCHANGED <<up, faults>>
         /\ LET r == Inserted(cl, Head(call.give))
            IN  IF o = "ok" /\ r.fd # 0
                THEN cl' = r.c /\ call' = Continues(r.fd)
                ELSE call' = CleansUp(call.give, "item") /\ UNCHANGED cl
    /\ UNCHANGED <<srv, foreign>>

-----------------------------------------------------------------------------
(* drain_deferred_descriptor_closes: what was not confirmed stays; a lost   *)
(* reply confirms nothing.                                                  *)
Unconfirmed(q, n) == SubSeq(q, n + 1, Len(q))
Drains(o, k) ==
    LET q == cl.deferred
        n == IF o \in {"ok", "late", "refused"} THEN Closable(srv, q, IF o = "refused" THEN k ELSE 0) ELSE 0
        known == IF o = "late" THEN 0 ELSE n
    IN  /\ IF q = <<>> THEN o = "ok" /\ UNCHANGED <<up, faults>> ELSE Meets(o)
        /\ o = "refused" => k \in DOMAIN q
        /\ srv' = Closes(srv, q, n)
        /\ cl' = [Forgets(cl, q, known) EXCEPT !.deferred = Unconfirmed(q, known)]

(* vopen_outcomes_impl: a failing drain fails the call before anything is   *)
(* opened.                                                                  *)
VOpen(ns, fs) ==
    /\ call.pc = "idle"
    /\ \E o \in {"ok", "refused", "lost", "late"}, k \in 1..Cardinality(Ids) :
         /\ o # "refused" => k = 1
         /\ Drains(o, k)
         /\ call' = IF cl'.deferred = <<>> /\ o = "ok" THEN Fresh(ns, fs, TRUE)
                    ELSE [Fresh(ns, <<>>, TRUE) EXCEPT !.pc = "returned", !.outer = TRUE]
    /\ UNCHANGED foreign

(* openv_merged for the items from call.i on: OPENs up to the first that    *)
(* fails, then a descriptor for each of them; the first that finds none     *)
(* ends the registration, and the opens from there on are given up.         *)
MergedMode(f) == IF f.excl THEN "exclusive" ELSE IF f.create THEN "unchecked" ELSE "nocreate"
OpensOf(refusedAt) ==
    LET f[k \in call.i - 1..Len(call.names)] ==
          IF k = call.i - 1 THEN [s |-> srv, ids |-> <<>>, status |-> "ok"]
          ELSE LET p == f[k - 1]
                   r == ServerOpen(p.s, call.names[k], MergedMode(FlagOf(call.flags[k])), call.names[k])
               IN  IF p.status # "ok" THEN p
                   ELSE IF k = refusedAt THEN [p EXCEPT !.status = "refused"]
                   ELSE [s |-> r.s, status |-> r.status,
                         ids |-> IF r.status = "ok" THEN Append(p.ids, r.id) ELSE p.ids]
    IN  f[Len(call.names)]
Registered(ids) ==
    LET f[k \in 0..Len(ids)] ==
          IF k = 0 THEN [c |-> cl, fds |-> <<>>]
          ELSE LET p == f[k - 1]
                   r == Inserted(p.c, ids[k])
               IN  IF 0 \in Range(p.fds) THEN p ELSE [c |-> r.c, fds |-> Append(p.fds, r.fd)]
    IN  f[Len(ids)]

(* What follows the OPENs ids that ended with status: descriptors, and for  *)
(* a read-only open of a link the scalar path.                              *)
Registers(ids, status) ==
    LET r == Registered(ids)
        got == call.got \o r.fds
        j == Len(got) + 1
    IN  /\ cl' = [r.c EXCEPT !.known = @ \cup Range(ids)]
        /\ call' = IF 0 \in Range(r.fds)
                   THEN [CleansUp(SubSeq(ids, Len(r.fds), Len(ids)), "vector") EXCEPT !.got = got]
                   ELSE IF status = "ok" THEN Done(got, FALSE)
                   ELSE IF status = "SYMLINK" /\ ~FlagOf(call.flags[j]).mutates
                   THEN [call EXCEPT !.pc = "follow", !.got = got, !.i = j, !.give = <<>>, !.status = "ok"]
                   ELSE Done(Append(got, 0), FALSE)

(* A failure of the whole call: the descriptors of the items before go      *)
(* through close_impl, one after the other.                                 *)
Fails == IF call.got = <<>> THEN Done(<<>>, TRUE)
         ELSE [call EXCEPT !.pc = "release", !.outer = TRUE, !.give = <<>>, !.status = "ok"]

(* openv_path_compound: the queue of path closes is drained first, a CLOSE  *)
(* each; one whose stateid is gone counts as done.                          *)
DrainPath ==
    /\ call.pc = "merged" /\ cl.paths # <<>>
    /\ \E o \in {"ok", "refused", "lost", "late"} :
         /\ Meets(o)
         /\ srv' = IF o \in {"ok", "late"} THEN [srv EXCEPT !.live = @ \ {Head(cl.paths)}] ELSE srv
         /\ IF o = "ok" THEN cl' = [cl EXCEPT !.paths = Tail(@), !.known = @ \ {Head(cl.paths)}] /\ UNCHANGED call
            ELSE call' = Fails /\ UNCHANGED cl
    /\ UNCHANGED foreign

Merged ==
    /\ call.pc = "merged" /\ cl.paths = <<>> /\ Room(srv, Len(call.names) - call.i + 1)
    /\ \E o \in {"ok", "refused", "lost", "late"}, at \in call.i..Len(call.names) :
         LET m == OpensOf(IF o = "refused" THEN at ELSE 0)
             exclusive == \E j \in DOMAIN m.ids : FlagOf(call.flags[call.i + j - 1]).excl
         IN  /\ o # "refused" => at = call.i
             /\ Meets(o)
             /\ CASE o = "lost" -> call' = Fails /\ UNCHANGED <<srv, cl>>
                  [] o = "late" -> srv' = Unheard(m.s, Range(m.ids)) /\ call' = Fails /\ UNCHANGED cl
                  [] OTHER ->
                       /\ srv' = m.s
                       /\ IF exclusive
                          THEN /\ call' = [call EXCEPT !.pc = "verify", !.give = m.ids, !.status = m.status]
                               /\ cl' = [cl EXCEPT !.known = @ \cup Range(m.ids)]
                          ELSE Registers(m.ids, m.status)
    /\ UNCHANGED foreign

(* cleanup_exclusive_path_opens: the attributes of the files created        *)
(* exclusively; a failure fails the call and closes what it opened.         *)
Verify ==
    /\ call.pc = "verify"
    /\ \E o \in {"ok", "refused", "lost"} :
         /\ Meets(o)
         /\ IF o = "ok" THEN Registers(call.give, call.status)
            ELSE call' = CleansUp(call.give, "outer") /\ UNCHANGED cl
    /\ UNCHANGED <<srv, foreign>>

(* The CLOSE of opens that have no descriptor.  close_unregistered and      *)
(* close_unregistered_many ignore a failure, and what is left is open for   *)
(* good; close_path_or_defer queues all of them then.                       *)
DeferredRest(ids, n) == cl.paths \o SubSeq(ids, n + 2, Len(ids))
Deferred(ids, n) == cl.paths \o ids
CleanUp ==
    /\ call.pc = "cleanup"
    /\ \E o \in {"ok", "refused", "lost", "late"}, k \in DOMAIN call.give :
         LET ids == call.give
             n == IF o = "lost" THEN 0 ELSE Closable(srv, ids, IF o = "refused" THEN k ELSE 0)
             left == {ids[j] : j \in (n + 1)..Len(ids)}
             failed == o # "ok" \/ left # {}
         IN  /\ o # "refused" => k = 1
             /\ Meets(o)
             /\ srv' = [Closes(srv, ids, n) EXCEPT !.excused = @ \cup (IF call.status = "outer" THEN {} ELSE left)]
             /\ cl' = IF call.status = "outer" /\ failed THEN [cl EXCEPT !.paths = Deferred(ids, n)]
                      ELSE [cl EXCEPT !.known = @ \ Range(ids)]
             /\ call' = CASE call.status = "outer" -> Fails
                          [] call.status = "vector" -> Done(call.got, FALSE)
                          [] OTHER -> Ends(0)
    /\ UNCHANGED foreign

(* With the call its ghosts go, and the numbers of files that are gone may  *)
(* be used again; nothing the client does later touches an excused open.    *)
Return ==
    /\ call.pc = "returned" /\ call' = Idle
    /\ srv' = [srv EXCEPT !.live = @ \ srv.excused, !.excused = {}, !.what = [h \in Ids |-> Nothing],
                          !.made = [i \in Inos |-> IF \E n \in Names : srv.ns[n].ino = i THEN @[i] ELSE "nobody"]]
    /\ UNCHANGED <<cl, up, faults, foreign>>

-----------------------------------------------------------------------------
(* close_impl: the descriptor goes first; a failed CLOSE is queued.         *)
CloseImpl(fd) ==
    \E o \in {"ok", "refused", "lost", "late"} :
         LET h == cl.files[fd]
             gone == o \in {"ok", "late"}
             done == o = "ok" /\ h \in srv.live
             c == [cl EXCEPT !.files = Without(@, {fd})]
         IN  /\ Meets(o)
             /\ srv' = IF gone THEN [srv EXCEPT !.live = @ \ {h}] ELSE srv
             /\ cl' = IF done THEN [c EXCEPT !.known = @ \ {h}] ELSE [c EXCEPT !.deferred = Append(@, h)]
Close(fd) ==
    /\ call.pc = "idle" /\ fd \in DOMAIN cl.files
    /\ CloseImpl(fd)
    /\ UNCHANGED <<foreign, call>>
Release ==
    /\ call.pc = "release"
    /\ CloseImpl(Head(call.got))
    /\ call' = IF Len(call.got) = 1 THEN Done(<<>>, TRUE) ELSE [call EXCEPT !.got = Tail(@)]
    /\ UNCHANGED foreign

(* close_deferred, for a handle whose close failed: its open is in the      *)
(* queue, or was drained since.                                             *)
CloseDeferred ==
    /\ call.pc = "idle"
    /\ \E o \in {"ok", "refused", "lost", "late"}, k \in 1..Cardinality(Ids) :
         (o # "refused" => k = 1) /\ Drains(o, k)
    /\ UNCHANGED <<foreign, call>>

(* vclose_impl: the descriptors before the failed one leave the table; a    *)
(* lost reply leaves all of them.                                           *)
VClose(fds) ==
    /\ call.pc = "idle" /\ fds # <<>> /\ Range(fds) \subseteq DOMAIN cl.files /\ IsInjective(fds)
    /\ \E o \in {"ok", "refused", "lost", "late"}, k \in DOMAIN fds :
         LET ids == [j \in DOMAIN fds |-> cl.files[fds[j]]]
             n == IF o = "lost" THEN 0 ELSE Closable(srv, ids, IF o = "refused" THEN k ELSE 0)
             out == IF o \in {"lost", "late"} THEN 0 ELSE n
         IN  /\ o # "refused" => k = 1
             /\ Meets(o)
             /\ srv' = Closes(srv, ids, n)
             /\ cl' = [Forgets(cl, ids, IF o = "late" THEN 0 ELSE n)
                         EXCEPT !.files = Without(@, {fds[j] : j \in 1..out})]
    /\ UNCHANGED <<foreign, call>>

(* open_path_batch and truncate_path_opens for a vector of descriptors,     *)
(* plain paths and paths to truncate, once all are open: a failing SETATTR  *)
(* closes the temporary opens and names an item of the vector.              *)
Subset(items) == SelectSeq([k \in DOMAIN items |-> k], LAMBDA k : items[k] # "fd")
Truncated(items) == SelectSeq([k \in DOMAIN items |-> k], LAMBDA k : items[k] = "trunc")
TruncateBatch(items) ==
    /\ call.pc = "idle" /\ Truncated(items) # <<>> /\ up /\ faults < MaxFaults
    /\ \E k \in DOMAIN Truncated(items) :
         call' = [pc |-> "batch", index |-> Subset(items)[k], at |-> Truncated(items)[k]]
    /\ faults' = faults + 1
    /\ UNCHANGED <<srv, cl, up, foreign>>
BatchReturn ==
    /\ call.pc = "batch" /\ call' = Idle
    /\ UNCHANGED <<srv, cl, up, faults, foreign>>

Vectors(S) == UNION {[1..n -> S] : n \in 1..MaxItems}
OpenStep == Follow \/ Probe \/ Open \/ SetMode \/ Truncate \/ DrainPath \/ Merged \/ Verify \/ CleanUp \/ Release
            \/ Return \/ BatchReturn
Next ==
    \/ OpenStep \/ Foreign \/ Reconnect \/ CloseDeferred
    \/ \E h \in Ids : Revoke(h)
    \/ \E n \in Names, f \in Flags : OpenPath(n, f)
    \/ \E fs \in VFlags : \E ns \in [DOMAIN fs -> Names] : VOpen(ns, fs)
    \/ \E fd \in 1..MaxFds : Close(fd)
    \/ \E fds \in Vectors(1..MaxFds) : VClose(fds)
    \/ \E items \in Vectors({"fd", "path", "trunc"}) : TruncateBatch(items)

Spec == Init /\ [][Next]_vars

-----------------------------------------------------------------------------
Places(q, h) == Cardinality({k \in DOMAIN q : q[k] = h})
Owners(h) == Places(cl.files, h) + Places(cl.deferred, h) + Places(cl.paths, h)
           + IF "give" \in DOMAIN call THEN Places(call.give, h) ELSE 0
(* An open at the server is under exactly one descriptor, in exactly one    *)
(* place of the two queues of failed closes, or held by the call in         *)
(* progress.  Two kinds are excused, and no others: the reply of its OPEN   *)
(* was lost, or it never had a descriptor and the CLOSE that was to clean   *)
(* it up failed (close_unregistered, whose error is ignored).               *)
OwnedOnce == \A h \in srv.live \ srv.excused : Owners(h) = 1

(* A CLOSE the server confirmed is never asked for again: what the queue    *)
(* holds is open, or its CLOSE was lost or refused.                         *)
ConfirmedGone == \A k \in DOMAIN cl.deferred : cl.deferred[k] \in cl.known

(* An open that created nothing changes no mode: when another client wins   *)
(* the race between the probe and the OPEN, its file keeps its mode         *)
(* (open_after_create_probe).                                               *)
ModeKept == srv.moded \subseteq {"me"}

(* A vector open that fails as a whole hands out nothing and leaves no      *)
(* descriptor behind, those of the items before the failure included.       *)
NoneBehind == call.pc = "returned" /\ call.outer => DOMAIN cl.files \subseteq call.before

(* The answers of a vector open are those of its items in order, up to the  *)
(* first that failed: the descriptor at a place was opened for the path at  *)
(* that place, through a link followed in between too.                      *)
AnswersOwn ==
    call.pc = "returned" /\ ~call.outer =>
        \A k \in DOMAIN call.got :
            IF call.got[k] = 0 THEN k = Len(call.got)
            ELSE srv.what[cl.files[call.got[k]]].by = call.names[k]

=============================================================================
