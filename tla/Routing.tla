------------------------------- MODULE Routing ------------------------------
(***************************************************************************)
(* Auto's vector operations (crates/vnfs/src/auto/dispatch.rs).  Operands  *)
(* are resolved to routes and checked, and runs of adjacent operands on    *)
(* one backend (cohorts) are handed to that backend in input order.  An    *)
(* operand is                                                              *)
(*   src, dst  its route, and for pairs the route of the second path       *)
(*   state     ok, or what is wrong with it: "foreign" (a handle of        *)
(*             another client or of another identity), "closed",           *)
(*             "invalid" (refused by a local check), "bad" (refused by the *)
(*             backend)                                                    *)
(*   size      bytes of the file                                           *)
(*   nested    other mounts lie below it                                   *)
(* A backend that refuses a vector may have executed any of the operands   *)
(* it did not refuse (it runs waves of independent ones), and names the    *)
(* refused operand when it knows it.                                       *)
(***************************************************************************)
EXTENDS Integers, Sequences, FiniteSets, FiniteSetsExt

CONSTANTS
  Cases,     \* operations with the operands and options to call them with
  MaxLen,    \* bound: operands of a call
  Posix      \* the route through the kernel

VARIABLES call, at, done, sent, first, left, out

vars == <<call, at, done, sent, first, left, out>>

Running == [status |-> "running", index |-> 0]
Ok == [status |-> "ok", index |-> 0]
Lost == [status |-> "transport", index |-> 0]
Refused(i) == [status |-> "refused", index |-> i]   \* nothing was dispatched
Failed(i) == [status |-> "failed", index |-> i]

Init ==
  /\ \E c \in Cases, n \in 1 .. MaxLen :
       \E op \in c.ops, items \in [1 .. n -> c.items], k \in c.continues :
         call = [op |-> op, items |-> items, continues |-> k, budget |-> c.budget]
  /\ at = 0 /\ done = {} /\ sent = <<>> /\ first = 0
  /\ left = call.budget /\ out = Running

Items == call.items
Unnamed == -1   \* the index of an error that names no operand
SizeOf(S) == FoldSet(LAMBDA i, sum : sum + Items[i].size, 0, S)
Pairs == {"rename", "renameatomic", "hardlink", "copy"}
----------------------------------------------------------------------------
(* Cohorts *)

\* A recursive removal stays with the kernel where mounts are nested.
Route(i) == IF call.op = "remove" /\ Items[i].nested THEN Posix ELSE Items[i].src

Joins(i, j) ==
  /\ Route(j) = Route(i)
  /\ call.op = "rename" => Items[j].dst = Items[i].src
  /\ call.op = "close" => Items[j].state # "closed"

CohortEnd(i) ==
  Max({e \in i .. Len(Items) : \A j \in i + 1 .. e : Joins(i, j)})

\* The operands the backend refuses, in a cohort.
Unacceptable(i) ==
  \/ Items[i].state = "bad"
  \/ Items[i].state = "closed" /\ call.op \in {"read", "readinto", "write"}
Bad(lo, hi) == {i \in lo .. hi : Unacceptable(i)}

TooLarge(lo, hi) ==
  IF call.op # "readfiles" THEN {}
  ELSE {i \in lo .. hi : SizeOf(lo .. i) > left}

Indexed(start, local) == start - 1 + local

FirstError(index) == IF first = 0 THEN index ELSE first

Continues == call.op \in {"remove", "cleardirs"} /\ call.continues

\* The last step of the loop body: the next cohort, or the result.
Advance(hi, error) ==
  /\ first' = error
  /\ IF hi < Len(Items) THEN at' = hi + 1 /\ UNCHANGED out
     ELSE /\ out' = IF error = 0 THEN Ok ELSE Failed(error)
          /\ UNCHANGED at

Cohort(lo, hi) ==
  LET refused == Bad(lo, hi) \cup TooLarge(lo, hi)
  IN  /\ sent' = Append(sent, <<Route(lo), lo, hi>>)
      /\ \/ \* the backend completes the cohort
            /\ refused = {}
            /\ done' = done \cup (lo .. hi)
            /\ left' = IF call.op = "readfiles" THEN left - SizeOf(lo .. hi)
                       ELSE left
            /\ Advance(hi, first)
         \/ \* it refuses an operand
            /\ refused # {}
            /\ \E ran \in SUBSET ((lo .. hi) \ refused) : done' = done \cup ran
            /\ \E stop \in refused \cup {Unnamed} :
                 LET index == IF stop = Unnamed THEN Unnamed
                              ELSE Indexed(lo, stop - lo + 1)
                 IN  IF Continues THEN Advance(hi, FirstError(index))
                     ELSE out' = Failed(index) /\ UNCHANGED <<at, first>>
            /\ UNCHANGED left
         \/ \* the connection is lost in the middle of it
            /\ Route(lo) # Posix
            /\ \E ran \in SUBSET ((lo .. hi) \ refused) : done' = done \cup ran
            /\ out' = Lost
            /\ UNCHANGED <<at, first, left>>

----------------------------------------------------------------------------
(* The operations: the checks made before anything is dispatched, then one   *)
(* cohort after the other.                                                   *)

CheckOwner(i) == Items[i].state # "foreign"
CheckOpen(i) == CheckOwner(i) /\ Items[i].state # "closed"
SameBackend(i) == Items[i].src = Items[i].dst

Begin(Check(_)) ==
  LET refused == {i \in DOMAIN Items : ~Check(i)}
  IN  /\ at = 0
      /\ IF refused # {} THEN out' = Refused(Min(refused)) /\ UNCHANGED at
         ELSE at' = 1 /\ UNCHANGED out
      /\ UNCHANGED <<done, sent, first, left>>

Operation(op, Check(_)) ==
  /\ call.op = op /\ out = Running
  /\ \/ Begin(Check)
     \/ at > 0 /\ Cohort(at, CohortEnd(at))
  /\ UNCHANGED call

Vfsync == Operation("fsync", CheckOpen)
Vstatfs == Operation("statfs", CheckOpen)
Vgetattrs == Operation("getattrs", CheckOpen)
Vsetattrs ==
  Operation("setattrs", LAMBDA i : CheckOpen(i) /\ Items[i].state # "invalid")
VremoveDirContents == Operation("cleardirs", CheckOpen)
VopenDirs == Operation("opendirs", LAMBDA i : TRUE)
Vopen == Operation("open", LAMBDA i : Items[i].state # "invalid")
Vmkdir == Operation("mkdir", LAMBDA i : Items[i].state # "invalid")  \* repeated
Vremove == Operation("remove", LAMBDA i : TRUE)
ReadFiles == Operation("readfiles", LAMBDA i : TRUE)
Vhardlink == Operation("hardlink", SameBackend)
Vcopy == Operation("copy", SameBackend)

\* Owned and caller-provided buffers: the total is checked up front.
Vread == Operation("read",
           LAMBDA i : CheckOwner(i) /\ SizeOf(1 .. i) <= call.budget)
VreadInto == Operation("readinto",
               LAMBDA i : CheckOwner(i) /\ SizeOf(1 .. i) <= call.budget)

WriteVector ==
  \/ Operation("write", CheckOwner)
  \/ Operation("writeall",
               LAMBDA i : CheckOpen(i) /\ Items[i].state # "invalid")

\* A handle that is already closed is passed over.
Vclose ==
  \/ Items[Max({at, 1})].state # "closed" /\ Operation("close", CheckOwner)
  \/ /\ call.op = "close" /\ out = Running
     /\ Items[Max({at, 1})].state = "closed"
     /\ \/ Begin(CheckOwner)
        \/ at > 0 /\ Advance(at, first) /\ UNCHANGED <<done, sent, left>>
     /\ UNCHANGED call

\* A replacing rename is checked pair by pair as it goes; the atomic modes are
\* left to the kernel, for pairs that lie on kernel routes.
Vrename ==
  \/ /\ call.op = "rename" /\ out = Running
     /\ \/ Begin(LAMBDA i : TRUE)
        \/ at > 0 /\ SameBackend(at) /\ Cohort(at, CohortEnd(at))
        \/ /\ at > 0 /\ ~SameBackend(at) /\ out' = Failed(at)
           /\ UNCHANGED <<at, done, sent, first, left>>
     /\ UNCHANGED call
  \/ Operation("renameatomic",
               LAMBDA i : Items[i].src = Posix /\ Items[i].dst = Posix)

Next == \/ Vfsync \/ Vstatfs \/ Vgetattrs \/ Vsetattrs \/ VremoveDirContents
        \/ VopenDirs \/ Vopen \/ Vmkdir \/ Vremove \/ ReadFiles \/ Vhardlink
        \/ Vcopy \/ Vread \/ VreadInto \/ WriteVector \/ Vclose \/ Vrename
Spec == Init /\ [][Next]_vars
----------------------------------------------------------------------------
(* Properties *)

Skipped == IF call.op = "close"
             THEN {i \in DOMAIN Items : Items[i].state = "closed"} ELSE {}

\* Cohorts keep their order ("Preserve request order", dispatch.rs:842;
\* "Already completed cohorts are closed", 1170): when a strict operation has
\* executed an operand, every earlier operand of another cohort was executed,
\* and when it fails at operand i, i was not and the earlier cohorts were.
\* Within the refused cohort nothing is promised: "an error index identifies an
\* operand; it does not prove a completed prefix" (docs/RUST_API.md:583).
CohortsInOrder ==
  ~Continues =>
    /\ \A j \in done : \A i \in 1 .. j - 1 :
         i \in done \cup Skipped \/ CohortEnd(i) >= j
    /\ out.status = "ok" => done = DOMAIN Items \ Skipped
    /\ (out.status = "failed" /\ out.index # Unnamed) =>
         /\ out.index \notin done
         /\ \A i \in 1 .. out.index - 1 :
              i \in done \cup Skipped \/ CohortEnd(i) >= out.index

\* "reject all locally detectable invalid requests before any cohort writes":
\* when an operand is a foreign handle, a closed one (for the operations that
\* say so), malformed, or half of a pair that crosses backends, no backend is
\* called at all.  A replacing rename may find a crossing pair only later.
Rejectable(i) ==
  \/ Items[i].state = "foreign"
  \/ Items[i].state = "invalid" /\ call.op \notin {"remove", "opendirs"}
  \/ /\ Items[i].state = "closed"
     /\ call.op \in {"fsync", "statfs", "getattrs", "setattrs", "cleardirs",
                    "writeall"}
  \/ call.op \in Pairs \ {"rename"} /\ ~SameBackend(i)
RejectedUntouched ==
  (\E i \in DOMAIN Items : Rejectable(i)) => sent = <<>> /\ done = {}

\* A backend only ever receives operands, both paths of a pair included, that
\* were resolved to it; nothing is sent to a mount's server under another
\* backend's path, and no server is asked to remove a tree that holds mounts.
RoutedToOwner ==
  \A k \in DOMAIN sent : \A i \in sent[k][2] .. sent[k][3] :
    /\ IF call.op = "remove" /\ Items[i].nested THEN sent[k][1] = Posix
       ELSE sent[k][1] = Items[i].src
    /\ call.op \in Pairs => Items[i].dst = sent[k][1]

\* A removal that continues on errors hands every operand to its backend,
\* completes the cohorts in which nothing is refused, and reports a refusal of
\* the first cohort that had one, unless a connection is lost.
ContinuesAcrossRoutes ==
  (Continues /\ out.status \in {"ok", "failed"}) =>
    LET bad == Bad(1, Len(Items))
    IN  /\ \A i \in DOMAIN Items : \E k \in DOMAIN sent : i \in sent[k][2] .. sent[k][3]
        /\ \A k \in DOMAIN sent : Bad(sent[k][2], sent[k][3]) = {}
                                  => sent[k][2] .. sent[k][3] \subseteq done
        /\ out.status = "ok" <=> bad = {}
        /\ (bad # {} /\ out.index # Unnamed) =>
             out.index \in bad \cap (1 .. CohortEnd(Min(bad)))

\* The byte limit of a whole-file read covers all cohorts together: it is
\* refused at an operand with which the sum over every backend exceeds it.
TotalBytesBounded ==
  call.op = "readfiles" =>
    /\ SizeOf(done) <= call.budget
    /\ (out.status = "failed" /\ out.index # Unnamed) =>
         Unacceptable(out.index) \/ SizeOf(1 .. out.index) > call.budget

-----------------------------------------------------------------------------
(***************************************************************************)
(* Auto (crates/vnfs/src/auto): which direct NFS connection a path uses.   *)
(* Threads share one client.  Each call reads the mount table once and     *)
(* resolves its operands, here a source and a target; every one of them    *)
(* goes through `connection', which takes the cache lock three times and   *)
(* connects without it.  A connection belongs to a mount, an endpoint and  *)
(* the caller's AUTH_SYS identity; mounts of one endpoint are aliases that *)
(* share a client, and two routes are on the same backend when their       *)
(* identities are equal.                                                   *)
(***************************************************************************)

CONSTANTS
  Threads,
  Creds,         \* AUTH_SYS identities; NoCred: fsuid/fsgid not reproducible
  Mounts,        \* mount ids
  Tables,        \* the mount tables the host may have: mount id -> endpoint
  MaxCalls,      \* bound: calls of all threads
  MaxClients,    \* bound: NFS clients ever connected
  MaxCreds,      \* bound: credential changes
  MaxMounts      \* bound: changes of the mount table

NoCred == "nocred"
NoRoute == [mount |-> "posix", endpoint |-> "posix", cred |-> NoCred, id |-> 0]

VARIABLES
  table,     \* the kernel's mount table
  cred,      \* each thread's current identity
  cache,     \* connections: mount id -> connection (NoRoute: none)
  pc,        \* idle, lookup, alias, connect, publish
  snapshot,  \* the mount table a call works with
  wants,     \* operands (mount ids) still to resolve
  routes,    \* routes of the operands resolved so far
  asked,     \* credentials read at the start of `connection'
  conn,      \* connection being built
  calls, clients, credChanges, mountChanges

cacheLocal == <<pc, snapshot, wants, routes, asked, conn>>
bounds == <<calls, clients, credChanges, mountChanges>>
cacheVars == <<table, cred, cache, cacheLocal, bounds>>

CacheInit ==
  /\ table \in Tables
  /\ cred \in [Threads -> Creds]
  /\ cache = [m \in Mounts |-> NoRoute]
  /\ pc = [t \in Threads |-> "idle"]
  /\ snapshot = [t \in Threads |-> table]
  /\ wants = [t \in Threads |-> <<>>]
  /\ routes = [t \in Threads |-> <<>>]
  /\ asked = [t \in Threads |-> NoCred]
  /\ conn = [t \in Threads |-> NoRoute]
  /\ calls = 0 /\ clients = 0 /\ credChanges = 0 /\ mountChanges = 0

----------------------------------------------------------------------------
(* A call: read_mounts, then resolve each operand *)

Call(t, a, b) ==
  /\ pc[t] = "idle" /\ calls < MaxCalls /\ calls' = calls + 1
  /\ snapshot' = [snapshot EXCEPT ![t] = table]
  /\ wants' = [wants EXCEPT ![t] = <<a, b>>]
  /\ routes' = [routes EXCEPT ![t] = <<>>]
  /\ pc' = [pc EXCEPT ![t] = "lookup"]
  /\ UNCHANGED <<table, cred, cache, asked, conn, clients, credChanges,
                 mountChanges>>

Mount(t) == Head(wants[t])
Endpoint(t) == snapshot[t][Mount(t)]

\* `connection' returned: take the route, go on with the next operand.
Resolved(t, route) ==
  /\ routes' = [routes EXCEPT ![t] = Append(@, route)]
  /\ wants' = [wants EXCEPT ![t] = Tail(@)]
  /\ pc' = [pc EXCEPT ![t] = IF Len(wants[t]) = 1 THEN "idle" ELSE "lookup"]
  /\ conn' = [conn EXCEPT ![t] = NoRoute]
  /\ UNCHANGED snapshot

Usable(t, c) ==
  c # NoRoute /\ c.endpoint = Endpoint(t) /\ c.cred = asked'[t]

Lookup(t) ==
  /\ pc[t] = "lookup"
  /\ asked' = [asked EXCEPT ![t] = cred[t]]
  /\ IF cred[t] = NoCred \/ Usable(t, cache[Mount(t)])
       THEN Resolved(t, IF cred[t] = NoCred THEN NoRoute ELSE cache[Mount(t)])
       ELSE pc' = [pc EXCEPT ![t] = "alias"]
            /\ UNCHANGED <<routes, wants, snapshot, conn>>
  /\ UNCHANGED <<table, cred, cache, bounds>>

\* Connections of other mounts of the same endpoint and credentials.
Aliases(t) ==
  {cache[m] : m \in {x \in Mounts :
     cache[x].endpoint = Endpoint(t) /\ cache[x].cred = asked[t]}}

FindAlias(t) ==
  /\ pc[t] = "alias"
  /\ pc' = [pc EXCEPT ![t] = "connect"]
  /\ \/ Aliases(t) = {} /\ conn' = [conn EXCEPT ![t] = NoRoute]
     \/ \E a \in Aliases(t) : conn' = [conn EXCEPT ![t] = a]
  /\ UNCHANGED <<table, cred, cache, snapshot, wants, routes, asked, bounds>>

\* Connect (or clone the alias), compare the root with the mounted one and the
\* credentials with those at the start.  Any failure is a fallback to the
\* kernel path, before the operation is dispatched.
Connected(t, id) ==
  [mount |-> Mount(t), endpoint |-> Endpoint(t), cred |-> asked[t], id |-> id]

Connect(t) ==
  /\ pc[t] = "connect"
  /\ \/ /\ IF conn[t] = NoRoute
             THEN clients < MaxClients /\ clients' = clients + 1
             ELSE UNCHANGED clients
        /\ table[Mount(t)] = Endpoint(t) /\ cred[t] = asked[t]
        /\ conn' = [conn EXCEPT ![t] =
             Connected(t, IF @ = NoRoute THEN clients' ELSE @.id)]
        /\ pc' = [pc EXCEPT ![t] = "publish"]
        /\ UNCHANGED <<routes, wants, snapshot>>
     \/ /\ Resolved(t, NoRoute)
        /\ UNCHANGED clients
  /\ UNCHANGED <<table, cred, cache, asked, calls, credChanges, mountChanges>>

\* Mutant: a new connection never looks for an alias published meanwhile.
UnifiedNever(t) == conn[t]

\* Under the lock: another thread may have published this mount, or an alias
\* of it, in the meantime.
Unified(t) ==
  IF Aliases(t) # {}
    THEN [conn[t] EXCEPT !.id = (CHOOSE a \in Aliases(t) : TRUE).id]
    ELSE conn[t]

Publish(t) ==
  /\ pc[t] = "publish"
  /\ LET cached == cache[Mount(t)]
         hit == cached.endpoint = Endpoint(t) /\ cached.cred = asked[t]
         route == IF hit THEN cached ELSE Unified(t)
     IN  /\ cache' = [cache EXCEPT ![Mount(t)] = route]
         /\ Resolved(t, route)
  /\ UNCHANGED <<table, cred, asked, bounds>>
----------------------------------------------------------------------------
(* The host *)

ChangeCred(t) ==
  /\ credChanges < MaxCreds /\ credChanges' = credChanges + 1
  /\ \E c \in (Creds \cup {NoCred}) \ {cred[t]} : cred' = [cred EXCEPT ![t] = c]
  /\ UNCHANGED <<table, cache, cacheLocal, calls, clients, mountChanges>>

Remount ==
  /\ mountChanges < MaxMounts /\ mountChanges' = mountChanges + 1
  /\ \E x \in Tables \ {table} : table' = x
  /\ UNCHANGED <<cred, cache, cacheLocal, calls, clients, credChanges>>

Step(t) == Lookup(t) \/ FindAlias(t) \/ Connect(t) \/ Publish(t)
CacheNext ==
  \/ \E t \in Threads : Step(t) \/ ChangeCred(t)
  \/ \E t \in Threads, a, b \in Mounts : Call(t, a, b)
  \/ Remount
CacheSpec == CacheInit /\ [][CacheNext]_cacheVars
----------------------------------------------------------------------------
(* Properties *)

\* routing.rs: "Resolve simultaneous discoveries of different aliases to one
\* client before publishing either route to callers."  All cached connections
\* of one endpoint and one identity share a client.
AliasesShareClient ==
  \A m, n \in Mounts :
    (/\ cache[m] # NoRoute /\ cache[n] # NoRoute
     /\ cache[m].endpoint = cache[n].endpoint
     /\ cache[m].cred = cache[n].cred) => cache[m].id = cache[n].id

=============================================================================
