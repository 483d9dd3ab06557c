---------------------------- MODULE RoutingProofs ----------------------------
(***************************************************************************)
(* The connection cache of Auto: for any number of threads, mounts,        *)
(* endpoints and identities, changes of credentials and of the mount table *)
(* at any time included, cached connections of one endpoint and one        *)
(* identity share a client.  A thread connects without the lock, so what   *)
(* it read before (its snapshot, its credentials, the absence of an alias) *)
(* may be stale when it publishes; the invariant says what still holds.    *)
(***************************************************************************)
EXTENDS Routing, SequenceTheorems, TLAPS

\* A connection of endpoint e and identity c.
IsRoute(r, e, c) == r = [mount |-> r.mount, endpoint |-> e, cred |-> c, id |-> r.id]

CacheType ==
  /\ table \in Tables
  /\ pc \in [Threads -> {"idle", "lookup", "alias", "connect", "publish"}]
  /\ snapshot \in [Threads -> Tables]
  /\ wants \in [Threads -> Seq(Mounts)]
  /\ asked = [t \in Threads |-> asked[t]]
  /\ conn = [t \in Threads |-> conn[t]]
  /\ cache = [m \in Mounts |-> cache[m]]

\* A cached connection belongs to its mount and to a reproducible identity.
CacheKeyed ==
  \A m \in Mounts : cache[m] = NoRoute \/
    (IsRoute(cache[m], cache[m].endpoint, cache[m].cred) /\ cache[m].mount = m /\ cache[m].cred # NoCred)

\* What a thread inside `connection' holds.
Holds(t) ==
  /\ pc[t] # "idle" => wants[t] # <<>>
  /\ pc[t] \in {"alias", "connect", "publish"} => asked[t] # NoCred
  /\ pc[t] = "publish" => IsRoute(conn[t], Endpoint(t), asked[t]) /\ conn[t].mount = Mount(t)

CacheInv ==
  /\ CacheType /\ CacheKeyed /\ AliasesShareClient
  /\ \A t \in Threads : Holds(t)

-----------------------------------------------------------------------------
LEMMA RouteTypes ==
  ASSUME NEW r, NEW e, NEW c, IsRoute(r, e, c)
  PROVE  r.endpoint = e /\ r.cred = c
BY DEF IsRoute

\* The initial state.
LEMMA CacheInitInv == CacheInit => CacheInv
<1> SUFFICES ASSUME CacheInit PROVE CacheInv
  OBVIOUS
<1>1. CacheType
  <2>1. wants \in [Threads -> Seq(Mounts)] /\ snapshot \in [Threads -> Tables] /\ table \in Tables
    BY DEF CacheInit
  <2>2. pc \in [Threads -> {"idle", "lookup", "alias", "connect", "publish"}]
    BY DEF CacheInit
  <2> QED
    BY <2>1, <2>2 DEF CacheInit, CacheType
<1>2. CacheKeyed /\ AliasesShareClient
  BY DEF CacheInit, CacheKeyed, AliasesShareClient
<1>3. \A t \in Threads : Holds(t)
  BY DEF CacheInit, Holds
<1> QED
  BY <1>1, <1>2, <1>3 DEF CacheInv

\* What thread u holds is its own: a step that leaves u's variables alone
\* leaves it alone.
LEMMA HoldsKept ==
  ASSUME NEW u \in Threads, Holds(u), pc'[u] = pc[u], wants'[u] = wants[u],
         snapshot'[u] = snapshot[u], asked'[u] = asked[u], conn'[u] = conn[u]
  PROVE  Holds(u)'
BY DEF Holds, Endpoint, Mount

\* The cache is changed by Publish only.
LEMMA CacheKept ==
  ASSUME CacheKeyed, AliasesShareClient, cache' = cache
  PROVE  CacheKeyed' /\ AliasesShareClient'
BY DEF CacheKeyed, AliasesShareClient

\* The end of `connection': the thread has no connection in hand and goes on
\* with its next operand.
LEMMA ResolvedHolds ==
  ASSUME CacheType, NEW t \in Threads, Holds(t), pc[t] # "idle", NEW r, Resolved(t, r)
  PROVE  /\ wants' \in [Threads -> Seq(Mounts)] /\ snapshot' \in [Threads -> Tables]
         /\ pc' \in [Threads -> {"idle", "lookup", "alias", "connect", "publish"}]
         /\ conn' = [u \in Threads |-> conn'[u]]
         /\ Holds(t)'
         /\ \A u \in Threads \ {t} : pc'[u] = pc[u] /\ wants'[u] = wants[u] /\ conn'[u] = conn[u]
<1>1. wants[t] \in Seq(Mounts) /\ wants[t] # <<>>
  BY DEF CacheType, Holds
<1>2. Tail(wants[t]) \in Seq(Mounts) /\ (Len(wants[t]) # 1 => Tail(wants[t]) # <<>>)
  <2>1. Tail(wants[t]) \in Seq(Mounts) /\ Len(wants[t]) \in Nat /\ Len(wants[t]) # 0
    BY <1>1, EmptySeq
  <2>2. Len(Tail(wants[t])) = Len(wants[t]) - 1
    BY <1>1, <2>1
  <2>3. Tail(wants[t]) = <<>> => Len(Tail(wants[t])) = 0
    BY <2>1, EmptySeq, Zenon
  <2> QED
    BY <2>1, <2>2, <2>3
<1>3. wants' \in [Threads -> Seq(Mounts)] /\ wants'[t] = Tail(wants[t])
  BY <1>2 DEF CacheType, Resolved
<1>4. /\ pc' \in [Threads -> {"idle", "lookup", "alias", "connect", "publish"}]
      /\ pc'[t] = IF Len(wants[t]) = 1 THEN "idle" ELSE "lookup"
  BY DEF CacheType, Resolved
<1>5. Holds(t)'
  BY <1>2, <1>3, <1>4 DEF Holds
<1> QED
  BY <1>3, <1>4, <1>5, Zenon DEF CacheType, Resolved

LEMMA CallInv ==
  ASSUME CacheInv, NEW t \in Threads, NEW a \in Mounts, NEW b \in Mounts, Call(t, a, b)
  PROVE  CacheInv'
<1>1. <<a, b>> \in Seq(Mounts) /\ <<a, b>> # <<>>
  OBVIOUS
<1>2. CacheType'
  BY <1>1 DEF CacheInv, CacheType, Call
<1>3. CacheKeyed' /\ AliasesShareClient'
  BY CacheKept DEF CacheInv, Call
<1>4. \A u \in Threads : Holds(u)'
  <2> TAKE u \in Threads
  <2>1. CASE u = t
    BY <1>1, <2>1 DEF CacheInv, CacheType, Call, Holds
  <2>2. CASE u # t
    <3>1. Holds(u) /\ pc'[u] = pc[u] /\ wants'[u] = wants[u] /\ snapshot'[u] = snapshot[u]
      BY <2>2 DEF CacheInv, CacheType, Call
    <3> QED
      BY <3>1, HoldsKept DEF Call
  <2> QED
    BY <2>1, <2>2
<1> QED
  BY <1>2, <1>3, <1>4 DEF CacheInv

LEMMA LookupInv ==
  ASSUME CacheInv, NEW t \in Threads, Lookup(t)
  PROVE  CacheInv'
<1>0. CacheType /\ Holds(t) /\ pc[t] = "lookup" /\ cache' = cache /\ table' = table
  BY DEF CacheInv, Lookup
<1>1. asked' = [u \in Threads |-> asked'[u]] /\ asked'[t] = cred[t]
      /\ \A u \in Threads \ {t} : asked'[u] = asked[u]
  BY <1>0, Zenon DEF Lookup, CacheType
<1>2. CacheKeyed' /\ AliasesShareClient'
  BY <1>0, CacheKept DEF CacheInv
<1>3. CASE cred[t] = NoCred \/ Usable(t, cache[Mount(t)])
  <2> DEFINE r == IF cred[t] = NoCred THEN NoRoute ELSE cache[Mount(t)]
  <2>1. Resolved(t, r)
    BY <1>3 DEF Lookup
  <2> HIDE DEF r
  <2>2. /\ wants' \in [Threads -> Seq(Mounts)] /\ snapshot' \in [Threads -> Tables]
        /\ pc' \in [Threads -> {"idle", "lookup", "alias", "connect", "publish"}]
        /\ conn' = [u \in Threads |-> conn'[u]]
        /\ Holds(t)'
        /\ \A u \in Threads \ {t} : pc'[u] = pc[u] /\ wants'[u] = wants[u] /\ conn'[u] = conn[u]
    BY <1>0, <2>1, ResolvedHolds
  <2>3. CacheType'
    BY <1>0, <1>1, <2>2 DEF CacheType
  <2>4. \A u \in Threads \ {t} : Holds(u)'
    BY <1>1, <2>1, <2>2, HoldsKept DEF CacheInv, Resolved
  <2> QED
    BY <1>2, <2>2, <2>3, <2>4 DEF CacheInv
<1>4. CASE ~(cred[t] = NoCred \/ Usable(t, cache[Mount(t)]))
  <2>1. /\ pc' = [pc EXCEPT ![t] = "alias"] /\ wants' = wants /\ snapshot' = snapshot /\ conn' = conn
        /\ cred[t] # NoCred
    BY <1>4 DEF Lookup
  <2>2. CacheType'
    BY <1>0, <1>1, <2>1 DEF CacheType
  <2>3. Holds(t)'
    BY <1>0, <1>1, <2>1 DEF CacheType, Holds
  <2>4. \A u \in Threads \ {t} : Holds(u)'
    <3> TAKE u \in Threads \ {t}
    <3>1. u \in Threads /\ Holds(u) /\ pc'[u] = pc[u] /\ asked'[u] = asked[u]
      BY <1>0, <1>1, <2>1 DEF CacheInv, CacheType
    <3> QED
      BY <2>1, <3>1, HoldsKept
  <2> QED
    BY <1>2, <2>2, <2>3, <2>4 DEF CacheInv
<1> QED
  BY <1>3, <1>4

LEMMA FindAliasInv ==
  ASSUME CacheInv, NEW t \in Threads, FindAlias(t)
  PROVE  CacheInv'
<1>1. PICK r : /\ CacheType /\ pc[t] = "alias" /\ pc' = [pc EXCEPT ![t] = "connect"]
               /\ conn' = [conn EXCEPT ![t] = r]
               /\ UNCHANGED <<table, cache, snapshot, wants, asked>>
  BY DEF FindAlias, CacheInv
<1>2. CacheType'
  BY <1>1, Zenon DEF CacheType
<1>3. CacheKeyed' /\ AliasesShareClient'
  BY <1>1, CacheKept DEF CacheInv
<1>4. \A u \in Threads : Holds(u)'
  <2> TAKE u \in Threads
  <2>1. CASE u = t
    BY <1>1, <2>1 DEF CacheInv, CacheType, Holds
  <2>2. CASE u # t
    <3>1. Holds(u) /\ pc'[u] = pc[u] /\ conn'[u] = conn[u]
      BY <1>1, <2>2 DEF CacheInv, CacheType
    <3> QED
      BY <1>1, <3>1, HoldsKept
  <2> QED
    BY <2>1, <2>2
<1> QED
  BY <1>2, <1>3, <1>4 DEF CacheInv

LEMMA ConnectInv ==
  ASSUME CacheInv, NEW t \in Threads, Connect(t)
  PROVE  CacheInv'
<1>0. CacheType /\ Holds(t) /\ pc[t] = "connect" /\ UNCHANGED <<table, cache, asked>>
  BY DEF CacheInv, Connect
<1>1. CacheKeyed' /\ AliasesShareClient'
  BY <1>0, CacheKept DEF CacheInv
<1>2. ASSUME NEW k, conn' = [conn EXCEPT ![t] = Connected(t, k)],
             pc' = [pc EXCEPT ![t] = "publish"], UNCHANGED <<wants, snapshot>>
      PROVE  CacheInv'
  <2>1. CacheType'
    BY <1>0, <1>2, Zenon DEF CacheType
  <2>2. Holds(t)'
    <3>1. conn'[t] = Connected(t, k) /\ pc'[t] = "publish" /\ asked'[t] = asked[t] /\ asked[t] # NoCred
      BY <1>0, <1>2 DEF CacheType, Holds
    <3>2. Endpoint(t)' = Endpoint(t) /\ Mount(t)' = Mount(t) /\ wants'[t] # <<>>
      BY <1>0, <1>2 DEF Endpoint, Mount, Holds
    <3>3. IsRoute(conn'[t], Endpoint(t), asked[t]) /\ conn'[t].mount = Mount(t)
      BY <3>1 DEF Connected, IsRoute
    <3> QED
      BY <3>1, <3>2, <3>3 DEF Holds
  <2>3. \A u \in Threads \ {t} : Holds(u)'
    <3> TAKE u \in Threads \ {t}
    <3>1. u \in Threads /\ Holds(u) /\ pc'[u] = pc[u] /\ conn'[u] = conn[u]
      BY <1>0, <1>2 DEF CacheInv, CacheType
    <3> QED
      BY <1>0, <1>2, <3>1, HoldsKept
  <2> QED
    BY <1>1, <2>1, <2>2, <2>3 DEF CacheInv
<1>3. CASE Resolved(t, NoRoute)
  <2>1. /\ wants' \in [Threads -> Seq(Mounts)] /\ snapshot' \in [Threads -> Tables]
        /\ pc' \in [Threads -> {"idle", "lookup", "alias", "connect", "publish"}]
        /\ conn' = [u \in Threads |-> conn'[u]]
        /\ Holds(t)'
        /\ \A u \in Threads \ {t} : pc'[u] = pc[u] /\ wants'[u] = wants[u] /\ conn'[u] = conn[u]
    BY <1>0, <1>3, ResolvedHolds
  <2>2. CacheType'
    BY <1>0, <2>1 DEF CacheType
  <2>3. \A u \in Threads \ {t} : Holds(u)'
    BY <1>0, <1>3, <2>1, HoldsKept DEF CacheInv, Resolved
  <2> QED
    BY <1>1, <2>1, <2>2, <2>3 DEF CacheInv
<1> QED
  <2>1. CASE \E k : /\ conn' = [conn EXCEPT ![t] = Connected(t, k)]
                    /\ pc' = [pc EXCEPT ![t] = "publish"] /\ UNCHANGED <<wants, snapshot>>
    BY <1>2, <2>1, Zenon
  <2> QED
    BY <1>3, <2>1 DEF Connect

\* The route that Publish caches: it belongs to the thread's mount, endpoint and
\* identity, and shares the client of every other connection of these.
LEMMA PublishedRoute ==
  ASSUME CacheInv, NEW t \in Threads, pc[t] = "publish", NEW r,
         r = IF cache[Mount(t)].endpoint = Endpoint(t) /\ cache[Mount(t)].cred = asked[t]
               THEN cache[Mount(t)] ELSE Unified(t)
  PROVE  /\ Mount(t) \in Mounts /\ IsRoute(r, Endpoint(t), asked[t]) /\ r.mount = Mount(t)
         /\ asked[t] # NoCred
         /\ \A m \in Mounts : (cache[m].endpoint = Endpoint(t) /\ cache[m].cred = asked[t]) => cache[m].id = r.id
<1>1. /\ wants[t] \in Seq(Mounts) /\ wants[t] # <<>> /\ asked[t] # NoCred
      /\ IsRoute(conn[t], Endpoint(t), asked[t]) /\ conn[t].mount = Mount(t)
  BY DEF CacheInv, CacheType, Holds
<1>2. Mount(t) \in Mounts
  BY <1>1 DEF Mount
<1>3. \A m \in Mounts : cache[m].cred = asked[t] =>
        cache[m] # NoRoute /\ IsRoute(cache[m], cache[m].endpoint, cache[m].cred) /\ cache[m].mount = m
  BY <1>1 DEF CacheInv, CacheKeyed, NoRoute
<1>4. CASE cache[Mount(t)].endpoint = Endpoint(t) /\ cache[Mount(t)].cred = asked[t]
  <2>1. r = cache[Mount(t)]
    BY <1>4
  <2>2. \A m \in Mounts : (cache[m].endpoint = Endpoint(t) /\ cache[m].cred = asked[t]) => cache[m].id = r.id
    BY <1>2, <1>3, <1>4, <2>1 DEF CacheInv, AliasesShareClient
  <2> QED
    BY <1>1, <1>2, <1>3, <1>4, <2>1, <2>2
<1>5. CASE ~(cache[Mount(t)].endpoint = Endpoint(t) /\ cache[Mount(t)].cred = asked[t])
  <2>1. r = Unified(t)
    BY <1>5
  <2>2. CASE Aliases(t) = {}
    <3>1. r = conn[t]
      BY <2>1, <2>2 DEF Unified
    <3>2. \A m \in Mounts : ~(cache[m].endpoint = Endpoint(t) /\ cache[m].cred = asked[t])
      BY <2>2 DEF Aliases
    <3> QED
      BY <1>1, <1>2, <3>1, <3>2
  <2>3. CASE Aliases(t) # {}
    <3>1. PICK a \in Aliases(t) : r = [conn[t] EXCEPT !.id = a.id]
      BY <2>1, <2>3, Zenon DEF Unified
    <3>2. PICK x \in Mounts : a = cache[x] /\ cache[x].endpoint = Endpoint(t) /\ cache[x].cred = asked[t]
      BY DEF Aliases
    <3>3. IsRoute(r, Endpoint(t), asked[t]) /\ r.mount = Mount(t) /\ r.id = a.id
      BY <1>1, <3>1 DEF IsRoute
    <3>4. \A m \in Mounts : (cache[m].endpoint = Endpoint(t) /\ cache[m].cred = asked[t]) => cache[m].id = a.id
      BY <1>3, <3>2 DEF CacheInv, AliasesShareClient
    <3> QED
      BY <1>1, <1>2, <3>3, <3>4
  <2> QED
    BY <2>2, <2>3
<1> QED
  BY <1>4, <1>5

LEMMA PublishInv ==
  ASSUME CacheInv, NEW t \in Threads, Publish(t)
  PROVE  CacheInv'
<1> DEFINE r == IF cache[Mount(t)].endpoint = Endpoint(t) /\ cache[Mount(t)].cred = asked[t]
                  THEN cache[Mount(t)] ELSE Unified(t)
<1>0. /\ CacheType /\ Holds(t) /\ pc[t] = "publish" /\ table' = table /\ asked' = asked
      /\ cache' = [cache EXCEPT ![Mount(t)] = r] /\ Resolved(t, r)
  BY DEF CacheInv, Publish
<1>1. /\ Mount(t) \in Mounts /\ IsRoute(r, Endpoint(t), asked[t]) /\ r.mount = Mount(t)
      /\ asked[t] # NoCred
      /\ \A m \in Mounts : (cache[m].endpoint = Endpoint(t) /\ cache[m].cred = asked[t]) => cache[m].id = r.id
  BY <1>0, PublishedRoute
<1> HIDE DEF r
<1>2. /\ cache' = [m \in Mounts |-> cache'[m]] /\ cache'[Mount(t)] = r
      /\ \A m \in Mounts \ {Mount(t)} : cache'[m] = cache[m]
  BY <1>0, <1>1, Zenon DEF CacheType
<1>3. r.endpoint = Endpoint(t) /\ r.cred = asked[t]
  BY <1>1, RouteTypes
<1>4. CacheKeyed'
  BY <1>1, <1>2, <1>3 DEF CacheInv, CacheKeyed
<1>5. AliasesShareClient'
  BY <1>1, <1>2, <1>3 DEF CacheInv, AliasesShareClient
<1>6. /\ wants' \in [Threads -> Seq(Mounts)] /\ snapshot' \in [Threads -> Tables]
      /\ pc' \in [Threads -> {"idle", "lookup", "alias", "connect", "publish"}]
      /\ conn' = [u \in Threads |-> conn'[u]]
      /\ Holds(t)'
      /\ \A u \in Threads \ {t} : pc'[u] = pc[u] /\ wants'[u] = wants[u] /\ conn'[u] = conn[u]
  BY <1>0, ResolvedHolds
<1>7. CacheType'
  BY <1>0, <1>2, <1>6 DEF CacheType
<1>8. \A u \in Threads \ {t} : Holds(u)'
  BY <1>0, <1>6, HoldsKept DEF CacheInv, Resolved
<1> QED
  BY <1>4, <1>5, <1>6, <1>7, <1>8 DEF CacheInv

\* The host changes nothing that a thread has read.
LEMMA HostInv ==
  ASSUME CacheInv, table' \in Tables, UNCHANGED <<cache, cacheLocal>>
  PROVE  CacheInv'
<1>1. UNCHANGED <<cache, pc, snapshot, wants, asked, conn>>
  BY DEF cacheLocal
<1>2. CacheType'
  BY <1>1 DEF CacheInv, CacheType
<1>3. CacheKeyed' /\ AliasesShareClient'
  BY <1>1, CacheKept DEF CacheInv
<1>4. \A u \in Threads : Holds(u)'
  BY <1>1, HoldsKept DEF CacheInv
<1> QED
  BY <1>2, <1>3, <1>4 DEF CacheInv

LEMMA CacheStep == CacheInv /\ [CacheNext]_cacheVars => CacheInv'
<1> SUFFICES ASSUME CacheInv, [CacheNext]_cacheVars PROVE CacheInv'
  OBVIOUS
<1>0. table \in Tables
  BY DEF CacheInv, CacheType
<1>1. CASE UNCHANGED cacheVars
  BY <1>0, <1>1, HostInv DEF cacheVars
<1>2. CASE Remount
  BY <1>2, HostInv DEF Remount
<1>3. ASSUME NEW t \in Threads, ChangeCred(t) PROVE CacheInv'
  BY <1>0, <1>3, HostInv DEF ChangeCred
<1>4. ASSUME NEW t \in Threads, Step(t) PROVE CacheInv'
  BY <1>4, LookupInv, FindAliasInv, ConnectInv, PublishInv DEF Step
<1>5. ASSUME NEW t \in Threads, NEW a \in Mounts, NEW b \in Mounts, Call(t, a, b) PROVE CacheInv'
  BY <1>5, CallInv
<1> QED
  BY <1>1, <1>2, <1>3, <1>4, <1>5 DEF CacheNext

LEMMA CacheInvariance == CacheSpec => []CacheInv
BY CacheInitInv, CacheStep, PTL DEF CacheSpec

-----------------------------------------------------------------------------
\* routing.rs: "Resolve simultaneous discoveries of different aliases to one
\* client before publishing either route to callers": cached connections of one
\* endpoint and one identity always share a client.
THEOREM AliasesShare == CacheSpec => []AliasesShareClient
<1>1. CacheInv => AliasesShareClient
  BY DEF CacheInv
<1> QED
  BY <1>1, CacheInvariance, PTL

\* A route that `connection' hands to a call is the kernel path, or a connection
\* of the operand's mount, of the endpoint in the call's mount table, and of the
\* credentials read when `connection' began, whatever was cached before and
\* whatever other threads published meanwhile.
RouteMatches ==
  \A t \in Threads : Step(t) =>
    routes' = routes \/ \E r :
      /\ routes' = [routes EXCEPT ![t] = Append(@, r)]
      /\ r = NoRoute \/ (IsRoute(r, Endpoint(t), asked'[t]) /\ r.mount = Mount(t))

THEOREM RoutesMatch == CacheSpec => [][RouteMatches]_cacheVars
<1>1. ASSUME CacheInv, NEW t \in Threads, Step(t), routes' # routes
      PROVE  \E r : /\ routes' = [routes EXCEPT ![t] = Append(@, r)]
                    /\ r = NoRoute \/ (IsRoute(r, Endpoint(t), asked'[t]) /\ r.mount = Mount(t))
  <2>1. CASE Lookup(t)
    <3>1. CASE cred[t] = NoCred
      BY <2>1, <3>1, <1>1 DEF Lookup, Resolved
    <3>2. CASE cred[t] # NoCred
      <4>1. Usable(t, cache[Mount(t)]) /\ Resolved(t, cache[Mount(t)]) /\ pc[t] = "lookup"
        BY <1>1, <2>1, <3>2 DEF Lookup
      <4>2. Mount(t) \in Mounts
        <5>1. wants[t] \in Seq(Mounts) /\ wants[t] # <<>>
          BY <1>1, <4>1 DEF CacheInv, CacheType, Holds
        <5> QED
          BY <5>1 DEF Mount
      <4>3. IsRoute(cache[Mount(t)], Endpoint(t), asked'[t]) /\ cache[Mount(t)].mount = Mount(t)
        BY <1>1, <4>1, <4>2 DEF CacheInv, CacheKeyed, Usable
      <4> QED
        BY <4>1, <4>3, Zenon DEF Resolved
    <3> QED
      BY <3>1, <3>2
  <2>2. CASE FindAlias(t)
    BY <1>1, <2>2 DEF FindAlias
  <2>3. CASE Connect(t)
    BY <1>1, <2>3 DEF Connect, Resolved
  <2>4. CASE Publish(t)
    <3> DEFINE r == IF cache[Mount(t)].endpoint = Endpoint(t) /\ cache[Mount(t)].cred = asked[t]
                      THEN cache[Mount(t)] ELSE Unified(t)
    <3>1. pc[t] = "publish" /\ Resolved(t, r) /\ asked' = asked
      BY <2>4 DEF Publish
    <3>2. IsRoute(r, Endpoint(t), asked[t]) /\ r.mount = Mount(t)
      BY <1>1, <3>1, PublishedRoute
    <3> QED
      BY <3>1, <3>2, Zenon DEF Resolved
  <2> QED
    BY <1>1, <2>1, <2>2, <2>3, <2>4 DEF Step
<1>2. CacheInv /\ [CacheNext]_cacheVars => [RouteMatches]_cacheVars
  BY <1>1 DEF RouteMatches
<1> QED
  BY <1>2, CacheInvariance, PTL DEF CacheSpec
=============================================================================
