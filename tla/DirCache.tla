------------------------------ MODULE DirCache ------------------------------
(* The directory listing cache of the fsspec adapter (_fs.py): threads of    *)
(* one filesystem list directories and walk subtrees, filling the cache, and *)
(* change the namespace or a file, evicting what the change makes stale.     *)
(* A listing fetched under one epoch is stored only while that epoch lasts;  *)
(* a mutation starts a new epoch before and after its native call and clears *)
(* the cache when a listing was stored in between.                           *)
(* Paths are sequences of names; objects carry a version that stands for     *)
(* their attributes, so a listing also shows size, times and link count.     *)
EXTENDS Naturals, Sequences, FiniteSets, FiniteSetsExt

CONSTANTS Threads, Objects, Root,
          Cases,      \* [kids, links, ops, keys, top]: the namespaces and what is done
          MaxFills, MaxMutations, MaxReconnects, MaxFaults

VARIABLES case,
          kids,       \* [Objects -> set of [name, obj]], entries of a directory
          ver,        \* [Objects -> version of its attributes]
          cache,      \* set of [key, infos, gen]: the DirCache
          epoch, fills, cacheGen,   \* _dircache_epoch, _fill_generation, _generation
          gen,        \* the generation of the client pool
          job,        \* [Threads -> what the thread is doing]
          counts,     \* [fill, mutation, reconnect, fault]: work done so far
          windowed    \* history: keys stored while a mutation prepared itself

server == <<kids, ver>>
state == <<cache, epoch, fills, cacheGen, gen>>
vars == <<case, server, state, job, counts, windowed>>

Idle == [at |-> "idle"]
Parent(path) == IF path = <<>> THEN <<>> ELSE SubSeq(path, 1, Len(path) - 1)
Keys == case.keys

\* Symbolic links sit at the top; case.links gives the directory they name.
Followed(path) ==
  IF path # <<>> /\ path[1] \in DOMAIN case.links
  THEN <<case.links[path[1]]>> \o Tail(path) ELSE path

\* _canonical_namespace_paths: parents are resolved, the last name is kept.
Canonical(path) == IF Len(path) < 2 THEN path ELSE Followed(path)
CanonicalKey(key) == Parent(Canonical(Append(key, "entry")))

Entry(dir, name) == {e.obj : e \in {k \in kids[dir] : k.name = name}}
RECURSIVE Lookup(_, _)
Lookup(dirs, path) ==
  IF path = <<>> THEN dirs
  ELSE Lookup(UNION {Entry(d, Head(path)) : d \in dirs}, Tail(path))
ObjectAt(path) == Lookup({Root}, Followed(path))
IsDir(path) == \E o \in ObjectAt(path) : o \in case.top \union {Root}

\* What a native listing returns now.
Listing(key) == {[name |-> e.name, obj |-> e.obj, ver |-> ver[e.obj]] :
                   e \in UNION {kids[d] : d \in ObjectAt(key)}}

Init ==
  /\ case \in Cases
  /\ kids = case.kids
  /\ ver = [o \in Objects |-> 0]
  /\ cache = {}
  /\ epoch = 0 /\ fills = 0 /\ cacheGen = 0 /\ gen = 0
  /\ job = [t \in Threads |-> Idle]
  /\ counts = [fill |-> 0, mutation |-> 0, reconnect |-> 0, fault |-> 0]
  /\ windowed = {}
-----------------------------------------------------------------------------
\* _sync_dircache_generation: a reconnect of the pool empties the cache.
Synced(changes) ==
  IF gen = cacheGen THEN changes
  ELSE [changes EXCEPT !.cache = {}, !.epoch = epoch + 1, !.cacheGen = gen]
Now == [cache |-> cache, epoch |-> epoch, cacheGen |-> cacheGen]
Set(changes) == cache' = changes.cache /\ epoch' = changes.epoch /\ cacheGen' = changes.cacheGen

\* The keys one call fetches: a listing, or all of a subtree.
Fetches(key, how) ==
  IF how = "walk" THEN {k \in Keys : Len(k) >= Len(key) /\ SubSeq(k, 1, Len(key)) = key} ELSE {key}

\* ls, ls(refresh) and the bottom-up walk up to the native call: what is
\* wholly cached is returned, else the walk and the refresh evict what they
\* are about to fetch, and the epoch is noted.
List(t, key, how) ==
  /\ job[t] = Idle /\ counts.fill < MaxFills
  /\ counts' = [counts EXCEPT !.fill = @ + 1]
  /\ LET synced == Synced(Now)
         wanted == Fetches(key, how)
         hit == wanted \subseteq {c.key : c \in synced.cache}
         cleared == [synced EXCEPT !.cache = {c \in @ : c.key \notin wanted}, !.epoch = @ + 1]
     IN IF hit /\ how # "refresh"
        THEN Set(synced) /\ UNCHANGED job
        ELSE /\ Set(IF how = "ls" THEN synced ELSE cleared)
             /\ job' = [job EXCEPT ![t] = [at |-> "fetch", keys |-> wanted,
                                           epoch |-> epoch', got |-> {}]]
  /\ UNCHANGED <<case, server, fills, gen, windowed>>

\* The native listing or walk.  A name that is no directory caches nothing.
Fetch(t) ==
  /\ job[t].at = "fetch"
  /\ LET got == {[key |-> k, infos |-> Listing(k), gen |-> gen] : k \in {k \in job[t].keys : IsDir(k)}}
     IN job' = [job EXCEPT ![t] = IF got = {} THEN Idle
                                  ELSE [at |-> "sync", epoch |-> job[t].epoch, got |-> got]]
  /\ UNCHANGED <<case, server, state, counts, windowed>>

\* The head of _store_listing.
StoreSync(t) ==
  /\ job[t].at = "sync"
  /\ Set(Synced(Now))
  /\ job' = [job EXCEPT ![t].at = "store"]
  /\ UNCHANGED <<case, server, fills, gen, counts, windowed>>

Storable(t) == job[t].epoch = epoch

Preparing(t) == job[t].at \in {"canonical", "identities", "evict", "sample"}

\* The locked part of _store_listing; a walk stores its directories one by one.
Store(t) ==
  /\ job[t].at = "store"
  /\ \E g \in job[t].got :
       /\ IF Storable(t)
          THEN /\ cache' = {c \in cache : c.key # g.key} \union {g}
               /\ fills' = fills + 1
               /\ windowed' = IF \E u \in Threads : Preparing(u)
                              THEN windowed \union {g.key} ELSE windowed \ {g.key}
          ELSE UNCHANGED <<cache, fills, windowed>>
       /\ job' = [job EXCEPT ![t] = IF @.got = {g} THEN Idle
                                    ELSE [@ EXCEPT !.got = @ \ {g}, !.at = "sync"]]
  /\ UNCHANGED <<case, server, epoch, cacheGen, gen, counts>>
-----------------------------------------------------------------------------
\* _cache_mutation begins.  An operation is [kind, path, to]; all but a
\* write through a descriptor change the namespace.
Namespace(op) == op.kind # "write"
OpPaths(op) == CASE op.kind = "rename" -> {op.path, op.to}
                 [] op.kind = "link" -> {op.to}
                 [] OTHER -> {op.path}

Mutate(t, op) ==
  /\ job[t] = Idle /\ counts.mutation < MaxMutations
  /\ ObjectAt(op.path) # {} \/ op.kind = "create"
  /\ counts' = [counts EXCEPT !.mutation = @ + 1]
  /\ job' = [job EXCEPT ![t] =
       [at |-> IF Namespace(op) THEN "canonical" ELSE "identities", op |-> op,
        paths |-> OpPaths(op), target |-> ObjectAt(op.path), ids |-> {}, all |-> FALSE, sample |-> 0]]
  /\ UNCHANGED <<case, server, state, windowed>>

\* _invalidate_namespace: the resolved names join the given ones, and the
\* whole cache goes when they cannot be resolved.  An empty cache is skipped.
ResolveNames(t) ==
  /\ job[t].at = "canonical"
  /\ \/ /\ job' = [job EXCEPT ![t].at = "identities",
                     ![t].paths = IF cache = {} THEN @ ELSE @ \union {Canonical(p) : p \in @}]
        /\ UNCHANGED counts
     \/ /\ cache # {} /\ counts.fault < MaxFaults
        /\ counts' = [counts EXCEPT !.fault = @ + 1]
        /\ job' = [job EXCEPT ![t].at = "identities", ![t].paths = @ \union {<<>>}]
  /\ UNCHANGED <<case, server, state, windowed>>

\* The objects the operation touches: fstat of the descriptor, or stat.
IdentitiesOf(t) ==
  IF Namespace(job[t].op) THEN UNION {ObjectAt(p) : p \in job[t].paths} ELSE job[t].target

\* _invalidate_persistent_caches, the part about listings.
ReadIdentities(t) ==
  /\ job[t].at = "identities"
  /\ \/ /\ job' = [job EXCEPT ![t].at = "evict",
                     ![t].ids = IF cache = {} THEN {} ELSE IdentitiesOf(t)]
        /\ UNCHANGED counts
     \/ /\ cache # {} /\ counts.fault < MaxFaults
        /\ counts' = [counts EXCEPT !.fault = @ + 1]
        /\ job' = [job EXCEPT ![t].at = "evict", ![t].all = TRUE]
  /\ UNCHANGED <<case, server, state, windowed>>

Prefixes1(path) == {SubSeq(path, 1, n) : n \in 1..Len(path)}

\* _evict_dircache: the entries one eviction drops.
Stale(c, subtrees, exact, ids, all) ==
  \/ <<>> \in subtrees
  \/ {c.key, CanonicalKey(c.key)} \intersect exact # {}
  \/ (Prefixes1(c.key) \union Prefixes1(CanonicalKey(c.key))) \intersect subtrees # {}
  \/ \E i \in c.infos : all \/ i.obj \in ids

\* The directories whose listings show the change: the parents, and the
\* directories that list the parents.
Parents(paths) == LET up == {Parent(p) : p \in paths} IN up \union {Parent(p) : p \in up}

\* The evictions before the call; those of a write, one for the objects and
\* one for the parents, are one step.
Evict(t) ==
  /\ job[t].at = "evict"
  /\ epoch' = epoch + 1
  /\ cache' = LET j == job[t] IN
       IF Namespace(j.op)
       THEN {c \in cache : ~Stale(c, j.paths, Parents(j.paths), j.ids, j.all)}
       ELSE {c \in cache : /\ c.key \notin {Parent(p) : p \in j.paths}
                           /\ ~ \E i \in c.infos : j.all \/ i.obj \in j.ids}
  /\ job' = [job EXCEPT ![t].at = "sample"]
  /\ UNCHANGED <<case, server, fills, cacheGen, gen, counts, windowed>>

\* The fill counter as it is when the native call is about to start.
Sample(t) ==
  /\ job[t].at = "sample"
  /\ job' = [job EXCEPT ![t].at = "call", ![t].sample = fills]
  /\ UNCHANGED <<case, server, state, counts, windowed>>

Bumped(objs) == [o \in Objects |-> IF o \in objs THEN ver[o] + 1 ELSE ver[o]]
Fresh == Objects \ ({Root} \union {e.obj : e \in UNION {kids[o] : o \in Objects}} \union case.top)
With(k, dirs, name, obj) ==
  [o \in Objects |-> IF o \in dirs
     THEN {e \in k[o] : e.name # name} \union {[name |-> name, obj |-> obj]} ELSE k[o]]
Without(k, dirs, name) ==
  [o \in Objects |-> IF o \in dirs THEN {e \in k[o] : e.name # name} ELSE k[o]]

\* What the server does: the entries and the versions it changes.
Effect(op, target) ==
  LET last == op.path[Len(op.path)]
      dirs == ObjectAt(Parent(op.path))
      objs == ObjectAt(op.path)
      into == ObjectAt(Parent(op.to))
  IN CASE op.kind = "write" -> ver' = Bumped(target) /\ UNCHANGED kids
       [] op.kind = "create" ->
            IF objs # {} \/ Fresh = {} THEN UNCHANGED server
            ELSE /\ kids' = With(kids, dirs, last, CHOOSE o \in Fresh : TRUE)
                 /\ ver' = Bumped(dirs)
       [] op.kind = "remove" -> kids' = Without(kids, dirs, last) /\ ver' = Bumped(dirs \union objs)
       [] op.kind = "link" ->
            IF objs = {} \/ ObjectAt(op.to) # {} THEN UNCHANGED server
            ELSE /\ kids' = With(kids, into, op.to[Len(op.to)], CHOOSE o \in objs : TRUE)
                 /\ ver' = Bumped(into \union objs)
       [] op.kind = "rename" ->
            IF objs = {} THEN UNCHANGED server
            ELSE /\ kids' = With(Without(kids, dirs, last), into, op.to[Len(op.to)],
                                 CHOOSE o \in objs : TRUE)
                 /\ ver' = Bumped(dirs \union into \union objs \union ObjectAt(op.to))

\* The native call; hardlink first drops the listing its source is in.
Call(t) ==
  /\ job[t].at = "call"
  /\ LET op == job[t].op IN
     /\ Effect(op, job[t].target) \/ UNCHANGED server
     /\ IF op.kind = "link"
        THEN /\ epoch' = epoch + 1
             /\ cache' = {c \in cache : c.key # Parent(op.path)}
        ELSE UNCHANGED <<cache, epoch>>
  /\ job' = [job EXCEPT ![t].at = "after"]
  /\ UNCHANGED <<case, fills, cacheGen, gen, counts, windowed>>

\* Mutant: listings stored during the call stay.
KeptFills(t) == cache

\* Listings stored since the sample are retired with everything else.
RetiredFills(t) == IF fills # job[t].sample THEN {} ELSE cache

\* The end of _cache_mutation, whatever the call did.
After(t) ==
  /\ job[t].at = "after"
  /\ epoch' = epoch + 1
  /\ cache' = RetiredFills(t)
  /\ job' = [job EXCEPT ![t] = Idle]
  /\ UNCHANGED <<case, server, fills, cacheGen, gen, counts, windowed>>

\* Some call reconnects a session of the pool.
Reconnect ==
  /\ counts.reconnect < MaxReconnects
  /\ counts' = [counts EXCEPT !.reconnect = @ + 1]
  /\ gen' = gen + 1
  /\ UNCHANGED <<case, server, cache, epoch, fills, cacheGen, job, windowed>>

Next ==
  \/ \E t \in Threads :
       \/ \E key \in Keys, how \in {"ls", "refresh", "walk"} : List(t, key, how)
       \/ Fetch(t) \/ StoreSync(t) \/ Store(t)
       \/ \E op \in case.ops : Mutate(t, op)
       \/ ResolveNames(t) \/ ReadIdentities(t) \/ Evict(t) \/ Sample(t) \/ Call(t) \/ After(t)
  \/ Reconnect

Spec == Init /\ [][Next]_vars
-----------------------------------------------------------------------------
Quiet == \A t \in Threads : job[t].at \in {"idle", "fetch", "sync", "store"}
Outdated(c) == ~IsDir(c.key) \/ c.infos # Listing(c.key)

\* When no mutation is under way, a cached listing is what the server has,
\* but for listings stored while a mutation was between its first look at the
\* cache and its sample of the fill counter.
StaleOnlyFromWindow == Quiet => \A c \in cache : Outdated(c) => c.key \in windowed

\* Listings fetched through a session that was since replaced are never
\* mixed with newer ones: what is cached was fetched in the cache's generation.
OneGeneration == \A c \in cache : c.gen = cacheGen

-----------------------------------------------------------------------------
(* walk() of the fsspec adapter (_fs.py): a generator over a directory tree  *)
(* that lists each directory after its parent was yielded, so the caller can *)
(* prune; sibling listings are prefetched in cohorts, all listings count     *)
(* against one budget, and a prefetched listing is dropped when the listing  *)
(* cache starts a new epoch.  Bottom-up walks fetch the tree first and order *)
(* it afterwards.  Directories are numbered in the order they are sorted.    *)

CONSTANTS WalkCases,        \* [up, unreadable, limit, maxdepth, onError, topdown]
          WalkMaxDepth, BatchSize, WalkMaxMutations, Unlimited

VARIABLES walkCase,
          here,       \* the directories that exist
          files, walkVer, \* [dir -> number of files], [dir -> version of its listing]
          walkCache, walkEpoch,
          budget,     \* [entries, prefetched, epoch] of _WalkBudget
          pending, visit, yielded, outcome,
          seen        \* history: [pruned, fetched, most, since, removed]

walkServer == <<here, files, walkVer>>
walkVars == <<walkCase, walkServer, walkCache, walkEpoch, budget, pending, visit, yielded, outcome, seen>>

WalkRoot == 1
Dirs == 1..Len(walkCase.up)
Up(d) == walkCase.up[d]
RECURSIVE Depth(_)
Depth(d) == IF d = WalkRoot THEN 0 ELSE 1 + Depth(Up(d))
Subdirs(d) == {k \in here \ {WalkRoot} : Up(k) = d}
WalkListing(d) == [dir |-> d, dirs |-> Subdirs(d), files |-> files[d], ver |-> walkVer[d]]
Size(l) == Cardinality(l.dirs) + l.files
Total(ls) == MapThenSumSet(Size, ls)
Readable(d) == d \in here \ walkCase.unreadable
Sorted(ds) == [i \in 1..Cardinality(ds) |->
                 CHOOSE d \in ds : Cardinality({k \in ds : k <= d}) = i]
Stacked(ds) == [i \in 1..Cardinality(ds) |-> Sorted(ds)[Cardinality(ds) + 1 - i]]
CachedFor(d) == {l \in walkCache : l.dir = d}

\* The deepest directory to descend from, and whether stopping there is an
\* error (the limit of the filesystem) or what the caller asked for.
Descend == IF walkCase.maxdepth = Unlimited THEN WalkMaxDepth
           ELSE Min({WalkMaxDepth, walkCase.maxdepth - 1})
HardLimit == walkCase.maxdepth = Unlimited \/ walkCase.maxdepth - 1 > WalkMaxDepth

WalkIdle == [at |-> "pop", dir |-> WalkRoot]

WalkInit ==
  /\ walkCase \in WalkCases
  /\ here = Dirs
  /\ files = [d \in Dirs |-> 1] /\ walkVer = [d \in Dirs |-> 0]
  /\ walkCache = {} /\ walkEpoch = 0
  /\ budget = [entries |-> walkCase.limit, prefetched |-> {}, epoch |-> 0]
  /\ pending = <<WalkRoot>>
  /\ visit = IF walkCase.topdown THEN WalkIdle ELSE [at |-> "tree", dir |-> WalkRoot]
  /\ yielded = <<>>
  /\ outcome = "none"
  /\ seen = [pruned |-> {}, fetched |-> {}, most |-> [d \in Dirs |-> Size(WalkListing(d))],
             since |-> 0, removed |-> {}]

Finish(how) == outcome' = how /\ visit' = [visit EXCEPT !.at = "done"]
-----------------------------------------------------------------------------

\* _WalkBudget.sync: a new epoch gives prefetched listings back.
WalkSynced(b) ==
  IF b.epoch = walkEpoch THEN b
  ELSE [entries |-> b.entries + Total(b.prefetched), prefetched |-> {}, epoch |-> walkEpoch]

AfterPop(paid, d) ==
  IF paid # {} THEN "listed" ELSE IF CachedFor(d) # {} THEN "account" ELSE "native"

\* The next directory: a prefetched listing, a cached one, or a native call.
Pop ==
  /\ visit.at = "pop"
  /\ IF pending = <<>>
     THEN Finish("ended") /\ UNCHANGED <<budget, pending, seen>>
     ELSE LET d == pending[Len(pending)]
              b == WalkSynced(budget)
              paid == {l \in b.prefetched : l.dir = d}
          IN /\ pending' = SubSeq(pending, 1, Len(pending) - 1)
             /\ budget' = [b EXCEPT !.prefetched = @ \ paid]
             /\ visit' = [at |-> AfterPop(paid, d), dir |-> d,
                          listing |-> paid \union CachedFor(d), epoch |-> walkEpoch]
             /\ seen' = [seen EXCEPT !.since = walkVer[d]]
             /\ UNCHANGED outcome
  /\ UNCHANGED <<walkCase, walkServer, walkCache, walkEpoch, yielded>>

\* The native listing, limited to what is left of the budget.
Native ==
  /\ visit.at = "native"
  /\ LET l == WalkListing(visit.dir) IN
     /\ seen' = [seen EXCEPT !.fetched = @ \union {visit.dir}]
     /\ IF ~Readable(visit.dir)
        THEN /\ IF walkCase.onError = "raise" THEN Finish("error")
                ELSE visit' = WalkIdle /\ UNCHANGED outcome
        ELSE IF Size(l) > budget.entries
        THEN Finish("toobig")
        ELSE visit' = [visit EXCEPT !.at = "store", !.listing = {l}] /\ UNCHANGED outcome
  /\ UNCHANGED <<walkCase, walkServer, walkCache, walkEpoch, budget, pending, yielded>>

\* _store_listing.
WalkStore ==
  /\ visit.at = "store"
  /\ walkCache' = IF visit.epoch = walkEpoch THEN (walkCache \ CachedFor(visit.dir)) \union visit.listing
                  ELSE walkCache
  /\ visit' = [visit EXCEPT !.at = "account"]
  /\ UNCHANGED <<walkCase, walkServer, walkEpoch, budget, pending, yielded, outcome, seen>>

\* _WalkBudget.account for a listing that was not paid for by a prefetch.
Account ==
  /\ visit.at = "account"
  /\ LET cost == Total(visit.listing) IN
     IF cost > budget.entries
     THEN Finish("toobig") /\ UNCHANGED budget
     ELSE /\ budget' = [budget EXCEPT !.entries = @ - cost]
          /\ visit' = [visit EXCEPT !.at = "listed"] /\ UNCHANGED outcome
  /\ UNCHANGED <<walkCase, walkServer, walkCache, walkEpoch, pending, yielded, seen>>

\* The directory is yielded; the caller keeps some of its subdirectories.
Yield(keep) ==
  /\ visit.at = "listed"
  /\ \E l \in visit.listing :
       /\ keep \subseteq l.dirs
       /\ yielded' = Append(yielded, l)
       /\ visit' = [at |-> "resume", dir |-> visit.dir, kids |-> keep, listing |-> {l}]
       /\ seen' = [seen EXCEPT !.pruned = @ \union (l.dirs \ keep)]
  /\ UNCHANGED <<walkCase, walkServer, walkCache, walkEpoch, budget, pending, outcome>>

Kids == visit.kids

Deep(d) == Depth(d) >= Descend

\* After the yield: the depth limit, then the children to prefetch.
Resume ==
  /\ visit.at = "resume"
  /\ LET deep == Deep(visit.dir)
         uncached == {k \in Kids : CachedFor(k) = {}}
     IN IF deep /\ HardLimit /\ uncached # {}
        THEN Finish("toodeep") /\ UNCHANGED pending
        ELSE IF deep /\ ~HardLimit
        THEN visit' = WalkIdle /\ UNCHANGED <<outcome, pending>>
        ELSE /\ visit' = [at |-> IF walkCase.onError = "raise" THEN "push" ELSE "prefetch",
                          dir |-> visit.dir, kids |-> Kids, left |-> uncached]
             /\ UNCHANGED <<outcome, pending>>
  /\ UNCHANGED <<walkCase, walkServer, walkCache, walkEpoch, budget, yielded, seen>>

Cohort(left) == {d \in left : Cardinality({k \in left : k <= d}) <= BatchSize}

\* _prefetch_walk_children, one cohort up to its native call: a failure other
\* than the limit is left to the visit of each child.
Prefetch ==
  /\ visit.at = "prefetch"
  /\ IF visit.left = {} THEN visit' = [visit EXCEPT !.at = "push"] /\ UNCHANGED <<budget, seen, outcome>>
     ELSE LET cohort == Cohort(visit.left)
              b == WalkSynced(budget)
              got == {WalkListing(d) : d \in cohort}
          IN /\ budget' = b
             /\ seen' = [seen EXCEPT !.fetched = @ \union cohort]
             /\ IF \E d \in cohort : ~Readable(d)
                THEN visit' = [visit EXCEPT !.left = @ \ cohort] /\ UNCHANGED outcome
                ELSE /\ visit' = [at |-> "fetched", dir |-> visit.dir, kids |-> visit.kids,
                                  left |-> visit.left \ cohort, got |-> got,
                                  over |-> Total(got) > b.entries]
                     /\ UNCHANGED outcome
  /\ UNCHANGED <<walkCase, walkServer, walkCache, walkEpoch, pending, yielded>>

\* The rest of the cohort: results of an older epoch are dropped, the limit
\* is reported only if the epoch lasted.
Prefetched ==
  /\ visit.at = "fetched"
  /\ LET b == WalkSynced(budget)
         same == budget.epoch = walkEpoch
     IN IF ~same \/ ~visit.over
        THEN /\ budget' = IF same THEN [b EXCEPT !.entries = @ - Total(visit.got),
                                                 !.prefetched = @ \union visit.got] ELSE b
             /\ walkCache' = IF same THEN {l \in walkCache : \A g \in visit.got : l.dir # g.dir} \union visit.got
                             ELSE walkCache
             /\ visit' = [at |-> "prefetch", dir |-> visit.dir, kids |-> visit.kids, left |-> visit.left]
             /\ UNCHANGED outcome
        ELSE Finish("toobig") /\ budget' = b /\ UNCHANGED walkCache
  /\ UNCHANGED <<walkCase, walkServer, walkEpoch, pending, yielded, seen>>

Push ==
  /\ visit.at = "push"
  /\ pending' = pending \o Stacked(visit.kids)
  /\ visit' = WalkIdle
  /\ UNCHANGED <<walkCase, walkServer, walkCache, walkEpoch, budget, yielded, outcome, seen>>
-----------------------------------------------------------------------------
\* The trees _cached_walk_tree, _native_walk_tree and _best_effort_walk_tree
\* return: all that can be read from the root down, within the depth.
RECURSIVE Reached(_)
Reached(d) ==
  IF ~Readable(d) THEN {}
  ELSE {d} \union (IF Depth(d) >= Descend THEN {} ELSE UNION {Reached(k) : k \in Subdirs(d)})

\* The bottom-up walk fetches the tree: natively, where one unreadable
\* directory fails the call, or else one directory at a time.
Tree ==
  /\ visit.at = "tree"
  /\ LET within == {d \in here : Depth(d) <= Descend}
         tree == Reached(WalkRoot)
         cut == HardLimit /\ \E d \in tree : Depth(d) >= Descend /\ Subdirs(d) # {}
     IN IF walkCase.onError = "raise" /\ \E d \in within : ~Readable(d)
        THEN Finish("error") /\ UNCHANGED pending
        ELSE IF Total({WalkListing(d) : d \in tree}) > walkCase.limit THEN Finish("toobig") /\ UNCHANGED pending
        ELSE IF cut THEN Finish("toodeep") /\ UNCHANGED pending
        ELSE /\ visit' = [at |-> "order", dir |-> WalkRoot, tree |-> {WalkListing(d) : d \in tree}]
             /\ pending' = <<[dir |-> WalkRoot, visited |-> FALSE]>>
             /\ UNCHANGED outcome
  /\ seen' = [seen EXCEPT !.fetched = Reached(WalkRoot)]
  /\ UNCHANGED <<walkCase, walkServer, walkCache, walkEpoch, budget, yielded>>

WhenVisited(top) == top.visited

\* The loop that orders the tree with an explicit stack.
Order ==
  /\ visit.at = "order"
  /\ IF pending = <<>> THEN Finish("ended") /\ UNCHANGED <<pending, yielded>>
     ELSE LET top == pending[Len(pending)]
              rest == SubSeq(pending, 1, Len(pending) - 1)
              l == {t \in visit.tree : t.dir = top.dir}
              walkKids == UNION {t.dirs : t \in l} \intersect {t.dir : t \in visit.tree}
              below == [i \in 1..Cardinality(walkKids) |-> [dir |-> Stacked(walkKids)[i], visited |-> FALSE]]
          IN /\ IF WhenVisited(top)
                THEN /\ yielded' = Append(yielded, CHOOSE t \in l : TRUE)
                     /\ pending' = IF top.visited THEN rest ELSE rest \o below
                ELSE /\ pending' = (rest \o <<[dir |-> top.dir, visited |-> TRUE]>>) \o below
                     /\ UNCHANGED yielded
             /\ UNCHANGED <<visit, outcome>>
  /\ UNCHANGED <<walkCase, walkServer, walkCache, walkEpoch, budget, seen>>
-----------------------------------------------------------------------------
\* A mutation of this filesystem by the caller or another thread: a file is
\* added, or an empty subdirectory removed.  The listings it changes leave
\* the cache and a new epoch starts.
WalkMutate(d, remove) ==
  /\ walkCase.topdown /\ walkEpoch < WalkMaxMutations /\ visit.at # "done"
  /\ d \in here /\ (remove => d # WalkRoot /\ Subdirs(d) = {})
  /\ LET changed == IF remove THEN Up(d) ELSE d IN
     /\ here' = IF remove THEN here \ {d} ELSE here
     /\ files' = IF remove THEN files ELSE [files EXCEPT ![d] = @ + 1]
     /\ walkVer' = [walkVer EXCEPT ![changed] = @ + 1]
     /\ walkCache' = {l \in walkCache : l.dir \notin {d, Up(d), changed}}
     /\ seen' = [seen EXCEPT !.most[changed] = Max({@, Cardinality(Subdirs(changed)) + files'[changed]}),
                             !.removed = IF remove THEN @ \union {d} ELSE @]
  /\ walkEpoch' = walkEpoch + 1
  /\ UNCHANGED <<walkCase, budget, pending, visit, yielded, outcome>>

WalkNext ==
  \/ Pop \/ Native \/ WalkStore \/ Account \/ Resume \/ Prefetch \/ Prefetched \/ Push
  \/ \E keep \in SUBSET Dirs : Yield(keep)
  \/ Tree \/ Order
  \/ \E d \in Dirs, remove \in BOOLEAN : WalkMutate(d, remove)

WalkSpec == WalkInit /\ [][WalkNext]_walkVars
-----------------------------------------------------------------------------
Visited == {yielded[i].dir : i \in DOMAIN yielded}

\* What is yielded for a directory is never older than the moment the walk
\* turned to it: a change this filesystem completed before is in it, however
\* early the listing was prefetched.
FreshVisit ==
     \A i \in DOMAIN yielded' \ DOMAIN yielded :
       walkCase.topdown => yielded'[i].ver >= seen.since

\* The budget is exact: what is left, what was yielded and what is held in
\* prefetched listings add up to the limit, over every drop and refund.
BudgetExact ==
  (walkCase.topdown /\ visit.at = "pop") =>
    budget.entries + Total(budget.prefetched)
      + MapThenSumSet(LAMBDA i : Size(yielded[i]), DOMAIN yielded) = walkCase.limit

\* A directory the caller pruned is never listed, by a visit or a prefetch.
PrunedUntouched == seen.pruned \intersect seen.fetched = {}

\* A parent comes before (bottom-up: after) its subdirectories, and no
\* directory comes twice.
Ordered ==
  \A i, k \in DOMAIN yielded :
    /\ yielded[i].dir = yielded[k].dir => i = k
    /\ (yielded[i].dir # WalkRoot /\ Up(yielded[i].dir) = yielded[k].dir) =>
         IF walkCase.topdown THEN k < i ELSE i < k

RECURSIVE Above(_)
Above(d) == IF d = WalkRoot THEN {WalkRoot} ELSE {d} \union Above(Up(d))
Expected(d) == /\ Above(d) \intersect (seen.pruned \union seen.removed \union walkCase.unreadable) = {}
               /\ Depth(d) <= Descend

\* A walk that ends by itself has yielded every directory within the depth
\* that it could read, that stayed, and that the caller did not prune.
Complete == outcome = "ended" => \A d \in Dirs : Expected(d) => d \in Visited

\* The entry limit is reported only for a tree that has more entries.
LimitTrue ==
  outcome = "toobig" => MapThenSumSet(LAMBDA d : seen.most[d], Dirs) > walkCase.limit
=============================================================================
