----------------------------- MODULE DirListing -----------------------------
(***************************************************************************)
(* READDIR pages as the NFS client sees them (client.rs collect_readdir,   *)
(* readdir_pages_bounded).  An entry is a natural number that is also its  *)
(* cookie; a directory is the set of its entries; a page holds the first   *)
(* WirePage entries after the requested cookie.  The returned cookie is 0  *)
(* at the end of the directory and the last entry's cookie before it.      *)
(***************************************************************************)
EXTENDS Integers, Sequences, FiniteSets, SequencesExt, FiniteSetsExt

CONSTANT WirePage   \* entries that fit into one READDIR reply

After(set, cookie) == {e \in set : e > cookie}
Ascending(set) == SetToSortSeq(set, LAMBDA a, b : a < b)

\* One READDIR: the entries and the continuation cookie.
ReadPage(set, cookie) ==
  LET rest == Ascending(After(set, cookie))
  IN  IF Len(rest) <= WirePage
        THEN [entries |-> rest, cookie |-> 0]
        ELSE [entries |-> SubSeq(rest, 1, WirePage), cookie |-> rest[WirePage]]

\* LOOKUP of a child and its first page, in one compound.
ReadChild(set) == ReadPage(set, 0)

-----------------------------------------------------------------------------
(***************************************************************************)
(* Paged directory visits: visit_directory_pages of the application layer  *)
(* (vfsi-sync application.rs) over the directory pages of the NFS backend  *)
(* (vlistdir_pages_impl of nfs/vector_backend.rs).                         *)
(*                                                                         *)
(* A cohort of directories is fetched with one backend call.  Its pages    *)
(* are handed to the callback one at a time; continuations of the cohort   *)
(* are fetched until every directory of it is finished; then the           *)
(* subdirectories found are visited.  Other clients change directories     *)
(* between calls, and a connection may be lost.                            *)
(***************************************************************************)

CONSTANTS
  Calls,      \* the calls and trees to start from (MC module)
  Cohort,     \* directory_page_batch_size
  MaxFaults,  \* bound: lost connections
  MaxOther,   \* bound: changes by other clients
  Fresh       \* entries another client may create: <<directory, entry>>

VARIABLES
  call,       \* roots, options and the immutable properties of directories
  dirs,       \* server: directory -> set of entries
  stable,     \* history: entries that were there all the time
  pending,    \* directories still to be visited
  cohort,     \* the directories of the current backend call
  pageSize,   \* and the page size it asks for
  wave,       \* fetched pages waiting for the callback
  conts,      \* directories of the cohort with a continuation
  children,   \* subdirectories found in this cohort
  deferred,   \* the error of a later root, to be returned after this cohort
  budget,     \* entries that may still be delivered
  completed,  \* the completion of each root
  delivered,  \* history: <<root, directory, entry>> in callback order
  visited,    \* history: <<root, directory>> whose first page was delivered
  pruned,     \* history: directories the callback pruned
  retried, out, pc, faults, other

server == <<call, dirs, stable>>
visit == <<pending, cohort, pageSize, wave, conts, children, deferred, budget,
           completed>>
history == <<delivered, visited, pruned>>
vars == <<server, visit, history, retried, out, pc, faults, other>>

\* out: 0 while running, -1 stopped by the callback, -2 complete, -3 the entry
\* budget, -4 the depth limit, -5 the connection, and i > 0 the error of root i.
Running == 0
----------------------------------------------------------------------------
(* The backend: vlistdir_pages_impl *)

\* A cursor: none yet, a child anchored at its parent, or a retained state.
NoCursor == [kind |-> "fresh", cookie |-> 0, buffered |-> <<>>]
ChildCursor == [kind |-> "child", cookie |-> 0, buffered |-> <<>>]
Item(owner, dir, depth, cursor) ==
  [owner |-> owner, dir |-> dir, depth |-> depth, cursor |-> cursor]

\* A directory that was renamed or removed is missing.
Status(dir) ==
  IF \E x \in DOMAIN call.child : call.child[x] = dir /\ x[2] \notin dirs[x[1]]
    THEN "missing" ELSE call.status[dir]

Asked(item) == item.cursor.buffered = <<>>
Fails(items, kind, statuses) ==
  {i \in DOMAIN items : /\ items[i].cursor.kind \in kind
                        /\ Asked(items[i])
                        /\ Status(items[i].dir) \in statuses}

\* Fresh paths are resolved first, then children are looked up and read, then
\* the other directories are read: an error belongs to the first that fails.
FirstError(items) ==
  LET resolve == Fails(items, {"fresh"}, {"missing"})
      child == Fails(items, {"child"}, {"missing", "denied"})
      readdir == Fails(items, {"fresh", "state"}, {"missing", "denied"})
  IN  CASE resolve # {} -> Min(resolve)
        [] resolve = {} /\ child # {} -> Min(child)
        [] resolve = {} /\ child = {} /\ readdir # {} -> Min(readdir)
        [] OTHER -> 0

\* The cursor after the page was read, its entries still buffered.
Filled(item) ==
  IF Asked(item)
    THEN LET page == IF item.cursor.kind = "child" THEN ReadChild(dirs[item.dir])
                     ELSE ReadPage(dirs[item.dir], item.cursor.cookie)
         IN  [kind |-> "state", cookie |-> page.cookie,
              buffered |-> page.entries]
    ELSE item.cursor

\* Whether the directory has more to deliver.
HasNext(cursor) == cursor.buffered # <<>> \/ cursor.cookie # 0

\* One result: the page, and the item with its retained cursor.
Result(item, size) ==
  LET full == Filled(item)
      n == Min({size, Len(full.buffered)})
      rest == [full EXCEPT !.buffered = SubSeq(@, n + 1, Len(@))]
  IN  [item |-> [item EXCEPT !.cursor = rest],
       page |-> SubSeq(full.buffered, 1, n),
       first |-> item.cursor.kind # "state",
       more |-> HasNext(rest)]

RecoverAlways(items) == TRUE

\* Only a call without cursors is repeated on a new connection.
Recoverable(items) == \A i \in DOMAIN items : items[i].cursor.kind = "fresh"
Restart(items) ==
  [i \in DOMAIN items |-> [items[i] EXCEPT !.cursor = NoCursor]]
----------------------------------------------------------------------------
(* visit_directory_pages *)

Init ==
  /\ call \in Calls
  /\ dirs = call.tree /\ stable = call.tree
  /\ pending = [i \in DOMAIN call.roots |-> Item(i, call.roots[i], 0, NoCursor)]
  /\ cohort = <<>> /\ pageSize = 1 /\ wave = <<>> /\ conts = <<>>
  /\ children = <<>> /\ deferred = 0
  /\ budget = call.maxEntries
  /\ completed = [i \in DOMAIN call.roots |-> "none"]
  /\ delivered = <<>> /\ visited = {} /\ pruned = {}
  /\ retried = FALSE /\ out = Running /\ pc = "form" /\ faults = 0 /\ other = 0

CohortSize(owner) ==
  IF call.recursive
    THEN Cardinality({i \in 1..Min({Len(pending), Cohort}) :
                        \A j \in 1..i : pending[j].owner = owner})
    ELSE Min({Len(pending), Cohort})

Form ==
  /\ pc = "form" /\ pending # <<>>
  /\ LET n == CohortSize(Head(pending).owner)
     IN  /\ cohort' = SubSeq(pending, 1, n)
         /\ pending' = SubSeq(pending, n + 1, Len(pending))
  /\ pageSize' = 1 /\ wave' = <<>> /\ conts' = <<>> /\ children' = <<>>
  /\ deferred' = 0 /\ retried' = FALSE
  /\ pc' = "fetch"
  /\ UNCHANGED <<server, budget, completed, history, out, faults, other>>

\* A later root's error must not hide what the callback decides about earlier
\* ones: those are fetched again, and the error waits until they are done.
Defers(bad) == /\ ~call.recursive /\ bad > 1 /\ deferred = 0
               /\ Head(cohort).cursor.kind = "fresh"

Fetch ==
  /\ pc = "fetch"
  /\ LET bad == FirstError(cohort)
     IN  CASE bad = 0 ->
                /\ wave' = [i \in DOMAIN cohort |-> Result(cohort[i], pageSize)]
                /\ conts' = <<>> /\ pc' = "wave"
                /\ UNCHANGED <<cohort, deferred, out>>
           [] bad # 0 /\ Defers(bad) ->
                /\ deferred' = cohort[bad].owner
                /\ cohort' = SubSeq(cohort, 1, bad - 1)
                /\ UNCHANGED <<wave, conts, out, pc>>
           [] OTHER ->
                /\ out' = cohort[bad].owner /\ pc' = "done"
                /\ UNCHANGED <<wave, conts, cohort, deferred>>
  /\ retried' = FALSE
  /\ UNCHANGED <<server, pending, pageSize, children, budget, completed,
                 history, faults, other>>

\* The connection is lost during a fetch; read_with_recovery tries once more.
Lost ==
  /\ pc = "fetch" /\ faults < MaxFaults /\ faults' = faults + 1
  /\ IF Recoverable(cohort) /\ ~retried
       THEN /\ retried' = TRUE /\ cohort' = Restart(cohort)
            /\ UNCHANGED <<out, pc>>
       ELSE out' = -5 /\ pc' = "done" /\ UNCHANGED <<retried, cohort>>
  /\ UNCHANGED <<server, pending, pageSize, wave, conts, children, deferred,
                 budget, completed, history, other>>
----------------------------------------------------------------------------
(* The callback, one page at a time *)

ChildDir(dir, entry) == call.child[<<dir, entry>>]
IsDir(dir, entry) == <<dir, entry>> \in DOMAIN call.child

\* What is left to do once the callback accepted a page.
Admit(r, page, skip) ==
  LET found == SelectSeq(page, LAMBDA e : IsDir(r.item.dir, e))
      kept == SelectSeq(found, LAMBDA e : ChildDir(r.item.dir, e) \notin skip)
      deep == r.item.depth >= call.maxDepth /\ kept # <<>>
      items == [i \in DOMAIN kept |->
                  Item(r.item.owner, ChildDir(r.item.dir, kept[i]),
                       r.item.depth + 1, ChildCursor)]
  IN  IF ~call.recursive \/ ~deep
        THEN /\ children' = IF call.recursive THEN children \o items
                            ELSE children
             /\ UNCHANGED out
        ELSE /\ out' = IF call.truncate THEN out ELSE -4
             /\ UNCHANGED children

Mark(owner, what) == completed' = [completed EXCEPT ![owner] = what]

\* The entries of a page that the budget still covers.
Accepted(page) == SubSeq(page, 1, Min({Len(page), budget}))

Deliver ==
  /\ pc = "wave" /\ wave # <<>>
  /\ LET r == Head(wave)
         page == Accepted(r.page)
         over == Len(page) < Len(r.page)
         subdirs == {ChildDir(r.item.dir, e) :
                       e \in {x \in Range(page) : IsDir(r.item.dir, x)}}
     IN  IF over /\ page = <<>>
           THEN /\ out' = -3 /\ pc' = "done"
                /\ UNCHANGED <<wave, conts, children, budget, completed, history>>
           ELSE
             /\ budget' = budget - Len(page)
             /\ delivered' = delivered \o
                  [i \in DOMAIN page |-> <<r.item.owner, r.item.dir, page[i]>>]
             /\ visited' = visited \cup {<<r.item.owner, r.item.dir>>}
             /\ wave' = Tail(wave)
             /\ \/ /\ Mark(r.item.owner, "stopped")
                   /\ out' = -1 /\ pc' = "done"
                   /\ UNCHANGED <<conts, children, pruned>>
                \/ /\ over
                   /\ out' = -3 /\ pc' = "done"
                   /\ UNCHANGED <<conts, children, completed, pruned>>
                \/ /\ ~over
                   /\ \E skip \in SUBSET subdirs :
                        /\ ~call.recursive => skip = {}
                        /\ pruned' = pruned \cup skip
                        /\ Admit(r, page, skip)
                   /\ pc' = IF out' = Running THEN "wave" ELSE "done"
                   /\ IF r.more
                        THEN /\ conts' = Append(conts, r.item)
                             /\ UNCHANGED completed
                        ELSE /\ UNCHANGED conts
                             /\ IF call.recursive THEN UNCHANGED completed
                                ELSE Mark(r.item.owner, "complete")
  /\ UNCHANGED <<server, pending, cohort, pageSize, deferred, retried, faults,
                 other>>

Continue ==
  /\ pc = "wave" /\ wave = <<>> /\ conts # <<>>
  /\ cohort' = conts
  /\ pageSize' = budget + 1
  /\ pc' = "fetch" /\ retried' = FALSE
  /\ UNCHANGED <<server, pending, wave, conts, children, deferred, budget,
                 completed, history, out, faults, other>>

\* The cohort is finished: its deferred error, or its subdirectories.
CohortEnds ==
  /\ pc = "wave" /\ wave = <<>> /\ conts = <<>>
  /\ IF deferred # 0
       THEN out' = deferred /\ pc' = "done" /\ UNCHANGED <<pending, completed>>
       ELSE LET owner == Head(cohort).owner
            IN  /\ pending' = children \o pending
                /\ IF call.recursive /\ (pending' = <<>>
                                         \/ Head(pending').owner # owner)
                     THEN Mark(owner, "complete") ELSE UNCHANGED completed
                /\ out' = IF pending' = <<>> THEN -2 ELSE Running
                /\ pc' = IF pending' = <<>> THEN "done" ELSE "form"
  /\ UNCHANGED <<server, cohort, pageSize, wave, conts, children, deferred,
                 budget, history, retried, faults, other>>

Others ==
  /\ pc # "done" /\ other < MaxOther /\ other' = other + 1
  /\ \/ \E f \in Fresh : /\ f[2] \notin dirs[f[1]]
                         /\ dirs' = [dirs EXCEPT ![f[1]] = @ \cup {f[2]}]
                         /\ UNCHANGED stable
     \/ \E d \in DOMAIN dirs : \E e \in stable[d] :
          /\ dirs' = [dirs EXCEPT ![d] = @ \ {e}]
          /\ stable' = [stable EXCEPT ![d] = @ \ {e}]
  /\ UNCHANGED <<call, visit, history, retried, out, pc, faults>>

Next == Form \/ Fetch \/ Lost \/ Deliver \/ Continue \/ CohortEnds \/ Others
Spec == Init /\ [][Next]_vars
----------------------------------------------------------------------------
(* Properties *)

\* No entry is handed to the callback twice, whatever pages, buffered entries,
\* continuations and recovery do: replaying a delivered page would repeat the
\* application's work.
DeliveredOnce == IsInjective(delivered)

\* A directory whose subdirectories the visit had to enter.
Due(owner) ==
  LET Enter(set) == {ChildDir(d, e) : <<d, e>> \in
                       {x \in DOMAIN call.child : x[1] \in set /\ x[2] \in stable[x[1]]}}
                    \ pruned
      S0 == {call.roots[owner]}
      S1 == S0 \cup (IF call.recursive /\ call.maxDepth > 0 THEN Enter(S0) ELSE {})
  IN  S1 \cup (IF call.recursive /\ call.maxDepth > 1 THEN Enter(S1) ELSE {})

\* A root reported complete was listed completely: every entry that was there
\* throughout, in the root and in every subdirectory that was not pruned and
\* lies within the depth limit, reached the callback.
CompleteMeansAll ==
  \A r \in DOMAIN call.roots : completed[r] = "complete" =>
    \A d \in Due(r) : \A e \in stable[d] : <<r, d, e>> \in Range(delivered)

\* The entry budget is exact: the callback gets every entry that fits before
\* the error, and none beyond.
BudgetExact ==
  /\ Len(delivered) <= call.maxEntries
  /\ out = -3 => Len(delivered) = call.maxEntries

\* The error of one root never hides the callback's decision about an earlier
\* one: before an error of root i is returned, every earlier root had its first
\* page delivered ("A speculative later root must not hide an earlier
\* callback's cancellation.").
EarlierRootsFirst ==
  out > 0 => \A j \in 1..(out - 1) : <<j, call.roots[j]>> \in visited

\* A recursive visit finishes one root before it starts another, also when the
\* pages of several directories are fetched together.
RootsInOrder ==
  call.recursive =>
    \A i \in DOMAIN delivered : \A j \in 1..(delivered[i][1] - 1) :
      completed[j] = "complete"

-----------------------------------------------------------------------------
(***************************************************************************)
(* The directory listings of the NFS backend (nfs/vector_backend.rs,       *)
(* nfs/directory.rs):                                                      *)
(*   visit   visit_dir_impl streams one directory to a callback;           *)
(*   list    listdir_impl / listdir_rec collect a tree depth first;        *)
(*   lists   vlistdirs_impl streams several trees, a level at a time;      *)
(*   walk    walk_with_options_impl collects a tree a level at a time and  *)
(*           returns its directories in pre-order.                         *)
(* A step is one READDIR round trip with what the client does with it.     *)
(* visit and list may be repeated on a new connection, each by its own     *)
(* rule; the others return the error.                                      *)
(***************************************************************************)

CONSTANTS
          ListCalls,    \* the calls and trees to start from (MC module)
          ListMaxOther  \* bound: entries removed by other clients

VARIABLES
  listCall, listDirs, listStable,
  todo,       \* list: stack of directories; lists, walk: the current level
  reading,    \* directories being read: [dir, owner, depth, cookie]
  below,      \* subdirectories found on this level
  got,        \* result so far: <<owner, directory, entry>>
  walked,     \* walk: directories read to the end (keys of `collected')
  listRetried,    \* the operation runs a second time
  stopped,    \* the callback asked to stop
  listOut, listFaults, listOther

listVars == <<listCall, listDirs, listStable, todo, reading, below, got, walked, listRetried,
              stopped, listOut, listFaults, listOther>>

ListRunning == 0  \* out: 0 running, 1 ok, 2 semantic error, 3 connection lost
Ok == 1
Refused == 2
Broken == 3
----------------------------------------------------------------------------
ListChildDir(dir, entry) == listCall.child[<<dir, entry>>]
ListIsDir(dir, entry) == <<dir, entry>> \in DOMAIN listCall.child
Exists(dir) == \A x \in DOMAIN listCall.child :
                  listCall.child[x] = dir => x[2] \in listDirs[x[1]]

Visit(dir, owner, depth, cookie) ==
  [dir |-> dir, owner |-> owner, depth |-> depth, cookie |-> cookie]
Start(c) == [i \in DOMAIN c.roots |-> Visit(c.roots[i], i, 0, 0)]

ListInit ==
  /\ listCall \in ListCalls
  /\ listDirs = listCall.tree /\ listStable = listCall.tree
  /\ todo = Start(listCall) /\ reading = <<>> /\ below = <<>> /\ got = <<>>
  /\ walked = {} /\ listRetried = FALSE /\ stopped = FALSE
  /\ listOut = ListRunning /\ listFaults = 0 /\ listOther = 0

\* `readdir' returns entries only, without the end-of-directory mark: the last
\* entry's cookie is asked for next, and an empty page is the end.
Entries(v) == ReadPage(listDirs[v.dir], v.cookie).entries
NextCookie(page) == IF page = <<>> THEN 0 ELSE Last(page)

Tagged(v, page) == [i \in DOMAIN page |-> <<v.owner, v.dir, page[i]>>]
Subdirs(v, page) ==
  LET found == SelectSeq(page, LAMBDA e : ListIsDir(v.dir, e))
  IN  [i \in DOMAIN found |->
         Visit(ListChildDir(v.dir, found[i]), v.owner, v.depth + 1, 0)]

Within(page) ==
  IF listCall.max = 0 THEN page
  ELSE SubSeq(page, 1, Min({Len(page), listCall.max - Len(got)}))
Full == listCall.max # 0 /\ Len(got) >= listCall.max

Pushed(stack, listChildren) == stack \o Reverse(listChildren)

Return(status) == listOut' = status /\ UNCHANGED <<todo, reading, below>>
----------------------------------------------------------------------------
(* visit_dir_impl *)

VisitPage ==
  /\ listCall.op = "visit" /\ listOut = ListRunning
  /\ LET v == Head(todo)
         page == Within(Entries(v))
         cut == Len(page) < Len(Entries(v))
     IN  \/ /\ ~Exists(v.dir)
            /\ Return(Refused) /\ UNCHANGED <<got, stopped>>
         \/ /\ Exists(v.dir)
            /\ got' = got \o Tagged(v, page)
            /\ IF cut \/ page = <<>> THEN Return(Ok)
               ELSE /\ todo' = <<[v EXCEPT !.cookie = NextCookie(page)]>>
                    /\ UNCHANGED <<reading, below, listOut>>
            /\ UNCHANGED stopped
         \/ \E n \in DOMAIN page :      \* the callback stops at entry n
              /\ Exists(v.dir)
              /\ got' = got \o Tagged(v, SubSeq(page, 1, n))
              /\ stopped' = TRUE /\ Return(Ok)
  /\ UNCHANGED <<listCall, listDirs, listStable, walked, listRetried, listFaults, listOther>>
----------------------------------------------------------------------------
(* listdir_rec: `reading' is the directory being read, `below' its children. *)

ListPage ==
  /\ listCall.op = "list" /\ listOut = ListRunning
  /\ IF reading = <<>>
       THEN IF todo = <<>> \/ Full
              THEN Return(Ok) /\ UNCHANGED got
              ELSE IF ~Exists(Last(todo).dir)
                THEN Return(Refused) /\ UNCHANGED got
                ELSE /\ reading' = <<Last(todo)>> /\ todo' = Front(todo)
                     /\ below' = <<>> /\ UNCHANGED <<got, listOut>>
       ELSE LET v == Head(reading)
                page == Within(Entries(v))
            IN  CASE ~Exists(v.dir) -> Return(Refused) /\ UNCHANGED got
                  [] Exists(v.dir) /\ Entries(v) = <<>> ->
                       /\ todo' = Pushed(todo, below)
                       /\ reading' = <<>> /\ below' = <<>>
                       /\ UNCHANGED <<got, listOut>>
                  [] Exists(v.dir) /\ Len(page) < Len(Entries(v)) ->
                       got' = got \o Tagged(v, page) /\ Return(Ok)
                  [] OTHER ->
                       /\ got' = got \o Tagged(v, page)
                       /\ below' = IF listCall.recursive THEN below \o Subdirs(v, page)
                                   ELSE below
                       /\ reading' = <<[v EXCEPT !.cookie = NextCookie(page)]>>
                       /\ UNCHANGED <<todo, listOut>>
  /\ UNCHANGED <<listCall, listDirs, listStable, walked, listRetried, stopped, listFaults, listOther>>
----------------------------------------------------------------------------
(* vlistdirs_impl and walk_with_options_impl: levels *)

Missing(vs) == \E i \in DOMAIN vs : ~Exists(vs[i].dir)

\* readdir_pages: one page of every directory of the wave, with the
\* end-of-directory mark.
Pages(vs) == [i \in DOMAIN vs |-> ReadPage(listDirs[vs[i].dir], vs[i].cookie)]
Continues(v, page) ==   \* the root of a walk is read with `readdir'
  IF listCall.op = "walk" /\ v.depth = 0 THEN NextCookie(page.entries)
  ELSE page.cookie
More(vs, pages) ==
  LET next == [i \in DOMAIN vs |->
                 [vs[i] EXCEPT !.cookie = Continues(vs[i], pages[i])]]
  IN  SelectSeq(next, LAMBDA v : v.cookie # 0)

Emitted(vs, pages) ==
  FlattenSeq([i \in DOMAIN vs |-> Tagged(vs[i], pages[i].entries)])
Found(vs, pages) ==
  FlattenSeq([i \in DOMAIN vs |-> Subdirs(vs[i], pages[i].entries)])

Deeper(vs) == listCall.op = "walk" /\ \E i \in DOMAIN vs : vs[i].depth > listCall.depth
Descend(vs) ==
  IF listCall.op = "walk" THEN SelectSeq(vs, LAMBDA v : v.depth <= listCall.depth)
  ELSE IF listCall.recursive THEN vs ELSE <<>>

LevelStart ==
  /\ listCall.op \in {"lists", "walk"} /\ listOut = ListRunning /\ reading = <<>>
  /\ IF todo = <<>> THEN Return(Ok)
     ELSE IF Missing(todo) THEN Return(Refused)
     ELSE /\ reading' = todo /\ todo' = <<>> /\ below' = <<>>
          /\ UNCHANGED listOut
  /\ UNCHANGED <<listCall, listDirs, listStable, got, walked, listRetried, stopped, listFaults, listOther>>

LevelPages ==
  /\ listCall.op \in {"lists", "walk"} /\ listOut = ListRunning /\ reading # <<>>
  /\ LET pages == Pages(reading)
         all == Emitted(reading, pages)
         some == Within(all)
         found == Found(reading, pages)
         more == More(reading, pages)
         level == below \o found
     IN  \/ /\ Missing(reading) /\ Return(Refused)
            /\ UNCHANGED <<got, walked, stopped>>
         \/ /\ ~Missing(reading) /\ Len(some) < Len(all)
            /\ got' = got \o some
            /\ Return(IF listCall.op = "walk" THEN Refused ELSE Ok)
            /\ UNCHANGED <<walked, stopped>>
         \/ /\ ~Missing(reading) /\ listCall.op = "lists"
            /\ \E n \in DOMAIN some : got' = got \o SubSeq(some, 1, n)
            /\ stopped' = TRUE /\ Return(Ok) /\ UNCHANGED walked
         \/ /\ ~Missing(reading) /\ Len(some) = Len(all)
            /\ Deeper(found) /\ ~listCall.truncate
            /\ Return(Refused) /\ UNCHANGED <<got, walked, stopped>>
         \/ /\ ~Missing(reading) /\ Len(some) = Len(all)
            /\ ~(Deeper(found) /\ ~listCall.truncate)
            /\ got' = got \o all
            /\ reading' = more
            /\ IF more = <<>> THEN todo' = Descend(level) /\ below' = <<>>
               ELSE below' = level /\ UNCHANGED todo
            /\ walked' = walked \cup {reading[i].dir : i \in DOMAIN reading}
            /\ UNCHANGED <<stopped, listOut>>
  /\ UNCHANGED <<listCall, listDirs, listStable, listRetried, listFaults, listOther>>
----------------------------------------------------------------------------
(* Recovery *)

Repeatable == \/ listCall.op = "visit" /\ got = <<>>
              \/ listCall.op = "list"

ListLost ==
  /\ listOut = ListRunning /\ listFaults < MaxFaults /\ listFaults' = listFaults + 1
  /\ IF Repeatable /\ ~listRetried
       THEN /\ listRetried' = TRUE /\ todo' = Start(listCall)
            /\ reading' = <<>> /\ below' = <<>>
            /\ got' = IF listCall.op = "list" THEN <<>> ELSE got
            /\ UNCHANGED listOut
       ELSE listOut' = Broken /\ UNCHANGED <<listRetried, todo, reading, below, got>>
  /\ UNCHANGED <<listCall, listDirs, listStable, walked, stopped, listOther>>

ListOthers ==
  /\ listOut = ListRunning /\ listOther < ListMaxOther /\ listOther' = listOther + 1
  /\ \E d \in DOMAIN listDirs : \E e \in listDirs[d] :
       /\ ListIsDir(d, e) => listDirs[ListChildDir(d, e)] = {}
       /\ listDirs' = [listDirs EXCEPT ![d] = @ \ {e}]
       /\ listStable' = [listStable EXCEPT ![d] = @ \ {e}]
  /\ UNCHANGED <<listCall, todo, reading, below, got, walked, listRetried, stopped, listOut,
                 listFaults>>

ListNext == VisitPage \/ ListPage \/ LevelStart \/ LevelPages \/ ListLost \/ ListOthers
ListSpec == ListInit /\ [][ListNext]_listVars /\ WF_listVars(ListNext)
----------------------------------------------------------------------------
(* The result of a walk: `sort' orders the entries of each directory, and a *)
(* stack turns the collected levels into pre-order.                         *)

EntriesOf(dir) ==
  LET mine == SelectSeq(got, LAMBDA g : g[2] = dir)
      names == [i \in DOMAIN mine |-> mine[i][3]]
  IN  IF listCall.reversed THEN Reverse(names) ELSE names

RECURSIVE Ordered(_, _, _)
Ordered(stack, collected, done) ==
  IF stack = <<>> THEN done
  ELSE LET dir == Last(stack)
           left == collected \ {dir}
           subs == SelectSeq(EntriesOf(dir),
                     LAMBDA e : ListIsDir(dir, e) /\ ListChildDir(dir, e) \in left)
       IN  Ordered(Pushed(Front(stack),
                          [i \in DOMAIN subs |-> ListChildDir(dir, subs[i])]),
                   left, Append(done, dir))

WalkResult ==
  LET order == Ordered(listCall.roots, walked, <<>>)
  IN  [i \in DOMAIN order |-> <<order[i], EntriesOf(order[i])>>]
----------------------------------------------------------------------------
(* Properties *)

\* The entries below a root that no other client removed, down to `depth'.
RECURSIVE Below(_, _, _)
Below(owner, dir, depth) ==
  IF depth < 0 THEN {}
  ELSE {<<owner, dir, e>> : e \in listStable[dir]} \cup
       UNION {Below(owner, ListChildDir(dir, e), depth - 1) :
                e \in {x \in listStable[dir] : ListIsDir(dir, x)}}
Reach == CASE listCall.op = "walk" -> listCall.depth
           [] listCall.op # "walk" /\ listCall.recursive -> Cardinality(DOMAIN listDirs)
           [] OTHER -> 0
Promised == UNION {Below(i, listCall.roots[i], Reach) : i \in DOMAIN listCall.roots}

\* The entries of the tree, directory by directory, in pre-order.
RECURSIVE Preorder(_, _)
Preorder(dir, depth) ==
  LET names == IF listCall.reversed THEN Reverse(Ascending(listCall.tree[dir]))
               ELSE Ascending(listCall.tree[dir])
      subs == SelectSeq(names, LAMBDA e : ListIsDir(dir, e))
  IN  <<<<dir, names>>>> \o
      IF depth = 0 THEN <<>>
      ELSE FlattenSeq([i \in DOMAIN subs |->
                         Preorder(ListChildDir(dir, subs[i]), depth - 1)])

\* visit_dir_impl: "replaying after an entry was delivered would duplicate
\* application work".  No listing reports an entry twice for the same operand,
\* although visit and list start over on a new connection.
EntryOnce == IsInjective(got)

\* A listing that returns Ok, was not stopped by its callback and did not fill
\* its entry limit has reported every entry that existed throughout, across
\* pages, levels and a repeated read; a walk that returns Ok is never cut at all.
OkIsComplete ==
  (/\ listOut = Ok /\ ~stopped
   /\ listCall.op = "walk" \/ listCall.max = 0 \/ Len(got) < listCall.max) =>
    Promised \subseteq ToSet(got)

\* max_entries counts over all pages, levels and operands of a call.
LimitKept == listCall.max # 0 => Len(got) <= listCall.max

\* Collected trees come back in pre-order with each directory's entries in the
\* caller's order, although a walk reads a level at a time (walk_with_options)
\* and a listing stacks its directories (listdir_rec).
TreeOrder ==
  (listOut = Ok /\ listOther = 0 /\ listCall.op \in {"walk", "list"}) =>
    LET tree == Preorder(listCall.roots[1], Reach)
        flat == FlattenSeq([i \in DOMAIN tree |->
                              [j \in DOMAIN tree[i][2] |->
                                 <<1, tree[i][1], tree[i][2][j]>>]])
    IN  IF listCall.op = "walk" THEN WalkResult = tree
        ELSE got = IF listCall.max = 0 THEN flat
                   ELSE SubSeq(flat, 1, Min({listCall.max, Len(flat)}))

\* With nobody else changing the tree a listing is refused only for what the
\* limits name: a walk with more entries than max_entries, or with a directory
\* below max_depth when truncation was not asked for.
RefusedOnlyAtLimits ==
  (listOut = Refused /\ listOther = 0) =>
    /\ listCall.op = "walk"
    /\ LET all == Below(1, listCall.roots[1], Cardinality(DOMAIN listDirs))
       IN  \/ listCall.max # 0 /\ Cardinality(all) > listCall.max
          \/ /\ ~listCall.truncate
             /\ \E g \in Below(1, listCall.roots[1], listCall.depth) :
                  /\ g \notin Below(1, listCall.roots[1], listCall.depth - 1)
                  /\ ListIsDir(g[2], g[3])
=============================================================================
