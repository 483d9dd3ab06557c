------------------------------ MODULE CListings -----------------------------
(***************************************************************************)
(* Directory listings of the C bindings (bindings/c/src/listing.rs and     *)
(* directory.rs): the snapshot of a vector of directories, the older call  *)
(* for a vector, the listing of one directory, and the cohorts that        *)
(* continue from child cursors the application owns.  A listing is collected completely before its first   *)
(* callback.  Names are unique in the tree, so a name stands for its path  *)
(* and, until another client replaces it by a link, for its directory.     *)
(***************************************************************************)
EXTENDS Integers, Sequences, SequencesExt, FiniteSets

CONSTANTS Listing,     \* directory -> sequence of its entries' names
          Elsewhere,   \* the directory a replaced name links to
          Handles,     \* vfsi_fs handles
          Lacking,     \* entries the backend cannot give all attributes of
          Quotas,      \* values of max_entries
          Unlimited,   \* usize::MAX
          MaxOperands, \* operands of a call
          MaxHeld,     \* cursors the application keeps
          Width,       \* directory_page_batch_size
          Cohort,      \* DIRECTORY_COHORT
          PageSize     \* the page bound (256)

Dirs == DOMAIN Listing
Names == Dirs \ {Elsewhere}
NoState == [dir |-> "none", at |-> 0]

VARIABLES linked,    \* names other clients replaced by a link to Elsewhere
          cursor,    \* live vfsi_dir_cursor -> [owner, name, state]
          app,       \* cursors the application owns
          call,      \* the call in progress
          misused    \* ghost: a seed went to a foreign backend, or through a link

vars == <<linked, cursor, app, call, misused>>

Idle == [pc |-> "idle", op |-> "none", fs |-> CHOOSE h \in Handles : TRUE, max |-> 0, names |-> <<>>, pending |-> <<>>,
         rest |-> {}, dirs |-> <<>>, rows |-> <<>>, entries |-> 0, lacks |-> FALSE,
         out |-> <<>>, completion |-> 0, ret |-> "none"]

Init == linked = {} /\ cursor = <<>> /\ app = {} /\ call = Idle /\ misused = FALSE

live == DOMAIN cursor
RowCursors(rows) == {rows[k].child : k \in DOMAIN rows} \ {0}
Free(ids) == cursor' = [c \in live \ ids |-> cursor[c]]

(* The call returns: whatever rows it still holds are dropped.              *)
Finish(c, ret) == [c EXCEPT !.pc = "returned", !.ret = ret, !.rows = <<>>, !.pending = <<>>, !.rest = {}]
Return(c, ret) == call' = Finish(c, ret) /\ Free(RowCursors(call.rows))

(* ListingBudget: what may still be asked for, and the charge of a row.     *)
Probe(max, entries) == (IF entries > max THEN 0 ELSE max - entries) + 1
Over(max, entries, copies) == entries + copies > max

(* Another client replaces a directory by a link to Elsewhere (external).   *)
Replace == \E n \in Names : linked' = linked \cup {n} /\ UNCHANGED <<cursor, app, call, misused>>

Resolve(n) == IF n \in linked THEN Elsewhere ELSE n

(* A backend that streams entries stops after `probe` of them; zero is no   *)
(* bound (external).                                                        *)
Stream(s, probe) == IF probe = 0 \/ probe >= Len(s) THEN s ELSE SubSeq(s, 1, probe)

-----------------------------------------------------------------------------
(* vfsi_listdirs.  Duplicate operands are one directory of the backend.     *)
Copies(names, n) == Cardinality({i \in DOMAIN names : names[i] = n})
Start(op, h, max, names) ==
    [Idle EXCEPT !.op = op, !.pc = op, !.fs = h, !.max = max, !.names = names,
                 !.dirs = [i \in DOMAIN names |-> "none"]]

Listdirs(h, max, names) ==
    /\ call.pc = "idle"
    /\ call' = [Start("many", h, max, names) EXCEPT !.rest = {names[i] : i \in DOMAIN names}]
    /\ UNCHANGED <<linked, cursor, app, misused>>

(* Entries of the stream the quota admits.                                  *)
Admitted(c, s) ==
    LET fits == {k \in 0..Len(s) :
                    ~Over(c.max, c.entries, FoldSeq(LAMBDA e, n : n + Copies(c.names, e[1]), 0, SubSeq(s, 1, k)))}
    IN  SubSeq(s, 1, CHOOSE k \in fits : \A j \in fits : j <= k)

(* Rows kept for delivery: one per operand that names the directory; none   *)
(* after the first entry that lacks an attribute.                           *)
Indices(names, n) == SetToSortSeq({i \in DOMAIN names : names[i] = n}, <)
RowsOf(names, e) == [k \in DOMAIN Indices(names, e[1]) |->
                        [index |-> Indices(names, e[1])[k], name |-> e[2], child |-> 0]]
Project(c, s) ==
    LET bad == {k \in DOMAIN s : s[k][2] \in Lacking}
        good == IF bad = {} THEN s ELSE SubSeq(s, 1, (CHOOSE k \in bad : \A j \in bad : k <= j) - 1)
    IN  [c EXCEPT !.lacks = @ \/ bad # {},
                  !.rows = IF c.lacks THEN @ ELSE @ \o FlattenSeq([k \in DOMAIN good |-> RowsOf(c.names, good[k])]),
                  !.entries = @ + FoldSeq(LAMBDA e, n : n + Copies(c.names, e[1]), 0, s)]

Entries(cohort) == FlattenSeq([k \in DOMAIN cohort |->
                        LET l == Listing[Resolve(cohort[k])] IN [j \in DOMAIN l |-> <<cohort[k], l[j]>>]])

(* What the collected listing answers: a backend error, then the quota,     *)
(* then an entry that could not be projected; else delivery starts.         *)
Answer(c, failed, overflow) ==
    IF failed THEN "EIO" ELSE IF overflow THEN "EFBIG" ELSE IF c.lacks THEN "ENOTSUP" ELSE "ok"
Deliver(c, answer) == IF answer = "ok" THEN [c EXCEPT !.pc = "deliver", !.completion = 1] ELSE Finish(c, answer)

(* One cohort of vfsi_listdirs: the backend may fail after any entry.       *)
Snapshot ==
    /\ call.pc = "many"
    /\ \E cohort \in {s \in SeqOf(call.rest, Cohort) : IsInjective(s) /\ Len(s) \in {Cohort, Cardinality(call.rest)}} :
         \E failed \in BOOLEAN, cut \in 0..Len(Entries(cohort)) :
            /\ cohort # <<>>
            /\ failed \/ cut = Len(Entries(cohort))
            /\ LET s == Stream(SubSeq(Entries(cohort), 1, cut), Probe(call.max, call.entries))
                   taken == Admitted(call, s)
                   c == [Project(call, taken) EXCEPT
                            !.rest = @ \ ToSet(cohort),
                            !.dirs = [i \in DOMAIN @ |-> IF call.names[i] \in ToSet(cohort)
                                                         THEN Resolve(call.names[i]) ELSE @[i]]]
                   stopped == Len(taken) < Len(s)
               IN  call' = IF (failed /\ ~stopped) \/ stopped \/ c.rest = {}
                           THEN Deliver(c, Answer(c, failed /\ ~stopped, stopped)) ELSE c
    /\ UNCHANGED <<linked, cursor, app, misused>>

(* vfsi_listdir_with_limits: bounded_listdir, collect_bounded_entries.      *)
OneProbe(max) == IF max = Unlimited THEN 0 ELSE Probe(max, 0)
ListdirWithLimits(h, max, name) ==
    /\ call.pc = "idle"
    /\ \E failed \in BOOLEAN, cut \in 0..Len(Listing[Resolve(name)]) :
         /\ failed \/ cut = Len(Listing[Resolve(name)])
         /\ LET s == Stream(SubSeq(Entries(<<name>>), 1, cut), OneProbe(max))
                c0 == [Start("one", h, max, <<name>>) EXCEPT !.dirs = <<Resolve(name)>>]
                taken == Admitted(c0, s)
                c == Project(c0, taken)
                stopped == Len(taken) < Len(s)
            IN  call' = Deliver(c, Answer(c, failed /\ ~stopped, stopped))
    /\ UNCHANGED <<linked, cursor, app, misused>>

(* vfsi_listdirv: one backend call for all operands, duplicates included,   *)
(* cut off at `max` entries; with `recursive` a directory is followed by    *)
(* those below it.  A row goes by the last operand that spells its          *)
(* directory, or by none (0) below the operands.                            *)
Under[d \in Dirs] ==
    LET kids == SelectSeq(Listing[d], LAMBDA e : e \in Dirs \ linked)
    IN  <<d>> \o FlattenSeq([k \in DOMAIN kids |-> Under[kids[k]]])
TreeEntries(name, recursive) ==
    LET dirs == IF recursive THEN Under[Resolve(name)] ELSE <<Resolve(name)>>
    IN  FlattenSeq([k \in DOMAIN dirs |-> [j \in DOMAIN Listing[dirs[k]] |->
            <<IF k = 1 THEN name ELSE dirs[k], Listing[dirs[k]][j]>>]])
LastIndex(names, n) ==
    LET at == {i \in DOMAIN names : names[i] = n}
    IN  IF at = {} THEN 0 ELSE CHOOSE i \in at : \A j \in at : j <= i
Listdirv(h, max, recursive, names) ==
    /\ call.pc = "idle"
    /\ LET all == FlattenSeq([i \in DOMAIN names |-> TreeEntries(names[i], recursive)])
           s == Stream(all, max)
           c == [Start("vector", h, max, names) EXCEPT
                   !.entries = Len(all),
                   !.dirs = [i \in DOMAIN names |-> Resolve(names[i])],
                   !.lacks = \E k \in DOMAIN s : s[k][2] \in Lacking,
                   !.rows = [k \in DOMAIN s |->
                       [index |-> LastIndex(names, s[k][1]), name |-> s[k][2], child |-> 0]]]
       IN  \E failed \in BOOLEAN : call' = Deliver(c, Answer(c, failed, FALSE))
    /\ UNCHANGED <<linked, cursor, app, misused>>

-----------------------------------------------------------------------------
(* vfsi_listdirs_from_cursors: validation first.                            *)
Valid(h, names, slots) ==
    /\ \A i, j \in DOMAIN slots : (slots[i] # 0 /\ slots[i] = slots[j]) => i = j
    /\ \A i \in DOMAIN slots : slots[i] # 0 => (cursor[slots[i]].owner = h /\ cursor[slots[i]].name = names[i])

(* Then every slot is consumed, whatever the listing answers later.         *)
Consumed(slots) == ToSet(slots) \ {0}
FromCursors(h, max, names, slots) ==
    /\ call.pc = "idle"
    /\ IF Valid(h, names, slots)
       THEN /\ call' = [Start("pages", h, max, names) EXCEPT
                          !.pending = [i \in DOMAIN names |->
                              [index |-> i, follow |-> slots[i] = 0,
                               state |-> IF slots[i] = 0 THEN NoState ELSE cursor[slots[i]].state]]]
            /\ app' = app \ Consumed(slots)
            /\ misused' = (misused \/ \E i \in DOMAIN slots : slots[i] # 0 /\ cursor[slots[i]].owner # h)
            /\ Free(Consumed(slots))
       ELSE call' = [Start("pages", h, max, names) EXCEPT !.pc = "returned", !.ret = "EINVAL"]
            /\ UNCHANGED <<cursor, app, misused>>
    /\ UNCHANGED linked

(* The operands of the next wave: fresh roots and child seeds never share   *)
(* one, because a wave follows links for all its paths or for none.         *)
WaveLength(pending) ==
    LET same == {n \in 1..Len(pending) : n <= Width /\ \A k \in 1..n : pending[k].follow = pending[1].follow}
    IN  CHOOSE n \in same : \A k \in same : k <= n

(* The directory an operand of a wave is read from (external): the one its  *)
(* state holds, else its path; "none" when a link may not be followed.      *)
Opened(p, name, follow) ==
    IF p.state # NoState THEN p.state.dir
    ELSE IF name \in linked /\ ~follow THEN "none" ELSE Resolve(name)

Min2(a, b) == IF a < b THEN a ELSE b
(* New cursors for the directories among the rows, with numbers not in use. *)
FreshIds(n) == SetToSortSeq(CHOOSE S \in SUBSET ((1..(MaxHeld + 8)) \ live) : Cardinality(S) = n, <)

(* One wave of pages.  The page of an operand holds sizes[k] entries, at    *)
(* most the page bound, and none only at the end of the directory.          *)
Wave ==
    /\ call.pc = "pages"
    /\ LET n == WaveLength(call.pending)
           follow == call.pending[1].follow
           wave == SubSeq(call.pending, 1, n)
           page == Min2(PageSize, Probe(call.max, call.entries))
           name(k) == call.names[wave[k].index]
           dir(k) == Opened(wave[k], name(k), follow)
           left(k) == Len(Listing[dir(k)]) - wave[k].state.at
       IN  \/ Return(call, "EIO") /\ UNCHANGED misused
           \/ /\ \A k \in 1..n : dir(k) # "none"
              /\ \E sizes \in [1..n -> 0..page], native \in BOOLEAN :
                   /\ \A k \in 1..n : sizes[k] <= left(k) /\ (sizes[k] = 0 => left(k) = 0)
                   /\ LET rows == FlattenSeq([k \in 1..n |-> [j \in 1..sizes[k] |->
                                     [index |-> wave[k].index, name |-> Listing[dir(k)][wave[k].state.at + j]]]])
                          bad == {k \in DOMAIN rows : Over(call.max, call.entries, k) \/ rows[k].name \in Lacking}
                          first == CHOOSE k \in bad : \A j \in bad : k <= j
                          kids == SelectSeq([k \in DOMAIN rows |-> k], LAMBDA k : rows[k].name \in Dirs)
                          ids == FreshIds(Len(kids))
                          more == SelectSeq([k \in 1..n |->
                                    [index |-> wave[k].index, follow |-> wave[k].follow,
                                     state |-> [dir |-> dir(k), at |-> wave[k].state.at + sizes[k]]]],
                                    LAMBDA p : p.state.at < Len(Listing[p.state.dir]))
                          c == [call EXCEPT
                                  !.pending = SubSeq(@, n + 1, Len(@)) \o more,
                                  !.entries = @ + Len(rows),
                                  !.dirs = [i \in DOMAIN @ |-> IF \E k \in 1..n : wave[k].index = i
                                              THEN dir(CHOOSE k \in 1..n : wave[k].index = i) ELSE @[i]],
                                  !.rows = @ \o [k \in DOMAIN rows |->
                                      [index |-> rows[k].index, name |-> rows[k].name,
                                       child |-> IF \E j \in DOMAIN kids : kids[j] = k
                                                 THEN ids[CHOOSE j \in DOMAIN kids : kids[j] = k] ELSE 0]]]
                      IN  /\ misused' = (misused \/ \E k \in 1..n :
                                    wave[k].state = NoState /\ ~wave[k].follow /\ name(k) \in linked)
                          /\ IF bad # {}
                             THEN Return([call EXCEPT !.dirs = c.dirs], IF Over(call.max, call.entries, first) THEN "EFBIG" ELSE "ENOTSUP")
                             ELSE /\ call' = IF c.pending = <<>> THEN Deliver(c, "ok") ELSE c
                                  /\ cursor' = [i \in live \cup ToSet(ids) |->
                                        IF i \in live THEN cursor[i]
                                        ELSE [owner |-> call.fs,
                                              name |-> rows[kids[CHOOSE j \in DOMAIN ids : ids[j] = i]].name,
                                              state |-> IF native
                                                        THEN [dir |-> rows[kids[CHOOSE j \in DOMAIN ids : ids[j] = i]].name, at |-> 0]
                                                        ELSE NoState]]
    /\ UNCHANGED <<linked, app>>

-----------------------------------------------------------------------------
(* deliver_listing: the callback owns the child it is given, also when it   *)
(* stops the delivery; it keeps it or frees it.                             *)
Undelivered(rows) == RowCursors(Tail(rows))
Callback(stop, keep) ==
    /\ call.pc = "deliver" /\ call.rows # <<>>
    /\ keep => (call.rows[1].child # 0 /\ Cardinality(app) < MaxHeld)
    /\ app' = IF keep THEN app \cup {call.rows[1].child} ELSE app
    /\ Free((IF keep THEN {} ELSE {call.rows[1].child}) \cup (IF stop THEN Undelivered(call.rows) ELSE {}))
    /\ LET c == [call EXCEPT !.out = Append(@, <<call.rows[1].index, call.rows[1].name>>), !.rows = Tail(@)]
       IN  call' = IF stop THEN [Finish(c, "ok") EXCEPT !.completion = 2] ELSE c
    /\ UNCHANGED <<linked, misused>>

Delivered ==
    /\ call.pc = "deliver" /\ call.rows = <<>>
    /\ call' = Finish(call, "ok")
    /\ UNCHANGED <<linked, cursor, app, misused>>

(* The application has read the results and may call again.                 *)
Forget == call.pc = "returned" /\ call' = Idle /\ UNCHANGED <<linked, cursor, app, misused>>

(* vfsi_dir_cursor_free                                                     *)
DirCursorFree ==
    \E c \in app : call.pc = "idle" /\ app' = app \ {c} /\ Free({c}) /\ UNCHANGED <<linked, call, misused>>

Operands == UNION {[1..n -> Names] : n \in 1..MaxOperands}

Next ==
    \/ Replace \/ Snapshot \/ Wave \/ Delivered \/ Forget \/ DirCursorFree
    \/ \E stop, keep \in BOOLEAN : Callback(stop, keep)
    \/ \E h \in Handles, max \in Quotas :
         \/ \E names \in Operands :
              \/ Listdirs(h, max, names)
              \/ \E recursive \in BOOLEAN : Listdirv(h, max, recursive, names)
              \/ \E slots \in [DOMAIN names -> app \cup {0}] : FromCursors(h, max, names, slots)
         \/ \E n \in Names : ListdirWithLimits(h, max, n)

Spec == Init /\ [][Next]_vars

-----------------------------------------------------------------------------
TypeOK == app \subseteq live /\ linked \subseteq Names /\ call.ret \in {"none", "ok", "EIO", "EFBIG", "ENOTSUP", "EINVAL"}

(* Every cursor allocated and not yet freed belongs to the application or   *)
(* to the rows of the call in progress, never to both and never to nobody:  *)
(* a rejected call leaves the slots, an accepted one consumes them all even *)
(* when the listing fails, and a stopped delivery frees what it drops.      *)
OwnedOnce == live = app \cup RowCursors(call.rows) /\ app \cap RowCursors(call.rows) = {}

Total(c) == FoldSeq(LAMBDA d, n : n + Len(Listing[d]), 0, SelectSeq(c.dirs, LAMBDA d : d # "none"))
Ended(c) == c.pc = "returned"

(* A listing that answers with an error delivered nothing, so the caller    *)
(* may fall back to another way of listing without mixing the two.          *)
AllOrNothing == (Ended(call) /\ call.ret # "ok") => call.out = <<>>

(* The quota counts every delivered row, duplicates included: a listing     *)
(* that fits exactly is complete, EFBIG is answered only when there is      *)
(* more, and an entry without its attributes never hides an overflow.       *)
QuotaExact ==
    (Ended(call) /\ call.op # "vector") =>
        /\ call.ret = "ok" => (Len(call.out) <= call.max /\ Total(call) <= call.max)
        /\ call.ret = "EFBIG" => Total(call) > call.max
        /\ (call.op \in {"many", "one"} /\ call.ret = "ENOTSUP") => Total(call) <= call.max

(* A completion of 1 says every operand, duplicates included, delivered the *)
(* whole of the directory it was read from, in order and once.              *)
CompleteTrue ==
    (Ended(call) /\ call.completion = 1 /\ call.ret = "ok" /\ call.op # "vector") =>
        \A i \in DOMAIN call.names :
            LET own == SelectSeq(call.out, LAMBDA d : d[1] = i)
            IN  [k \in DOMAIN own |-> own[k][2]] = Listing[call.dirs[i]]

(* A vector that was not stopped delivers everything unless `max` cuts it   *)
(* off, and then exactly `max` rows; an entry of a directory named twice is *)
(* there as often, under one of its operands (vfsi_listdirv).               *)
VectorWhole ==
    (Ended(call) /\ call.completion = 1 /\ call.ret = "ok" /\ call.op = "vector") =>
        /\ Len(call.out) = IF call.max \in 1..call.entries THEN call.max ELSE call.entries
        /\ Len(call.out) = call.entries =>
             \A i \in DOMAIN call.names : \A e \in ToSet(Listing[call.dirs[i]]) :
                Cardinality({k \in DOMAIN call.out : call.out[k] = <<LastIndex(call.names, call.names[i]), e>>})
                  >= Copies(call.names, call.names[i])

(* A child seed is read by the filesystem it came from and never through a  *)
(* link that took the place of its directory.                               *)
SeedsStayHome == ~misused

-----------------------------------------------------------------------------
(***************************************************************************)
(* The event walk of crates/vfsi-core/src/api/traversal.rs and the two     *)
(* callers that dress it up: vfsi_walk of the C bindings shows its events  *)
(* as they are, and the buffered listing of api/listdir.rs hides the root  *)
(* or turns Enter into Entry, excludes the root from the budget, and does  *)
(* the depth limit itself.  The visitor answers every event it is shown    *)
(* with "continue", "skip" or "stop", or fails.  Names are numbers, ordered *)
(* like file names; the budget of path bytes is left out.                  *)
(***************************************************************************)

CONSTANTS Tree,       \* directory -> sequence of its entries, as the backend lists them
          Roots,      \* names a walk may start at
          Budgets,    \* values of max_entries
          Depths      \* values of max_depth

VARIABLES opts,       \* the call: [how, root, lifecycle, recursive, sort, entries, depth, truncate]
          walkPending,    \* events to come, the next one last
          walkLeft,       \* TraversalBudget: entries
          shown,      \* events the visitor saw
          pruned,     \* ghost: directories it skipped
          read,       \* ghost: directories whose contents were read
          outcome     \* "none", "complete", "stopped" or an error

walkVars == <<opts, walkPending, walkLeft, shown, pruned, read, outcome>>

IsDir(n) == n \in DOMAIN Tree
Events == opts.how = "events"
Event(n, depth) == [kind |-> IF IsDir(n) THEN "Enter" ELSE "Entry", name |-> n, depth |-> depth]

(* vfsi_walk has neither truncation nor a flat form; a listing that shows   *)
(* no Enter and Leave and does not sort is not buffered.                    *)
Options ==
    [how : {"events"}, root : Roots, lifecycle : {TRUE}, recursive : {TRUE}, sort : BOOLEAN,
     entries : Budgets, depth : Depths, truncate : {FALSE}]
    \cup {o \in [how : {"listing"}, root : Roots, lifecycle : BOOLEAN, recursive : BOOLEAN, sort : BOOLEAN,
                 entries : Budgets, depth : Depths, truncate : BOOLEAN] : o.lifecycle \/ o.sort}

(* The budget walk_events is given, before it charges the root.             *)
Granted(o) == IF o.how = "listing" /\ ~o.lifecycle THEN o.entries + 1 ELSE o.entries

WalkInit ==
    /\ opts \in Options
    /\ shown = <<>> /\ pruned = {} /\ read = {}
    /\ walkPending = <<Event(opts.root, 0)>>
    /\ walkLeft = Granted(opts) - 1
    /\ outcome = IF ~Events /\ ~opts.lifecycle /\ ~IsDir(opts.root) THEN "ENOTDIR"
                 ELSE IF Granted(opts) = 0 THEN "EFBIG" ELSE "none"

(* The event as the visitor sees it, or nothing.                            *)
Dressed(e) ==
    CASE Events -> <<e>>
      [] ~Events /\ e.kind = "Leave" -> IF opts.lifecycle /\ (opts.recursive \/ e.depth = 0) THEN <<e>> ELSE <<>>
      [] ~Events /\ e.kind = "Enter" /\ e.depth = 0 -> IF opts.lifecycle THEN <<e>> ELSE <<>>
      [] OTHER -> IF opts.lifecycle /\ opts.recursive THEN <<e>> ELSE <<[e EXCEPT !.kind = "Entry"]>>

(* What the wrapper of the listing makes of the visitor's answer.           *)
Decision(e, answer) ==
    CASE Events \/ answer \in {"stop", "fail"} \/ e.kind # "Enter" \/ e.depth = 0 -> answer
      [] opts.recursive /\ ~opts.lifecycle /\ answer = "skip" -> "EINVAL"
      [] ~opts.recursive \/ answer = "skip" -> "skip"
      [] e.depth > opts.depth -> IF opts.truncate THEN "skip" ELSE "EFBIG"
      [] OTHER -> answer

(* The depth limit of walk_events; a listing switches it off.               *)
TooDeep(e) == Events /\ e.depth > opts.depth

Sorted(s) == IF opts.sort THEN SortSeq(s, <) ELSE s

End(how) == outcome' = how /\ UNCHANGED <<walkPending, walkLeft, read>>

(* The contents of a directory come before its Leave; nothing of them is    *)
(* read unless all of it fits the budget.                                   *)
Descend(e) ==
    LET kids == Sorted(Tree[e.name])
    IN  IF Len(kids) > walkLeft THEN End("EFBIG")
        ELSE /\ walkLeft' = walkLeft - Len(kids) /\ read' = read \cup {e.name}
             /\ walkPending' = Append(Front(walkPending), [e EXCEPT !.kind = "Leave"])
                             \o Reverse([k \in DOMAIN kids |-> Event(kids[k], e.depth + 1)])
             /\ UNCHANGED outcome

(* One turn of the loop of walk_events.                                     *)
Turn(answer) ==
    /\ outcome = "none" /\ walkPending # <<>>
    /\ LET e == Last(walkPending)
           d == Decision(e, answer)
       IN  /\ Dressed(e) = <<>> => answer = "continue"
           /\ shown' = shown \o Dressed(e)
           /\ pruned' = IF answer = "skip" /\ e.kind = "Enter" THEN pruned \cup {e.name} ELSE pruned
           /\ IF d \in {"stop", "fail", "EINVAL", "EFBIG"} THEN End(IF d = "stop" THEN "stopped" ELSE d)
              ELSE IF e.kind # "Enter" THEN walkPending' = Front(walkPending) /\ UNCHANGED <<walkLeft, read, outcome>>
              ELSE IF d = "skip"
              THEN /\ walkPending' = Append(Front(walkPending), [e EXCEPT !.kind = "Leave"])
                   /\ UNCHANGED <<walkLeft, read, outcome>>
              ELSE IF TooDeep(e) THEN End("EFBIG")
              ELSE Descend(e) \/ End("EIO")
    /\ UNCHANGED opts

Finished ==
    /\ outcome = "none" /\ walkPending = <<>>
    /\ outcome' = "complete"
    /\ UNCHANGED <<opts, walkPending, walkLeft, shown, pruned, read>>

WalkNext == Finished \/ \E answer \in {"continue", "skip", "stop", "fail"} : Turn(answer)
WalkSpec == WalkInit /\ [][WalkNext]_walkVars

-----------------------------------------------------------------------------
(* The names below d.                                                       *)
Below[d \in DOMAIN Tree] ==
    ToSet(Tree[d]) \cup UNION {Below[k] : k \in ToSet(Tree[d]) \cap DOMAIN Tree}

(* Enter and Leave surround what is shown of a directory, and only that;    *)
(* a walk that completes has left every directory it entered.               *)
Nested ==
    /\ \A j \in DOMAIN shown : shown[j].kind = "Leave" =>
         \E i \in 1..(j - 1) : /\ shown[i].kind = "Enter" /\ shown[i].name = shown[j].name
                               /\ \A k \in (i + 1)..(j - 1) : shown[k].name \in Below[shown[j].name]
                               /\ \A k \in (1..(i - 1)) \cup ((j + 1)..Len(shown)) :
                                    shown[k].name \notin Below[shown[j].name]
    /\ outcome = "complete" /\ opts.lifecycle /\ opts.recursive =>
         \A i \in DOMAIN shown : shown[i].kind = "Enter" =>
           \E j \in DOMAIN shown : shown[j].kind = "Leave" /\ shown[j].name = shown[i].name

(* "Pruning never reads the directory's contents."                          *)
PrunedUnread == pruned \cap read = {}

(* A walk that completes showed the entries of every directory it read      *)
(* once, in order if asked to, and read every directory that was neither    *)
(* skipped nor cut off.                                                     *)
ShownOnce ==
    outcome = "complete" =>
        LET own == SelectSeq(shown, LAMBDA e : e.kind # "Leave")
            all == UNION {ToSet(Tree[d]) : d \in read}
        IN  /\ {own[k].name : k \in DOMAIN own} \ {opts.root} = all
            /\ \A i, j \in DOMAIN own : own[i].name = own[j].name => i = j
            /\ opts.sort => \A i, j \in DOMAIN own : \A d \in read :
                 ({own[i].name, own[j].name} \subseteq ToSet(Tree[d]) /\ i < j) => own[i].name < own[j].name
            /\ opts.recursive /\ ~opts.truncate => all \cap DOMAIN Tree \subseteq read \cup pruned

(* The budget is exact: what completes fits, the root counted only where it *)
(* is shown, and EFBIG is answered only when the next directory does not    *)
(* fit or is too deep.                                                      *)
BudgetExact ==
    LET fetched == Cardinality(UNION {ToSet(Tree[d]) : d \in read}) + IF opts.lifecycle THEN 1 ELSE 0
    IN  /\ outcome = "complete" => fetched <= opts.entries
        /\ outcome = "EFBIG" /\ shown # <<>> =>
             LET e == Last(walkPending)
             IN  e.depth > opts.depth \/ fetched + Len(Tree[e.name]) > opts.entries
=============================================================================
