---------------------------- MODULE TreeTransfer ----------------------------
(***************************************************************************)
(* copy_items, copy_tree and move_items (crates/vnfs/src/helpers/          *)
(* transfer.rs) over a Vfsi client.  A namespace maps paths to object      *)
(* identities (0: nothing there) and identities to [kind, data]; data of a *)
(* file is a token, Partial while a copy is incomplete.  Source trees and  *)
(* destinations are quiescent, as the helper requires; what is hard is     *)
(* that a vector call may fail with a prefix done.                         *)
(***************************************************************************)
EXTENDS Integers, Sequences, FiniteSets, SequencesExt, FiniteSetsExt

CONSTANTS
  Cases,       \* namespaces and options to start from (MC module)
  MaxFaults,   \* bound: calls that fail in the middle
  BatchSize    \* options.batch_size

Partial == 0
Missing == 0

VARIABLES
  case, fs, objects,
  phase,     \* container, batch, rename, reconcile, copy, delete, end
  roots,     \* tasks of the operands, from the next batch on
  renames,   \* tasks of this batch handed to vrename
  copies,    \* tasks of this batch to copy
  cohorts,   \* groups of tasks copied one after the other
  pages,     \* groups of tasks still to dispatch
  pending,   \* directories still to list
  files,     \* files of the dispatched group
  ready,     \* files whose destination is reserved: being copied
  skipped,   \* operands with entries left out
  renamed, removed, stopped, out, faults

work == <<roots, renames, copies, cohorts, pages, pending, files, ready>>
vars == <<case, fs, objects, phase, work, skipped, renamed, removed, stopped,
          out, faults>>
----------------------------------------------------------------------------
Kind(path) == IF fs[path] = Missing THEN "none" ELSE objects[fs[path]].kind
Container == case.to
Child(dir, path) == Append(dir, Last(path))

\* roots(): where an operand goes.
Target(path) ==
  IF case.exact \/ (case.layout = "contents" /\ case.kindOf[path] # "file")
    THEN Container ELSE Child(Container, path)

Task(root, src, dst, depth, fresh) ==
  [root |-> root, src |-> src, dst |-> dst, depth |-> depth, fresh |-> fresh,
   kind |-> case.kindOf[src], id |-> case.fs[src],
   data |-> case.objects[case.fs[src]].data]

Init ==
  /\ case \in Cases
  /\ fs = case.fs /\ objects = case.objects
  /\ phase = "container"
  /\ roots = [i \in DOMAIN case.roots |->
                Task(i, case.roots[i], Target(case.roots[i]), 0, FALSE)]
  /\ renames = <<>> /\ copies = <<>> /\ cohorts = <<>> /\ pages = <<>>
  /\ pending = <<>> /\ files = <<>> /\ ready = <<>>
  /\ skipped = {} /\ renamed = 0 /\ removed = 0 /\ stopped = FALSE
  /\ out = "running" /\ faults = 0

Fresh(n) == CHOOSE k \in 1 .. Cardinality(DOMAIN objects) :
              Cardinality({j \in 1 .. k : objects[j].kind = "none"}) = n
              /\ objects[k].kind = "none"

\* Objects of a kind created at the paths of a sequence.
CreatedIn(space, paths, kind) ==
  /\ fs' = [p \in DOMAIN fs |->
              IF \E i \in DOMAIN paths : paths[i] = p
                THEN Fresh(CHOOSE i \in DOMAIN paths : paths[i] = p) ELSE space[p]]
  /\ objects' = [o \in DOMAIN objects |->
                   IF \E i \in DOMAIN paths : Fresh(i) = o
                     THEN [kind |-> kind, data |-> Partial] ELSE objects[o]]
Created(paths, kind) == CreatedIn(fs, paths, kind)

\* A vector call on n operands of which `bad' are refused: how many it may
\* have completed when it fails for another reason or its reply is lost.
Partway(n, bad) ==
  IF bad = {} THEN 0 .. n ELSE 0 .. Min(bad) - 1
Fault == faults < MaxFaults /\ faults' = faults + 1

Fail(error) ==
  /\ out' = error /\ phase' = "end"
  /\ UNCHANGED <<work, skipped, renamed, removed, stopped>>
----------------------------------------------------------------------------
(* ensure_dirs *)

\* vmkdir of all; after EEXIST each object is looked at again.
MkdirPaths(tasks) == [i \in DOMAIN tasks |-> tasks[i].dst]
Existing(tasks) == {i \in DOMAIN tasks : fs[tasks[i].dst] # Missing}
NotDirs(tasks) == {i \in DOMAIN tasks : Kind(tasks[i].dst) \notin {"dir", "none"}}
Absent(tasks) == SelectSeq(tasks, LAMBDA t : fs[t.dst] = Missing)

\* The tasks as ensure_dirs leaves them: `fresh' when this call created all of
\* them, or when the reconciliation had to create this one.
Refreshed(tasks) ==
  [i \in DOMAIN tasks |-> [tasks[i] EXCEPT !.fresh =
     Existing(tasks) = {}
     \/ (fs[tasks[i].dst] = Missing /\ i > Min(Existing(tasks)))]]
----------------------------------------------------------------------------
(* run, move_run: the container *)

CanRename == /\ case.op = "move" /\ case.layout = "container"
             /\ case.existing = "replace" /\ ~case.progress /\ ~case.truncate

Batches == IF case.op = "move" /\ case.layout = "contents" THEN 1 ELSE BatchSize

MakeContainer ==
  /\ phase = "container"
  /\ IF ~case.skipSpecial /\ \E i \in DOMAIN roots : roots[i].kind = "special"
       THEN out' = "unsupported" /\ phase' = "end" /\ UNCHANGED <<fs, objects, roots>>
     ELSE IF case.exact THEN phase' = "batch" /\ UNCHANGED <<fs, objects, roots, out>>
     ELSE LET kind == Kind(Container)
          IN  /\ IF kind \notin {"none", "dir"}
                   THEN out' = "invalid" /\ phase' = "end"
                   ELSE phase' = "batch" /\ UNCHANGED out
              /\ IF kind = "none" THEN Created(<<Container>>, "dir")
                 ELSE UNCHANGED <<fs, objects>>
              /\ roots' = [i \in DOMAIN roots |->
                             [roots[i] EXCEPT !.fresh = kind = "none"]]
  /\ UNCHANGED <<case, renames, copies, cohorts, pages, pending, files, ready,
                 skipped, renamed, removed, stopped, faults>>

\* copy_roots: in Contents layout only distinct regular files go together, and
\* what follows finds earlier output in the container.
RECURSIVE Grouped(_, _)
Grouped(tasks, group) ==
  IF tasks = <<>> THEN IF group = <<>> THEN <<>> ELSE <<group>>
  ELSE LET t == Head(tasks)
       IN  IF group = <<>>
                \/ (/\ t.kind = "file" /\ \A i \in DOMAIN group :
                         group[i].kind = "file" /\ group[i].dst # t.dst)
             THEN Grouped(Tail(tasks), Append(group, t))
             ELSE <<group>> \o Grouped(tasks, <<>>)

Stale(group) == [i \in DOMAIN group |-> [group[i] EXCEPT !.fresh = FALSE]]

Cohorts(tasks) ==
  IF tasks = <<>> THEN <<>>
  ELSE IF case.layout # "contents" \/ Len(tasks) < 2 THEN <<tasks>>
  ELSE LET groups == Grouped(tasks, <<>>)
       IN  [i \in DOMAIN groups |-> IF i = 1 THEN groups[i] ELSE Stale(groups[i])]

StartBatch ==
  /\ phase = "batch"
  /\ IF roots = <<>>
       THEN /\ out' = "ok" /\ phase' = "end"
            /\ UNCHANGED <<work, skipped>>
       ELSE LET n == IF case.op = "move" THEN Min({Batches, Len(roots)})
                     ELSE Len(roots)
                batch == SubSeq(roots, 1, n)
                plain == IF case.op # "move" THEN batch
                         ELSE SelectSeq(batch, LAMBDA t : t.kind # "special")
            IN  /\ roots' = SubSeq(roots, n + 1, Len(roots))
                /\ renames' = IF CanRename THEN plain ELSE <<>>
                /\ copies' = IF CanRename THEN <<>> ELSE plain
                /\ cohorts' = Cohorts(copies')
                /\ skipped' = {}
                /\ phase' = IF renames' # <<>> THEN "rename" ELSE "copy"
                /\ UNCHANGED <<pages, pending, files, ready, out>>
  /\ UNCHANGED <<case, fs, objects, renamed, removed, stopped, faults>>
----------------------------------------------------------------------------
(* vrename(NoReplace) and reconcile_renames *)

Below(dir, path) == Len(path) >= Len(dir) /\ SubSeq(path, 1, Len(dir)) = dir
Moved(src, dst, path) == dst \o SubSeq(path, Len(src) + 1, Len(path))

RenamedFs(tasks) ==
  [p \in DOMAIN fs |->
     IF \E i \in DOMAIN tasks : Below(tasks[i].src, p) THEN Missing
     ELSE IF \E i \in DOMAIN tasks : Below(tasks[i].dst, p)
       THEN LET i == CHOOSE j \in DOMAIN tasks : Below(tasks[j].dst, p)
                q == Moved(tasks[i].dst, tasks[i].src, p)
            IN  IF q \in DOMAIN fs THEN fs[q] ELSE Missing
     ELSE fs[p]]

\* Operands the server refuses: EEXIST, and those that cross devices.
RenameBad == {i \in DOMAIN renames :
                fs[renames[i].dst] # Missing \/ renames[i].src \in case.crossing}

Rename ==
  /\ phase = "rename"
  /\ \/ /\ RenameBad = {}
        /\ fs' = RenamedFs(renames)
        /\ renamed' = renamed + Len(renames)
        /\ renames' = <<>> /\ phase' = "copy" /\ UNCHANGED <<out, faults>>
     \/ /\ RenameBad # {}
        /\ fs' = RenamedFs(SubSeq(renames, 1, Min(RenameBad) - 1))
        /\ phase' = "reconcile" /\ UNCHANGED <<renames, renamed, out, faults>>
     \/ /\ Fault                     \* refused for another reason, or lost
        /\ \E n \in Partway(Len(renames), RenameBad) :
             fs' = RenamedFs(SubSeq(renames, 1, n))
        /\ \/ phase' = "reconcile" /\ UNCHANGED out
           \/ phase' = "end" /\ out' = "transport"
        /\ UNCHANGED <<renames, renamed>>
  /\ UNCHANGED <<case, objects, roots, copies, cohorts, pages, pending, files,
                 ready, skipped, removed, stopped>>

\* same_file: both identities known and equal.
SameFile(task, path) == fs[path] = task.id

\* What one operand of the failed call turns out to be.
Untouched(t) == SameFile(t, t.src) /\ ~SameFile(t, t.dst)
WasRenamed(t) == fs[t.src] = Missing /\ SameFile(t, t.dst)
CountRenamed(tasks) == Len(SelectSeq(tasks, WasRenamed))

Reconcile ==
  /\ phase = "reconcile"
  /\ IF \A i \in DOMAIN renames : Untouched(renames[i]) \/ WasRenamed(renames[i])
       THEN LET rest == SelectSeq(renames, Untouched)
            IN  /\ renamed' = renamed + CountRenamed(renames)
                /\ copies' = rest /\ cohorts' = Cohorts(rest)
                /\ renames' = <<>>
                /\ phase' = "copy" /\ UNCHANGED out
       ELSE /\ out' = "rename" /\ phase' = "end"
            /\ UNCHANGED <<renamed, copies, cohorts, renames>>
  /\ UNCHANGED <<case, fs, objects, roots, pages, pending, files, ready, skipped,
                 removed, stopped, faults>>

\* The error does not permit a copy instead.
ReconcileFails ==
  /\ phase = "reconcile" /\ faults > 0
  /\ Fail("rename")
  /\ UNCHANGED <<case, fs, objects, faults>>
----------------------------------------------------------------------------
(* copy_independent_roots, dispatch *)

Idle == pages = <<>> /\ files = <<>> /\ ready = <<>>

Chunks(tasks) ==
  [i \in 1 .. (Len(tasks) + BatchSize - 1) \div BatchSize |->
     SubSeq(tasks, (i - 1) * BatchSize + 1, Min({i * BatchSize, Len(tasks)}))]

NextCohort ==
  /\ phase = "copy" /\ Idle /\ pending = <<>>
  /\ IF cohorts = <<>>
       THEN phase' = (IF case.op = "move" THEN "delete" ELSE "batch")
            /\ UNCHANGED <<cohorts, pages>>
       ELSE /\ pages' = Chunks(Head(cohorts))
            /\ cohorts' = Tail(cohorts) /\ UNCHANGED phase
  /\ UNCHANGED <<case, fs, objects, roots, renames, copies, pending, files, ready,
                 skipped, renamed, removed, stopped, out, faults>>

Entries(task) ==
  LET found == {p \in DOMAIN fs : fs[p] # Missing /\ Len(p) = Len(task.src) + 1
                                  /\ Below(task.src, p)}
      order == SetToSortSeq(found, LAMBDA p, q : case.rank[Last(p)] < case.rank[Last(q)])
  IN  [i \in DOMAIN order |->
         Task(task.root, order[i], Child(task.dst, order[i]), task.depth + 1,
              task.fresh)]
TooDeep(t) == t.kind = "dir" /\ t.depth > case.depth

\* vlistdirs of a wave of directories, a page of children for each.
ListWave ==
  /\ phase = "copy" /\ Idle /\ pending # <<>>
  /\ LET n == Min({BatchSize, Len(pending)})
         wave == SubSeq(pending, Len(pending) - n + 1, Len(pending))
         found == [i \in DOMAIN wave |-> Entries(wave[i])]
         deep == {i \in DOMAIN found : \E j \in DOMAIN found[i] : TooDeep(found[i][j])}
         kept == [i \in DOMAIN found |-> SelectSeq(found[i], LAMBDA t : ~TooDeep(t))]
     IN  \/ deep # {} /\ ~case.truncate /\ Fail("limit") /\ UNCHANGED faults
         \/ /\ deep = {} \/ case.truncate
            /\ pages' = FlattenSeq([i \in DOMAIN kept |-> Chunks(kept[i])])
            /\ pending' = SubSeq(pending, 1, Len(pending) - n)
            /\ skipped' = skipped \cup {wave[i].root : i \in deep}
            /\ UNCHANGED <<phase, roots, renames, copies, cohorts, files, ready,
                           renamed, removed, stopped, out, faults>>
         \/ Fault /\ Fail("transport")
  /\ UNCHANGED <<case, fs, objects>>

DirsOf(tasks) == SelectSeq(tasks, LAMBDA t : t.kind = "dir")
FilesOf(tasks) == SelectSeq(tasks, LAMBDA t : t.kind = "file")
Special(tasks) == {tasks[i].root : i \in {k \in DOMAIN tasks : tasks[k].kind = "special"}}

Dispatch ==
  /\ phase = "copy" /\ pages # <<>> /\ files = <<>> /\ ready = <<>>
  /\ LET page == Head(pages)
         dirs == DirsOf(page)
     IN  IF Special(page) # {} /\ ~case.skipSpecial
           THEN Fail("unsupported") /\ UNCHANGED <<fs, objects, faults>>
         ELSE \/ \* ensure_dirs meets something that is no directory
                 /\ NotDirs(dirs) # {}
                 /\ Created(MkdirPaths(Absent(SubSeq(dirs, 1, Min(NotDirs(dirs)) - 1))), "dir")
                 /\ Fail("invalid") /\ UNCHANGED faults
              \/ /\ NotDirs(dirs) = {}
                 /\ Created(MkdirPaths(Absent(dirs)), "dir")
                 /\ pending' = pending \o Refreshed(dirs)
                 /\ files' = FilesOf(page)
                 /\ skipped' = skipped \cup Special(page)
                 /\ pages' = Tail(pages)
                 /\ \/ UNCHANGED <<phase, stopped, out>>
                    \/ /\ case.progress /\ dirs # <<>>   \* callback: stop
                       /\ stopped' = TRUE /\ phase' = "end" /\ out' = "ok"
                 /\ UNCHANGED <<roots, renames, copies, cohorts, ready, renamed,
                                removed, faults>>
              \/ /\ Fault /\ dirs # <<>>
                 /\ \E n \in Partway(Len(dirs), NotDirs(dirs)) :
                      Created(MkdirPaths(Absent(SubSeq(dirs, 1, n))), "dir")
                 /\ Fail("transport")
  /\ UNCHANGED case
----------------------------------------------------------------------------
(* copy_batch *)

\* Files are taken while their buffers fit: any non-empty number of them.
Some(seq) == {n \in DOMAIN seq : n <= BatchSize}

Replaceable(t) == Kind(t.dst) = "file" /\ ~SameFile(t, t.dst)
Checked(t) == case.existing = "replace" /\ ~t.fresh /\ fs[t.dst] # Missing
Unlinked(tasks) ==
  [p \in DOMAIN fs |->
     IF \E i \in DOMAIN tasks : tasks[i].dst = p /\ Checked(tasks[i])
       THEN Missing ELSE fs[p]]

\* The destinations, created exclusively: with `skip' one by one, else in one
\* call that stops at the first that exists.
Taken(tasks, space) ==
  {i \in DOMAIN tasks : space[tasks[i].dst] # Missing
     \/ \E j \in 1 .. i - 1 : tasks[j].dst = tasks[i].dst}

Reserve ==
  /\ phase = "copy" /\ files # <<>> /\ ready = <<>>
  /\ \E n \in Some(files) :
       LET batch == SubSeq(files, 1, n)
           rest == SubSeq(files, n + 1, Len(files))
           refused == {i \in DOMAIN batch : Checked(batch[i]) /\ ~Replaceable(batch[i])}
           space == Unlinked(batch)
           taken == Taken(batch, space)
           new(k) == [i \in 1 .. k |-> batch[i].dst]
           opened == [i \in 1 .. n - Cardinality(taken) |->
                        batch[CHOOSE k \in DOMAIN batch \ taken :
                                Cardinality((1 .. k) \ taken) = i]]
       IN  \/ /\ refused # {} /\ Fail("invalid") /\ UNCHANGED <<fs, objects, faults>>
           \/ /\ refused = {} /\ (taken = {} \/ case.existing = "skip")
              /\ CreatedIn(space, MkdirPaths(opened), "file")
              /\ ready' = opened /\ files' = rest
              /\ skipped' = skipped \cup {batch[i].root : i \in taken}
              /\ UNCHANGED <<phase, roots, renames, copies, cohorts, pages, pending,
                             renamed, removed, stopped, out, faults>>
           \/ /\ refused = {} /\ taken # {} /\ case.existing # "skip"
              /\ CreatedIn(space, new(Min(taken) - 1), "file")
              /\ Fail("exists") /\ UNCHANGED faults
           \/ \* removing what is there, or reserving the names, fails
              /\ Fault /\ refused = {}
              /\ \/ /\ \E k \in 0 .. n : fs' = Unlinked(SubSeq(batch, 1, k))
                    /\ UNCHANGED objects
                 \/ /\ case.existing # "skip"
                    /\ \E k \in Partway(n, taken) : CreatedIn(space, new(k), "file")
                 \/ /\ case.existing = "skip"
                    /\ \E k \in DOMAIN opened :
                         CreatedIn(space, MkdirPaths(SubSeq(opened, 1, k)), "file")
              /\ Fail("transport")
  /\ UNCHANGED case

\* The data of a file is copied from the source as it is now.
CopiedObjects(tasks) ==
  [o \in DOMAIN objects |->
     IF \E i \in DOMAIN tasks : fs[tasks[i].dst] = o
       THEN LET i == CHOOSE j \in DOMAIN tasks : fs[tasks[j].dst] = o
            IN  [objects[o] EXCEPT !.data = objects[fs[tasks[i].src]].data]
       ELSE objects[o]]

\* Reads and complete writes, wave by wave, then CLOSE; or the native COPY.
CopyFiles ==
  /\ phase = "copy" /\ ready # <<>>
  /\ \/ /\ objects' = CopiedObjects(ready)
        /\ ready' = <<>>
        /\ UNCHANGED <<phase, roots, renames, copies, cohorts, pages, pending, files,
                       skipped, renamed, removed, stopped, out, faults>>
     \/ \* the callback stops after a wave: some files are complete
        /\ case.progress
        /\ \E S \in SUBSET DOMAIN ready :
             objects' = CopiedObjects(SetToSeq({ready[i] : i \in S}))
        /\ stopped' = TRUE /\ phase' = "end" /\ out' = "ok"
        /\ UNCHANGED <<work, skipped, renamed, removed, faults>>
     \/ \* a read, write, attribute change or close fails
        /\ Fault
        /\ \E S \in SUBSET DOMAIN ready :
             objects' = CopiedObjects(SetToSeq({ready[i] : i \in S}))
        /\ Fail("transport")
  /\ UNCHANGED <<case, fs>>
----------------------------------------------------------------------------
(* move_run: the sources of complete roots are removed *)

CompleteIgnoringSkips == copies
Complete == SelectSeq(copies, LAMBDA t : t.root \notin skipped)

Removed(tasks) ==
  [p \in DOMAIN fs |->
     IF \E i \in DOMAIN tasks : Below(tasks[i].src, p) THEN Missing ELSE fs[p]]

Delete ==
  /\ phase = "delete"
  /\ \/ /\ fs' = Removed(Complete)
        /\ removed' = removed + Len(Complete)
        /\ phase' = "batch" /\ UNCHANGED <<out, faults>>
     \/ /\ Fault /\ Complete # <<>>
        /\ \E n \in 0 .. Len(Complete) : fs' = Removed(SubSeq(Complete, 1, n))
        /\ out' = "transport" /\ phase' = "end" /\ UNCHANGED removed
  /\ copies' = <<>>
  /\ UNCHANGED <<case, objects, roots, renames, cohorts, pages, pending, files,
                 ready, skipped, renamed, stopped>>

Next == MakeContainer \/ StartBatch \/ Rename \/ Reconcile \/ ReconcileFails
        \/ NextCohort \/ ListWave \/ Dispatch \/ Reserve \/ CopyFiles \/ Delete
Spec == Init /\ [][Next]_vars
----------------------------------------------------------------------------
(* Properties *)

RootOf(p) == CHOOSE i \in DOMAIN case.roots : Below(case.roots[i], p)
Sources == {p \in DOMAIN case.fs : case.fs[p] # Missing
              /\ \E i \in DOMAIN case.roots : Below(case.roots[i], p)}
DestOf(p) == LET root == case.roots[RootOf(p)] IN Moved(root, Target(root), p)
Rivals(p) == {q \in Sources : case.kindOf[q] = "file" /\ DestOf(q) = DestOf(p)}
DataAt(path) == IF fs[path] = Missing THEN Partial ELSE objects[fs[path]].data

\* Whatever fails, and wherever, no source is lost: the object is still at its
\* source path, or a complete copy of the file (never of a special object) is
\* at its destination.  The exception is a file whose destination a later
\* operand of the same call replaces.  What a Replace unlinked at a destination
\* (prepare_replace) is gone even when the call then fails.
NothingLost ==
  \A p \in Sources : case.kindOf[p] # "dir" =>
    \/ fs[p] = case.fs[p] /\ DataAt(p) = case.objects[case.fs[p]].data
    \/ fs[DestOf(p)] = case.fs[p]
    \/ case.kindOf[p] = "file" /\ DataAt(DestOf(p)) = case.objects[case.fs[p]].data
    \/ case.existing = "replace" /\ Cardinality(Rivals(p)) > 1

\* Existing::Error and Existing::Skip leave every object found at a destination
\* as it was, also when they fail half way.
ExistingKept ==
  case.existing # "replace" =>
    \A p \in DOMAIN case.fs : (case.fs[p] # Missing /\ p \notin Sources) =>
      fs[p] = case.fs[p] /\ objects[fs[p]] = case.objects[case.fs[p]]

\* The file that ends up at a destination when several operands map to it.
Winner(p) ==
  LET late == CHOOSE q \in Rivals(p) : \A r \in Rivals(p) : RootOf(r) <= RootOf(q)
      early == CHOOSE q \in Rivals(p) : \A r \in Rivals(p) : RootOf(r) >= RootOf(q)
      data(q) == case.objects[case.fs[q]].data
  IN  CASE case.existing = "replace" -> data(late)
        [] case.existing # "replace" /\ case.fs[DestOf(p)] # Missing ->
             case.objects[case.fs[DestOf(p)]].data
        [] OTHER -> data(early)
TooDeepPath(p) ==
  Len(p) - Len(case.roots[RootOf(p)]) > case.depth + 1
  \/ (case.kindOf[p] = "dir" /\ Len(p) - Len(case.roots[RootOf(p)]) > case.depth)

LeftOut(i) ==
  \E p \in Sources : /\ RootOf(p) = i
     /\ \/ case.kindOf[p] = "special"
        \/ TooDeepPath(p)
        \/ /\ case.existing = "skip" /\ case.kindOf[p] = "file"
           /\ \/ case.fs[DestOf(p)] # Missing
              \/ Winner(p) # case.objects[case.fs[p]].data

\* What a successful, unstopped call leaves: every file it could reach is
\* complete at its destination, later operands over earlier ones, and a moved
\* operand is gone exactly when nothing of it was left out.
ResultExact ==
  (out = "ok" /\ ~stopped) =>
    /\ \A p \in Sources : (case.kindOf[p] = "file" /\ ~TooDeepPath(p)) =>
         DataAt(DestOf(p)) = Winner(p)
    /\ case.op = "copy" => \A p \in Sources : fs[p] = case.fs[p]
    /\ case.op = "move" => \A i \in DOMAIN case.roots :
         fs[case.roots[i]] = Missing <=>
           \/ fs[Target(case.roots[i])] = case.fs[case.roots[i]]
              /\ case.fs[Target(case.roots[i])] # case.fs[case.roots[i]]
           \/ ~LeftOut(i)

\* The summary of a successful move counts the operands that were renamed and
\* those that were copied and removed, also after a rename that failed with
\* some of its operands done.
CountsTrue ==
  (out = "ok" /\ case.op = "move") =>
    LET gone == {i \in DOMAIN case.roots : fs[case.roots[i]] = Missing}
        same == {i \in gone : fs[Target(case.roots[i])] = case.fs[case.roots[i]]}
    IN  renamed = Cardinality(same) /\ removed = Cardinality(gone \ same)

\* "Replace unlinks existing regular destinations before exclusive creation":
\* it fails because a destination exists in one case only.  move_run takes
\* every operand of a new container to have a fresh destination and does not
\* take it back after the first batch, so in Contents layout it does not
\* unlink what an earlier operand of the same move has written.
ReplaceMeetsOwnOutput ==
  (case.existing = "replace" /\ out = "exists") =>
    /\ case.op = "move" /\ case.layout = "contents"
    /\ case.fs[Container] = Missing
    /\ \E p \in Sources : case.kindOf[p] = "file" /\ Cardinality(Rivals(p)) > 1

-----------------------------------------------------------------------------
(* Tree copies and default recursive removals of the backends (vfsi-sync:   *)
(* backend/helpers/copy.rs, removal.rs, namespace.rs): a copy lists a       *)
(* directory page by page, makes directories and links as it meets them and *)
(* files in vectors; a removal empties the levels of a tree from the top    *)
(* and then takes the directories away from the bottom.                     *)

CONSTANTS Dirs,            \* directories, existing or not yet made
          Names,           \* names, in the order of listings: a sequence
          Starts,          \* trees: [Dirs -> [names -> node]]
          Calls,           \* [op, src, dst, symlinks]
          PageSize, Batch  \* 256 and 32 in the code

VARIABLES ent, call, treeFaults
treeVars == <<ent, call, treeFaults>>

(* A node is a directory, a file with its contents or a link to a name of   *)
(* the root.                                                                *)
None == [k |-> "none", v |-> "none"]
NameSet == Range(Names)
Node(e, path) ==
    LET Deref(o) == IF o.k = "link" THEN e["root"][o.v] ELSE o
        at[i \in 0..Len(path)] ==
          IF i = 0 THEN [k |-> "dir", v |-> "root"]
          ELSE LET p == Deref(at[i - 1]) IN IF p.k = "dir" THEN e[p.v][path[i]] ELSE None
    IN  at[Len(path)]
TreeTarget(e, path) == LET o == Node(e, path) IN IF o.k = "link" THEN e["root"][o.v] ELSE o
Parent(path) == SubSeq(path, 1, Len(path) - 1)
Bind(e, path, node) == [e EXCEPT ![TreeTarget(e, Parent(path)).v][path[Len(path)]] = node]
Used(e) == {e[d][n].v : d \in Dirs, n \in NameSet} \cup {"root"}
Unused(e) == CHOOSE d \in Dirs : d \notin Used(e)

No(e) == [ok |-> FALSE, ent |-> e]
Yes(e) == [ok |-> TRUE, ent |-> e]
MakeDir(e, path) ==
    IF TreeTarget(e, Parent(path)).k # "dir" \/ Node(e, path) # None \/ Dirs \subseteq Used(e) THEN No(e)
    ELSE Yes(Bind(e, path, [k |-> "dir", v |-> Unused(e)]))
MakeLink(e, path, name) ==
    IF TreeTarget(e, Parent(path)).k # "dir" \/ Node(e, path) # None THEN No(e) ELSE Yes(Bind(e, path, [k |-> "link", v |-> name]))
CopyFile(e, from, to) ==
    LET s == TreeTarget(e, from)
        d == Node(e, to)
        place == IF d.k = "link" THEN <<d.v>> ELSE to
    IN  IF s.k # "file" \/ TreeTarget(e, to).k = "dir" \/ TreeTarget(e, Parent(to)).k # "dir" THEN No(e) ELSE Yes(Bind(e, place, s))
Unlink(e, path) ==
    LET o == Node(e, path)
    IN  IF o = None \/ (o.k = "dir" /\ \E n \in NameSet : e[o.v][n] # None) THEN No(e) ELSE Yes(Bind(e, path, None))
Under(e, path) == SelectSeq(Names, LAMBDA n : TreeTarget(e, path).k = "dir" /\ e[TreeTarget(e, path).v][n] # None)

(* ensure_dir_impl_default: every component is made or exists, and the last *)
(* one is a directory.                                                      *)
Unchecked(e, path) == TRUE
TreeChecked(e, path) == TreeTarget(e, path).k = "dir"
LastIsDir(e, path) == TreeChecked(e, path)
EnsureDir(e, path) ==
    LET after[i \in 0..Len(path)] ==
          IF i = 0 THEN Yes(e)
          ELSE LET p == after[i - 1]
                   r == MakeDir(p.ent, SubSeq(path, 1, i))
               IN  IF ~p.ok \/ r.ok THEN [ok |-> p.ok, ent |-> r.ent] ELSE [ok |-> Node(p.ent, SubSeq(path, 1, i)) # None, ent |-> p.ent]
        r == after[Len(path)]
    IN  IF r.ok /\ LastIsDir(r.ent, path) THEN r ELSE No(r.ent)

(* A vector stops at its first failing item; with a fault the item at which *)
(* it stops is any.                                                         *)
Run(e, items, Op(_, _), stop) ==
    LET after[i \in 0..Len(items)] ==
          IF i = 0 THEN Yes(e)
          ELSE LET p == after[i - 1] IN IF ~p.ok \/ i = stop THEN No(p.ent) ELSE Op(p.ent, items[i])
    IN  after[Len(items)]
CopyItem(e, pair) == CopyFile(e, pair[1], pair[2])

-----------------------------------------------------------------------------
TreeInit == ent \in Starts /\ treeFaults = 0 /\ \E c \in Calls :
    call = [pc |-> "start", op |-> c.op, src |-> c.src, dst |-> c.dst, symlinks |-> c.symlinks, pending |-> <<>>, cur |-> [src |-> <<>>, dst |-> <<>>],
            after |-> 0, page |-> <<>>, more |-> FALSE, found |-> <<>>, copies |-> <<>>, levels |-> <<>>, result |-> "none", before |-> <<>>, listed |-> {}]
TreeFault(stop) == (stop = 0 /\ UNCHANGED treeFaults) \/ (stop # 0 /\ treeFaults < MaxFaults /\ treeFaults' = treeFaults + 1)
Ends(c, result) == [c EXCEPT !.pc = "done", !.result = result]

(* copy_tree_batches_with_pages.                                            *)
StartsWith(src, dst) == Len(src) <= Len(dst) /\ SubSeq(dst, 1, Len(src)) = src
Overlaps(src, dst) == StartsWith(src, dst)
StartCopy ==
    /\ call.pc = "start" /\ call.op = "copy"
    /\ LET r == EnsureDir(ent, call.dst)
           begun == [call EXCEPT !.before = ent]
       IN  IF Overlaps(call.src, call.dst) THEN call' = Ends(begun, "overlap") /\ UNCHANGED ent
           ELSE /\ ent' = r.ent
                /\ call' = IF r.ok THEN [begun EXCEPT !.pc = "next", !.pending = <<[src |-> call.src, dst |-> call.dst]>>] ELSE Ends(begun, "failed")
    /\ UNCHANGED treeFaults
NextDir ==
    /\ call.pc = "next"
    /\ call' = IF call.pending = <<>> THEN Ends(call, "ok")
               ELSE [call EXCEPT !.pc = "page", !.cur = Last(call.pending), !.pending = Front(@), !.after = 0, !.found = <<>>]
    /\ UNCHANGED <<ent, treeFaults>>

(* A page of native entries, from the cursor on; !.listed is a ghost.       *)
RestOf(c) == SelectSeq(Under(ent, c.cur.src), LAMBDA n : \E i \in DOMAIN Names : i > c.after /\ Names[i] = n)
Page ==
    /\ call.pc = "page"
    /\ LET rest == RestOf(call)
           page == SubSeq(rest, 1, IF Len(rest) < PageSize THEN Len(rest) ELSE PageSize)
       IN  call' = IF TreeTarget(ent, call.cur.src).k # "dir" THEN Ends(call, "failed")
                   ELSE [call EXCEPT !.pc = "entries", !.page = page, !.more = Len(rest) > PageSize, !.listed = @ \cup {TreeTarget(ent, call.cur.src).v},
                           !.after = IF page = <<>> THEN @ ELSE CHOOSE i \in DOMAIN Names : Names[i] = Last(page)]
    /\ UNCHANGED <<ent, treeFaults>>

(* The next entry: a directory or a preserved link after the files before   *)
(* it were copied, and a file into the vector.                              *)
NeedsFlush(o) == call.copies # <<>> /\ (o.k = "dir" \/ (o.k = "link" /\ call.symlinks) \/ Len(call.copies) = Batch)
EntryOf(n) == Node(ent, Append(call.cur.src, n))
Entry ==
    /\ call.pc = "entries" /\ call.page # <<>> /\ ~NeedsFlush(EntryOf(Head(call.page)))
    /\ LET n == Head(call.page)
           from == Append(call.cur.src, n)
           to == Append(call.cur.dst, n)
           o == EntryOf(n)
           r == IF o.k = "dir" THEN EnsureDir(ent, to) ELSE MakeLink(ent, to, o.v)
           tail == [call EXCEPT !.page = Tail(@)]
       IN  IF o.k = "dir" \/ (o.k = "link" /\ call.symlinks)
           THEN /\ ent' = r.ent
                /\ call' = IF ~r.ok THEN Ends(call, "failed")
                           ELSE IF o.k = "dir" THEN [tail EXCEPT !.found = Append(@, [src |-> from, dst |-> to])] ELSE tail
           ELSE call' = [tail EXCEPT !.copies = Append(@, <<from, to>>)] /\ UNCHANGED ent
    /\ UNCHANGED treeFaults
Kept == call.copies
Cleared == <<>>
AfterVector == Cleared
Flush(stop) ==
    /\ call.pc = "entries" /\ call.copies # <<>> /\ stop \in 0..Len(call.copies) /\ TreeFault(stop)
    /\ IF call.page = <<>> THEN TRUE ELSE NeedsFlush(EntryOf(Head(call.page)))
    /\ LET r == Run(ent, call.copies, CopyItem, stop)
       IN  ent' = r.ent /\ call' = IF r.ok THEN [call EXCEPT !.copies = AfterVector] ELSE Ends(call, "failed")
Descend(found) == Reverse(found)
PageEnds ==
    /\ call.pc = "entries" /\ call.page = <<>> /\ call.copies = <<>>
    /\ call' = IF call.more THEN [call EXCEPT !.pc = "page"] ELSE [call EXCEPT !.pc = "next", !.pending = @ \o Descend(call.found)]
    /\ UNCHANGED <<ent, treeFaults>>

-----------------------------------------------------------------------------
(* remove_paths_with_options_impl_default: the roots one after the other.   *)
(* ensure_empty_dir_impl_default with remove_dir_contents_path: the files   *)
(* of the directory, then its directories as roots.                         *)
Roots == IF call.dst = <<>> THEN <<call.src>> ELSE <<call.src, call.dst>>
StartRemove ==
    /\ call.pc = "start" /\ call.op = "remove"
    /\ call' = [call EXCEPT !.before = ent, !.pc = "roots", !.pending = Roots]
    /\ UNCHANGED <<ent, treeFaults>>
StartEmpty ==
    /\ call.pc = "start" /\ call.op = "empty"
    /\ LET r == MakeDir(ent, call.src)
           begun == [call EXCEPT !.before = ent]
       IN  /\ ent' = r.ent
           /\ call' = IF r.ok THEN Ends(begun, "ok")
                      ELSE IF Node(ent, call.src).k = "dir" THEN [begun EXCEPT !.pc = "contents"] ELSE Ends(begun, "failed")
    /\ UNCHANGED treeFaults
NextRoot ==
    /\ call.pc = "roots"
    /\ LET root == Head(call.pending)
           r == Unlink(ent, root)
       IN  IF call.pending = <<>> THEN call' = Ends(call, "ok") /\ UNCHANGED ent
           ELSE IF Node(ent, root).k = "dir" THEN call' = [call EXCEPT !.pc = "level", !.levels = <<<<root>>>>, !.pending = Tail(@)] /\ UNCHANGED ent
           ELSE ent' = r.ent /\ call' = IF r.ok THEN [call EXCEPT !.pending = Tail(@)] ELSE Ends(call, "failed")
    /\ UNCHANGED treeFaults
PathsUnder(path) == [i \in DOMAIN Under(ent, path) |-> Append(path, Under(ent, path)[i])]
DirsOnly(p) == Node(ent, p).k = "dir"
IsDir(p) == DirsOnly(p)
Contents(stop) ==
    /\ call.pc = "contents"
    /\ LET treeFiles == SelectSeq(PathsUnder(call.src), LAMBDA p : ~IsDir(p))
           r == Run(ent, treeFiles, Unlink, stop)
       IN  /\ stop \in 0..Len(treeFiles) /\ TreeFault(stop)
           /\ ent' = r.ent
           /\ call' = IF r.ok THEN [call EXCEPT !.pc = "roots", !.pending = SelectSeq(PathsUnder(call.src), IsDir)] ELSE Ends(call, "failed")
Level(stop) ==
    /\ call.pc = "level"
    /\ LET all == FlattenSeq([i \in DOMAIN Last(call.levels) |-> PathsUnder(Last(call.levels)[i])])
           treeFiles == SelectSeq(all, LAMBDA p : ~IsDir(p))
           dirs == SelectSeq(all, IsDir)
           r == Run(ent, treeFiles, Unlink, stop)
       IN  /\ stop \in 0..Len(treeFiles) /\ TreeFault(stop)
           /\ ent' = r.ent
           /\ call' = IF ~r.ok THEN Ends(call, "failed")
                      ELSE IF dirs = <<>> THEN [call EXCEPT !.pc = "dirs"] ELSE [call EXCEPT !.levels = Append(@, dirs)]
FromBottom == Last(call.levels)
NextLevel == FromBottom
RemoveDirs(stop) ==
    /\ call.pc = "dirs" /\ call.levels # <<>>
    /\ LET r == Run(ent, NextLevel, Unlink, stop)
       IN  /\ stop \in 0..Len(NextLevel) /\ TreeFault(stop)
           /\ ent' = r.ent
           /\ call' = IF r.ok THEN [call EXCEPT !.levels = Front(@)] ELSE Ends(call, "failed")
DirsEnd ==
    /\ call.pc = "dirs" /\ call.levels = <<>> /\ call' = [call EXCEPT !.pc = "roots"]
    /\ UNCHANGED <<ent, treeFaults>>

TreeNext ==
    \/ StartCopy \/ NextDir \/ Page \/ Entry \/ PageEnds \/ StartRemove \/ StartEmpty \/ NextRoot \/ DirsEnd
    \/ \E stop \in 0..Len(Names) : Flush(stop) \/ Contents(stop) \/ Level(stop) \/ RemoveDirs(stop)
TreeSpec == TreeInit /\ [][TreeNext]_treeVars

-----------------------------------------------------------------------------
Done == call.pc = "done"
(* Paths of at most two names below the operand.                            *)
TreeBelow == UNION {[1..n -> NameSet] : n \in 0..2}
(* A path whose directories are no links.                                   *)
Plain(e, path) == \A i \in 1..(Len(path) - 1) : Node(e, SubSeq(path, 1, i)).k = "dir"
Expected(o) == IF o.k = "link" /\ ~call.symlinks THEN call.before["root"][o.v] ELSE o
Same(a, b) == a.k = b.k /\ (a.k = "dir" \/ a.v = b.v)
Inside(p) == {q \in TreeBelow : Plain(call.before, p \o q) /\ Node(call.before, p \o q) # None}

(* A tree copy that succeeds has copied every directory, file and link      *)
(* below the source.                                                        *)
CopiedWhole ==
    Done /\ call.op = "copy" /\ call.result = "ok" =>
        \A q \in Inside(call.src) : Same(Node(ent, call.dst \o q), Expected(Node(call.before, call.src \o q)))

(* A copy, whole or not, changes nothing but names that the source has,     *)
(* each to what the source has there: what was at the destination before    *)
(* and is not in the source stays.                                          *)
MergesOnly ==
    Done /\ call.op = "copy" =>
        \A q \in TreeBelow : q # <<>> /\ Plain(call.before, call.dst \o q) /\ ~Same(Node(ent, call.dst \o q), Node(call.before, call.dst \o q))
                             => q \in Inside(call.src) /\ Same(Node(ent, call.dst \o q), Expected(Node(call.before, call.src \o q)))

(* A destination in the source is refused before anything is made, and no   *)
(* directory a copy made is ever listed by it.                              *)
OwnOutputUnread == call.pc # "start" /\ call.op = "copy" => \A d \in call.listed : d \in Used(call.before)

(* A removal that succeeds leaves no node below its operands, also when     *)
(* links to directories were among them, and no removal touches what is     *)
(* elsewhere.                                                               *)
RemovedOnly ==
    Done /\ call.op # "copy" =>
        /\ call.result = "ok" => \A i \in DOMAIN Roots : LET o == Node(ent, Roots[i]) IN
               IF call.op = "remove" THEN o = None ELSE o.k = "dir" /\ Under(ent, Roots[i]) = <<>>
        /\ \A q \in TreeBelow : Plain(call.before, q) /\ (\A i \in DOMAIN Roots : ~StartsWith(Roots[i], q)) => Node(ent, q) = Node(call.before, q)
=============================================================================
