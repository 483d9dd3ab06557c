----------------------------- MODULE RemoveTree -----------------------------
(***************************************************************************)
(* Vectorized recursive removal of the NFS backend (nfs/directory.rs,      *)
(* remove_paths_with_options_impl and                                      *)
(* remove_dir_contents_handle_with_options_impl of nfs/vector_backend.rs). *)
(*                                                                         *)
(* The remover keeps a stack of tasks.  A directory is scanned one READDIR *)
(* page at a time; the page's files are removed in compounds, its          *)
(* subdirectories are entered, and emptied directories are collected in    *)
(* `ready' and removed a parent at a time.  Removing entries while paging  *)
(* shifts the server's cookies, so a pass that changed anything is         *)
(* verified by another pass.  Every RPC is one step; other clients create  *)
(* and remove entries between the steps.                                   *)
(***************************************************************************)
EXTENDS Integers, Sequences, FiniteSets, SequencesExt, TLC

CONSTANTS
  Top,          \* the directory that holds the operands
  Dirs,         \* nodes that are directories, Top included
  Worlds,       \* the calls, trees and servers to start from (MC module)
  Spare,        \* entries [dir, name, node] another client may create
  PageSize,     \* entries in one READDIR page
  Capacity,     \* REMOVEs or LOOKUPs a compound may carry at first
  Retries,      \* RemoveOptions::retries
  MaxFaults,    \* bound: transient refusals and lost connections
  MaxOther      \* bound: steps of other clients

VARIABLES
  world,        \* the call and the server's immutable properties
  kids,         \* server: directory -> its entries [name, node], in order
  touched,      \* server: directories changed since their READDIR(0)
  stack, task,  \* the task stack and the task being run
  pc,           \* where the running task is
  job,          \* the batch the running task works on
  ready,        \* emptied directories by parent: <<name, root>> to REMOVE
  changedParents,
  cap,          \* learned compound capacities
  noted,        \* the entries whose errors note_error recorded, in order
  aborted,      \* why the call returned before its work was done
  absent,       \* history: operands once missing from Top
  faults, other \* bounds

server == <<world, kids, touched>>
vars == <<server, stack, task, pc, job, ready, changedParents, cap, noted,
          aborted, absent, faults, other>>

None == "none"
----------------------------------------------------------------------------
(* The server *)

Names(d) == {kids[d][i].name : i \in DOMAIN kids[d]}
Linked(d) == d = Top \/ \E p \in Dirs : \E i \in DOMAIN kids[p] :
                                            kids[p][i].node = d
NodeOf(d, name) == (CHOOSE e \in Range(kids[d]) : e.name = name).node

\* The status REMOVE of one name would have.
Status(d, name) ==
  IF ~Linked(d) THEN "STALE"
  ELSE IF name \notin Names(d) THEN "NOENT"
  ELSE LET n == NodeOf(d, name)
       IN  IF n \in world.stubborn THEN "ACCESS"
           ELSE IF n \in Dirs /\ kids[n] # <<>> THEN "NOTEMPTY" ELSE "OK"

Without(d, names) ==
  [kids EXCEPT ![d] = SelectSeq(@, LAMBDA e : e.name \notin names)]

\* A continuation cookie is a position, so removals shift the entries after it.
\* A looping server lists a stale snapshot and never leaves its first two pages.
Page(d, cookie) ==
  LET from == IF world.looping THEN cookie % (2 * PageSize) ELSE cookie
      all == IF world.looping THEN world.tree[d] ELSE kids[d]
      entries == SubSeq(all, from + 1,
                        IF from + PageSize < Len(all) THEN from + PageSize
                        ELSE Len(all))
  IN  [i \in DOMAIN entries |-> entries[i] @@ [cookie |-> from + i]]
----------------------------------------------------------------------------
(* Tasks *)

Dir(fh, parent, name, root) ==
  [fh |-> fh, parent |-> parent, name |-> name, root |-> root]
Task(kind, dir, cookie, seen, files, pass) ==
  [kind |-> kind, dir |-> dir, cookie |-> cookie, seen |-> seen,
   filesRemoved |-> files, passChanged |-> pass]
EnterTask(dir) == Task("Enter", dir, 0, {}, FALSE, FALSE)
NoTask == EnterTask(Dir(None, None, None, 0))

\* A batch of <<name, root>> entries of one directory.
Job(fh, entries) ==
  [fh |-> fh, entries |-> entries, start |-> 0, till |-> 0, big |-> FALSE,
   removed |-> FALSE, found |-> <<>>, left |-> Retries, back |-> "list"]
NoJob == Job(None, <<>>)

\* next_rm_scan: cookie, pass_changed; a negative cookie stands for None.
NextRmScan(cookie, changed) ==
  CASE cookie # 0 -> <<cookie, changed>>
    [] cookie = 0 /\ changed -> <<0, FALSE>>
    [] OTHER -> <<-1, FALSE>>
\* removal_batch_take
Take(remaining, learned) ==
  LET n == IF remaining < learned THEN remaining ELSE learned
  IN  IF world.batch = 0 \/ n < world.batch THEN n ELSE world.batch

\* Mutant: an error that does not end the call is not recorded.
NoteFatal(fh, name, status) ==
  /\ noted' = IF world.continue THEN noted ELSE Append(noted, <<fh, name, status>>)
  /\ aborted' = IF world.continue THEN "no" ELSE "failed"

\* note_error: record the entry's error, or give up when failing fast.
NoteError(fh, name, status) ==
  /\ noted' = Append(noted, <<fh, name, status>>)
  /\ aborted' = IF world.continue THEN "no" ELSE "failed"
NoError == UNCHANGED <<noted, aborted>>

Goto(where) == pc' = IF aborted' = "no" THEN where ELSE "done"
Abort(why) == aborted' = why /\ pc' = "done" /\ UNCHANGED noted
Fault == faults < MaxFaults /\ faults' = faults + 1

Init ==
  /\ world \in Worlds
  /\ kids = world.tree
  /\ touched = {}
  /\ stack = IF world.mode = "contents"
               THEN <<EnterTask(Dir(world.operands[1], None, None, 1))>>
               ELSE [i \in DOMAIN world.operands |->
                       [EnterTask(Dir(None, Top, world.operands[i], i))
                          EXCEPT !.kind = "RemoveOrEnter"]]
  /\ task = NoTask /\ pc = "loop" /\ job = NoJob
  /\ ready = [d \in Dirs |-> <<>>]
  /\ changedParents = {}
  /\ cap = [removev |-> Capacity, lookupv |-> Capacity]
  /\ noted = <<>> /\ aborted = "no"
  /\ absent = {}
  /\ faults = 0 /\ other = 0

Removes(d, names) ==
  /\ kids' = Without(d, names)
  /\ touched' = IF names = {} THEN touched ELSE touched \cup {d}
  /\ UNCHANGED world

Push(tasks) == stack' = stack \o tasks
Rest == <<ready, changedParents>>
----------------------------------------------------------------------------
(* run_rm_tasks *)

\* After a Continue task flushed its children.
Resume(t, childrenRemoved) ==
  LET changed == \/ t.filesRemoved \/ childrenRemoved \/ t.passChanged
                 \/ t.dir.fh \in changedParents
      next == NextRmScan(t.cookie, changed)
  IN  /\ changedParents' = changedParents \ {t.dir.fh}
      /\ Push(<<IF next[1] < 0
                  THEN [t EXCEPT !.kind = "Finish"]
                  ELSE Task("Enter", t.dir, next[1],
                            IF next[1] = 0 /\ ~next[2] THEN {} ELSE t.seen,
                            FALSE, next[2])>>)

\* What a task does once the list it had to remove is done.
AfterList(t, removed) ==
  CASE t.kind = "Continue" -> Resume(t, removed) /\ UNCHANGED ready
    [] t.kind = "Finish" ->
         /\ ready' = IF t.dir.parent = None THEN ready
                     ELSE [ready EXCEPT ![t.dir.parent] =
                             Append(@, <<t.dir.name, t.dir.root>>)]
         /\ UNCHANGED <<stack, changedParents>>
    [] t.kind = "Enter" ->
         /\ changedParents' = IF removed
                                THEN changedParents \cup {t.dir.parent}
                                ELSE changedParents
         /\ UNCHANGED <<stack, ready>>
    [] t.kind = "Last" -> UNCHANGED <<stack, ready, changedParents>>

Pop ==
  /\ pc = "loop" /\ stack # <<>>
  /\ task' = Last(stack) /\ stack' = Front(stack)
  /\ LET t == Last(stack)
         children == ready[t.dir.fh]
     IN  CASE t.kind = "RemoveOrEnter" -> pc' = "one" /\ UNCHANGED <<job, ready>>
           [] t.kind = "Enter" -> pc' = "readdir" /\ UNCHANGED <<job, ready>>
           [] OTHER -> /\ pc' = "list"
                       /\ job' = Job(t.dir.fh, children)
                       /\ ready' = [ready EXCEPT ![t.dir.fh] = <<>>]
  /\ UNCHANGED <<server, changedParents, cap, noted, aborted, faults, other>>

\* The operands, and any directory still ready, batched per parent.
PopReady ==
  /\ pc = "loop" /\ stack = <<>>
  /\ \E d \in Dirs :
       /\ ready[d] # <<>>
       /\ job' = Job(d, ready[d])
       /\ ready' = [ready EXCEPT ![d] = <<>>]
  /\ task' = [NoTask EXCEPT !.kind = "Last"]
  /\ pc' = "list"
  /\ UNCHANGED <<server, stack, changedParents, cap, noted, aborted, faults,
                 other>>

Return ==
  /\ pc = "loop" /\ stack = <<>> /\ \A d \in Dirs : ready[d] = <<>>
  /\ pc' = "done"
  /\ UNCHANGED <<server, stack, task, job, Rest, cap, noted, aborted, faults,
                 other>>
----------------------------------------------------------------------------
(* remove_or_enter: one operand, with the retries of its own loop. *)

\* Whether a non-empty directory is entered.
Expand == world.mode = "tree"

RemoveOne ==
  /\ pc = "one"
  /\ LET d == task.dir.parent
         name == task.dir.name
         status == Status(d, name)
     IN  CASE status = "OK" -> /\ Removes(d, {name}) /\ NoError
                               /\ pc' = "loop"
           [] status = "NOENT" -> /\ UNCHANGED server /\ NoError
                                  /\ pc' = "loop"
           [] status = "NOTEMPTY" /\ Expand ->
                /\ UNCHANGED server /\ NoError
                /\ pc' = "lookone"
           [] OTHER -> /\ UNCHANGED server /\ NoteError(d, name, status)
                       /\ Goto("loop")
  /\ job' = NoJob
  /\ UNCHANGED <<stack, task, Rest, cap, faults, other>>

DelayedOne ==
  /\ pc = "one" /\ Fault
  /\ IF job.left > 0
       THEN job' = [job EXCEPT !.left = @ - 1] /\ NoError /\ UNCHANGED pc
       ELSE /\ job' = NoJob
            /\ NoteError(task.dir.parent, task.dir.name, "DELAY") /\ Goto("loop")
  /\ UNCHANGED <<server, stack, task, Rest, cap, other>>

LookupOne ==
  /\ pc = "lookone"
  /\ LET d == task.dir.parent
         name == task.dir.name
     IN  IF Linked(d) /\ name \in Names(d)
           THEN /\ Push(<<EnterTask([task.dir EXCEPT !.fh = NodeOf(d, name)])>>)
                /\ NoError /\ pc' = "loop"
           ELSE /\ NoteError(d, name, "NOENT") /\ UNCHANGED stack /\ Goto("loop")
  /\ UNCHANGED <<server, task, job, Rest, cap, faults, other>>
----------------------------------------------------------------------------
(* enter_directory: one READDIR page. *)

\* validate_readdir_progress
Repeats(cookie, next, seen) == next # 0 /\ (next = cookie \/ next \in seen)

\* The cookies of a pass that starts again from the beginning.
Restarted(t) == Task("Enter", t.dir, 0, {}, FALSE, FALSE)

EmptyPage(t) ==
  IF NextRmScan(0, t.passChanged)[1] < 0
    THEN [t EXCEPT !.kind = "Finish"]
    ELSE [Restarted(t) EXCEPT
            !.passChanged = NextRmScan(0, t.passChanged)[2]]

\* A page with entries: its files are removed first.
ScanPage(t, page) ==
  LET next == Last(page).cookie
      files == SelectSeq(page, LAMBDA e : e.node \notin Dirs)
      dirs == SelectSeq(page, LAMBDA e : e.node \in Dirs)
  IN  IF Repeats(t.cookie, next, t.seen)
        THEN Abort("readdir") /\ UNCHANGED <<task, job>>
        ELSE /\ task' = [t EXCEPT !.cookie = next, !.seen = @ \cup {next}]
             /\ job' = [Job(t.dir.fh, [i \in DOMAIN files |->
                                         <<files[i].name, t.dir.root>>])
                          EXCEPT !.found = [i \in DOMAIN dirs |-> dirs[i].name],
                                 !.back = "names"]
             /\ pc' = "names" /\ NoError

Readdir ==
  /\ pc = "readdir"
  /\ LET t == task
         d == t.dir.fh
         page == Page(d, t.cookie)
     IN  CASE d \notin Dirs ->        \* NOTDIR: the name was replaced by a file
                /\ job' = IF t.dir.parent = None THEN Job(d, <<>>)
                          ELSE Job(t.dir.parent, <<<<t.dir.name, t.dir.root>>>>)
                /\ pc' = "list" /\ NoError /\ UNCHANGED <<stack, task>>
           [] d \in Dirs /\ (~Linked(d) \/ d \in world.unreadable) ->
                Abort("readdir") /\ UNCHANGED <<stack, task, job>>
           [] d \in Dirs /\ Linked(d) /\ d \notin world.unreadable
                /\ page = <<>> ->
                /\ Push(<<EmptyPage(t)>>)
                /\ pc' = "loop" /\ NoError /\ UNCHANGED <<task, job>>
           [] OTHER -> ScanPage(t, page) /\ UNCHANGED stack
  /\ touched' = IF task.cookie = 0 THEN touched \ {task.dir.fh} ELSE touched
  /\ UNCHANGED <<world, kids, Rest, cap, faults, other>>

\* READDIR is refused for the moment: enter_directory does not retry, and its
\* error ends the call, continue_on_error or not.
DelayedReaddir ==
  /\ pc = "readdir" /\ Fault /\ Abort("delayed")
  /\ UNCHANGED <<server, stack, task, job, Rest, cap, other>>

\* The server no longer accepts the cookie of a directory that changed.
BadCookie ==
  /\ pc = "readdir" /\ task.cookie # 0 /\ task.dir.fh \in touched
  /\ world.strict
  /\ IF task.passChanged
       THEN /\ Push(<<Restarted(task)>>) /\ pc' = "loop" /\ NoError
       ELSE Abort("readdir") /\ UNCHANGED stack
  /\ UNCHANGED <<server, task, job, Rest, cap, faults, other>>
----------------------------------------------------------------------------
(* remove_names and remove_list: compounds of REMOVE over remove_many. *)

\* The REMOVEs of the next compound.  A batch of the caller (till) is split
\* further when the capacity learned since it was cut is smaller.
Till == IF job.start < job.till THEN job.till
        ELSE job.start + Take(Len(job.entries) - job.start, cap.removev)
Big == IF job.start < job.till THEN job.big ELSE Till - job.start > 1
ChunkLen == LET n == Till - job.start
            IN  IF n < cap.removev THEN n ELSE cap.removev
NameAt(i) == job.entries[job.start + i][1]
ChunkNames(n) == {NameAt(i) : i \in 1..n}

\* The first REMOVE of the compound that does not succeed.
FirstBad ==
  LET bad == {i \in 1..ChunkLen :
                Status(job.fh, NameAt(i)) # "OK" \/ NameAt(i) \in ChunkNames(i-1)}
  IN  IF bad = {} THEN ChunkLen + 1 ELSE CHOOSE i \in bad : \A j \in bad : i <= j

\* A status that means the entry is already gone.
Gone(status) == status = "NOENT"

InBatch == pc \in {"names", "list"} /\ job.start < Len(job.entries)

RemoveChunk ==
  /\ InBatch
  /\ LET n == FirstBad
         whole == n > ChunkLen
         name == NameAt(n)
         status == IF name \in ChunkNames(n-1) THEN "NOENT"
                   ELSE Status(job.fh, name)
         promote == pc = "names" /\ status = "NOTEMPTY"
     IN  /\ Removes(job.fh, ChunkNames(n-1))
         /\ job' = [job EXCEPT
                      !.start = @ + (IF whole THEN n - 1 ELSE n),
                      !.till = IF whole THEN Till ELSE 0,
                      !.big = Big,
                      !.removed = \/ @ \/ n > 1
                                  \/ ~whole /\ Gone(status),
                      !.found = IF ~whole /\ promote THEN Append(@, name) ELSE @]
         /\ IF whole \/ promote \/ Gone(status)
              THEN NoError /\ UNCHANGED pc
              ELSE NoteError(job.fh, name, status) /\ Goto(pc)
  /\ UNCHANGED <<stack, task, Rest, cap, faults, other>>

\* DELAY or SERVERFAULT at the k-th REMOVE: that name is retried by itself.
DelayedChunk ==
  /\ InBatch /\ Fault
  /\ \E k \in 1..ChunkLen :
       /\ k <= FirstBad
       /\ Removes(job.fh, ChunkNames(k-1))
       /\ job' = [job EXCEPT !.start = @ + k - 1, !.till = 0,
                             !.removed = @ \/ k > 1, !.left = Retries]
  /\ pc' = "retry" /\ NoError
  /\ UNCHANGED <<stack, task, Rest, cap, other>>

\* RESOURCE or TOO_MANY_OPS.  At SEQUENCE or PUTFH (k = 0) nothing has changed
\* and remove_many resends a smaller compound; at the k-th REMOVE only the
\* suffix after the confirmed prefix is sent again.
Suffix(k) == job.start + (IF k = 0 THEN 0 ELSE k - 1)

Smaller(n) == IF n > 1 THEN n \div 2 ELSE 1
RefusedChunk ==
  /\ InBatch /\ Fault
  /\ \E k \in 0..ChunkLen :
       LET resend == k = 0 /\ ChunkLen > 1
           confirmed == IF k = 0 THEN 0 ELSE k - 1
       IN  /\ k <= FirstBad
           /\ Removes(job.fh, ChunkNames(confirmed))
           /\ cap' = [cap EXCEPT !.removev = Smaller(ChunkLen)]
           /\ IF resend \/ Big
                THEN /\ job' = [job EXCEPT
                                  !.start = Suffix(k),
                                  !.till = IF resend THEN Till ELSE 0,
                                  !.big = Big,
                                  !.removed = @ \/ confirmed > 0]
                     /\ NoError /\ UNCHANGED pc
                ELSE /\ job' = [job EXCEPT !.start = @ + 1, !.till = 0]
                     /\ NoteError(job.fh, NameAt(1), "RESOURCE") /\ Goto(pc)
  /\ UNCHANGED <<stack, task, Rest, other>>

\* retry_remove_name
Retry ==
  /\ pc = "retry" /\ job.left > 0
  /\ LET status == Status(job.fh, NameAt(1))
         done == status \in {"OK", "NOENT"}
     IN  /\ IF status = "OK" THEN Removes(job.fh, {NameAt(1)})
            ELSE UNCHANGED server
         /\ job' = [job EXCEPT !.start = @ + 1, !.removed = @ \/ done]
         /\ IF done THEN NoError /\ pc' = job.back
            ELSE NoteError(job.fh, NameAt(1), status) /\ Goto(job.back)
  /\ UNCHANGED <<stack, task, Rest, cap, faults, other>>

DelayedRetry ==
  /\ pc = "retry" /\ job.left > 0 /\ Fault
  /\ job' = [job EXCEPT !.left = @ - 1]
  /\ UNCHANGED <<server, stack, task, pc, Rest, cap, noted, aborted, other>>

RetriesExhausted ==
  /\ pc = "retry" /\ job.left = 0
  /\ job' = [job EXCEPT !.start = @ + 1]
  /\ NoteError(job.fh, NameAt(1), "DELAY") /\ Goto(job.back)
  /\ UNCHANGED <<server, stack, task, Rest, cap, faults, other>>

\* The connection is lost during a REMOVE compound: any prefix may have run.
LostRemove ==
  /\ Fault /\ Abort("lost")
  /\ \/ /\ InBatch
        /\ \E k \in 0..ChunkLen : k < FirstBad /\ Removes(job.fh, ChunkNames(k))
     \/ /\ pc = "one"
        /\ \E names \in SUBSET {task.dir.name} :
             /\ names # {} => Status(Top, task.dir.name) = "OK"
             /\ Removes(Top, names)
     \/ /\ pc = "retry"
        /\ \E names \in SUBSET {NameAt(1)} :
             /\ names # {} => Status(job.fh, NameAt(1)) = "OK"
             /\ Removes(job.fh, names)
     \/ pc \in {"readdir", "lookup", "lookone"} /\ UNCHANGED server
  /\ UNCHANGED <<stack, task, job, Rest, cap, other>>

ListEnd ==
  /\ pc = "list" /\ job.start = Len(job.entries)
  /\ AfterList(task, job.removed)
  /\ pc' = "loop"
  /\ UNCHANGED <<server, task, job, cap, noted, aborted, faults, other>>

NamesEnd ==
  /\ pc = "names" /\ job.start = Len(job.entries)
  /\ task' = [task EXCEPT !.filesRemoved = job.removed]
  /\ job' = Job(job.fh, [i \in DOMAIN job.found |->
                           <<job.found[i], task.dir.root>>])
  /\ pc' = "lookup"
  /\ UNCHANGED <<server, stack, Rest, cap, noted, aborted, faults, other>>
----------------------------------------------------------------------------
(* lookup_children *)

LookupLen == Take(Len(job.entries) - job.start, cap.lookupv)

LookupChunk ==
  /\ pc = "lookup" /\ job.start < Len(job.entries)
  /\ LET names == [i \in 1..LookupLen |-> NameAt(i)]
         here == SelectSeq(names, LAMBDA n : n \in Names(job.fh))
     IN  IF Linked(job.fh)
           THEN /\ job' = [job EXCEPT
                     !.start = @ + LookupLen,
                     !.found = @ \o [i \in DOMAIN here |->
                                       <<NodeOf(job.fh, here[i]), here[i]>>]]
                /\ NoError /\ UNCHANGED pc
           ELSE /\ job' = [job EXCEPT !.start = @ + 1]
                /\ NoteError(job.fh, NameAt(1), "STALE") /\ Goto(pc)
  /\ UNCHANGED <<server, stack, task, Rest, cap, faults, other>>

RefusedLookup ==
  /\ pc = "lookup" /\ job.start < Len(job.entries) /\ Fault
  /\ cap' = [cap EXCEPT !.lookupv = Smaller(LookupLen)]
  /\ IF LookupLen > 1
       THEN NoError /\ UNCHANGED <<job, pc>>
       ELSE /\ job' = [job EXCEPT !.start = @ + 1]
            /\ NoteError(job.fh, NameAt(1), "RESOURCE") /\ Goto(pc)
  /\ UNCHANGED <<server, stack, task, Rest, other>>

Descend ==
  /\ pc = "lookup" /\ job.start = Len(job.entries)
  /\ Push(<<[task EXCEPT !.kind = "Continue"]>>
          \o [i \in DOMAIN job.found |->
                EnterTask(Dir(job.found[i][1], job.fh, job.found[i][2],
                              task.dir.root))])
  /\ pc' = "loop"
  /\ UNCHANGED <<server, task, job, Rest, cap, noted, aborted, faults, other>>
----------------------------------------------------------------------------
(* Other clients *)

Others ==
  /\ pc # "done" /\ other < MaxOther /\ other' = other + 1
  /\ \/ \E s \in Spare :
          /\ Linked(s.dir) /\ s.name \notin Names(s.dir) /\ ~Linked(s.node)
          /\ kids' = [kids EXCEPT ![s.dir] =
                        Append(@, [name |-> s.name, node |-> s.node])]
          /\ touched' = touched \cup {s.dir}
          /\ UNCHANGED world
     \/ \E d \in Dirs : \E name \in Names(d) :
          Status(d, name) = "OK" /\ Removes(d, {name})
  /\ UNCHANGED <<stack, task, pc, job, Rest, cap, noted, aborted, faults>>

Step ==
  \/ Pop \/ PopReady \/ Return
  \/ RemoveOne \/ DelayedOne \/ LookupOne
  \/ Readdir \/ DelayedReaddir \/ BadCookie
  \/ RemoveChunk \/ DelayedChunk \/ RefusedChunk \/ Retry \/ DelayedRetry
  \/ RetriesExhausted \/ LostRemove \/ ListEnd \/ NamesEnd
  \/ LookupChunk \/ RefusedLookup \/ Descend

Observe ==
  absent' = absent \cup {n \in Range(world.operands) : n \notin Names(Top)'}

Next == (Step \/ Others) /\ Observe
Spec == Init /\ [][Next]_vars /\ WF_vars(Step /\ Observe)
----------------------------------------------------------------------------
(* Properties *)

\* Directories at or below the operands.
Roots == IF world.mode = "contents" THEN {world.operands[1]}
         ELSE {NodeOf(Top, n) : n \in Range(world.operands) \cap Names(Top)}
Nodes(d) == {kids[d][i].node : i \in DOMAIN kids[d]}
Below == LET S1 == Roots \cap Dirs
             S2 == S1 \cup (UNION {Nodes(d) : d \in S1} \cap Dirs)
         IN  S2 \cup (UNION {Nodes(d) : d \in S2} \cap Dirs)
InScope(d, name) ==
  \/ d = Top /\ world.mode # "contents" /\ name \in Range(world.operands)
  \/ world.mode # "plain" /\ d \in Below

\* An entry left behind is accounted for when its own error was recorded, or
\* when a transient refusal kept the remover out of a directory above it.
Blamed(why) == {<<noted[i][1], noted[i][2]>> :
                  i \in {j \in DOMAIN noted : noted[j][3] \in why}}
Transient == {"DELAY", "RESOURCE"}
KeptOut == LET S1 == {NodeOf(e[1], e[2]) :
                        e \in {b \in Blamed(Transient) : b[2] \in Names(b[1])}}
           IN  S1 \cup UNION {Nodes(d) : d \in S1 \cap Dirs}
Leaf(d, n) == NodeOf(d, n) \in Dirs => kids[NodeOf(d, n)] = <<>>

\* Recursive removal with continue_on_error removes everything that can be
\* removed, however the pages, batches, retries and cookies fall.  While no
\* other client interferes and the connection holds, a file or an empty
\* directory is left behind only if it is accounted for, and the work ends
\* early only at a READDIR that failed.  There it does: types.rs says of
\* RemoveOptions "delete as much as possible, report the first error", but one
\* directory that is unreadable or delayed ends the call with whatever other
\* entries are still to be removed (enter_directory).
DeletesAllItCan ==
  pc = "done" /\ other = 0 /\ ~world.looping /\ aborted # "lost" =>
    /\ world.continue => \/ aborted \in {"no", "delayed"}
                         \/ aborted = "readdir" /\ task.dir.fh \in world.unreadable
    /\ aborted = "no" => \A d \in Dirs : \A n \in Names(d) :
         InScope(d, n) /\ Leaf(d, n)
           => \/ d \in KeptOut
              \/ <<d, n>> \in Blamed(Transient \cup {"ACCESS"})

\* Whatever other clients do meanwhile, a call that reports success removed (or
\* found missing) every operand: remove_or_enter and remove_list take NOENT for
\* done, and each skipped child shows up when its directory is removed.
SuccessMeansGone ==
  pc = "done" /\ aborted = "no" /\ noted = <<>> /\ world.mode # "contents" =>
    Range(world.operands) \subseteq absent

=============================================================================
