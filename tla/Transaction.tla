---- MODULE Transaction ----
(* Staged writes of the fsspec adapter (_fs.py): _DeferredWriteFile spools   *)
(* a file locally, uploads it to a private name beside its destination and   *)
(* publishes it by rename, or by hard link when the open was exclusive.      *)
(* _VfsiTransaction prepares every enrolled file, then publishes them in     *)
(* order, and discards all of them when anything fails.  A handle may also   *)
(* be committed or discarded by hand, again after a failure.                 *)
(* Contents are sequences of atoms: atom 10*i+k is the k-th atom written     *)
(* through file i, atom 0 the data found at the start, atoms from 100 on the *)
(* data of another client.                                                   *)
EXTENDS Naturals, Sequences

CONSTANTS Paths,      \* destination names
          Cases,      \* [jobs : Seq([path, mode]), manual, foreign, present]
          MaxOther,   \* steps of the other client
          MaxFaults,  \* calls that fail, or whose reply is lost
          MaxTries    \* commit and discard calls on one handle, by hand

VARIABLES case,     \* what is opened, chosen at the start
          dest,     \* [Paths -> Nothing or [data, perm]]
          stage,    \* [file -> Nothing or [data, perm]], the private names
          file,     \* [file -> the fields of a _DeferredWriteFile]
          pc,       \* [at, i, sent, perm]: where complete() or commit() is
          result,   \* "none", "ok" or "error"
          others, faults, tries,
          seen      \* history: which files were exposed, whose metadata holds

vars == <<case, dest, stage, file, pc, result, others, faults, tries, seen>>

Jobs == case.jobs
Files == 1..Len(Jobs)
Nothing == [data |-> <<>>, perm |-> "none"]
Foreign == [data |-> <<999>>, perm |-> "shared"]
Exclusive(i) == Jobs[i].mode = "x"

At(step, i) == [at |-> step, i |-> i, sent |-> 0, perm |-> "none"]

\* What a call on a file leaves behind when it fails.  A transaction goes on
\* to discard every file (complete), a call made by hand raises.
Raise == /\ pc' = IF case.manual THEN At("idle", 1) ELSE At("discard", 1)
         /\ result' = "error"

Fault == faults < MaxFaults /\ faults' = faults + 1
NoFault == faults' = faults

Init ==
  /\ case \in Cases
  /\ dest = [p \in Paths |-> IF p \in case.present
                              THEN [data |-> <<0>>, perm |-> "shared"] ELSE Nothing]
  /\ stage = [i \in Files |-> IF i = case.foreign THEN Foreign ELSE Nothing]
  /\ file = [i \in Files |-> [spool |-> <<>>, open |-> FALSE, prepared |-> FALSE,
                              owned |-> FALSE, published |-> FALSE, committed |-> FALSE]]
  /\ pc = At("enrol", 1)
  /\ result = "none"
  /\ others = 0 /\ faults = 0 /\ tries = 0
  /\ seen = [exposed |-> {}, fresh |-> [i \in Files |-> FALSE],
             kept |-> [p \in Paths |-> TRUE], orphan |-> {}]

\* _DeferredWriteFile.__init__ and the writes: an append starts from a copy
\* of the destination, everything else from nothing.
Enrol ==
  /\ pc.at = "enrol"
  /\ LET i == pc.i
         seed == IF Jobs[i].mode = "a" THEN dest[Jobs[i].path].data ELSE <<>>
     IN file' = [file EXCEPT ![i].spool = seed \o <<10 * i + 1, 10 * i + 2>>,
                             ![i].open = TRUE]
  /\ pc' = IF pc.i < Len(Jobs) THEN At("enrol", pc.i + 1)
           ELSE At(IF case.manual THEN "idle" ELSE "enrolled", 1)
  /\ UNCHANGED <<case, dest, stage, result, others, faults, tries, seen>>

\* _VfsiTransaction.complete.
Complete(commit) ==
  /\ pc.at = "enrolled"
  /\ pc' = At(IF commit THEN "prepare" ELSE "discard", 1)
  /\ result' = "ok"
  /\ UNCHANGED <<case, dest, stage, file, others, faults, tries, seen>>

\* commit() by hand: nothing to do once committed, prepare() otherwise.
Commit(i) ==
  /\ pc.at = "idle" /\ tries < MaxTries
  /\ tries' = tries + 1
  /\ pc' = IF file[i].committed THEN pc ELSE At("prepare", i)
  /\ result' = "ok"
  /\ UNCHANGED <<case, dest, stage, file, others, faults, seen>>

\* Where the protocol goes once file i is staged.
AfterPrepare(i) ==
  IF ~case.manual /\ i < Len(Jobs) THEN At("prepare", i + 1)
  ELSE At("publish", IF case.manual THEN i ELSE 1)

\* The head of prepare(): an exclusive file whose name exists is refused
\* before anything is uploaded.
PrepareStart ==
  /\ pc.at = "prepare"
  /\ UNCHANGED <<case, dest, stage, file, others, tries, seen>>
  /\ \/ /\ NoFault
        /\ IF file[pc.i].prepared
           THEN pc' = AfterPrepare(pc.i) /\ UNCHANGED result
           ELSE IF Exclusive(pc.i) /\ dest[Jobs[pc.i].path] # Nothing
           THEN Raise
           ELSE pc' = At("stat", pc.i) /\ UNCHANGED result
     \/ Exclusive(pc.i) /\ ~file[pc.i].prepared /\ Fault /\ Raise

\* The permissions to give the staged file; a new file keeps the private ones.
PrepareStat ==
  /\ pc.at = "stat"
  /\ UNCHANGED <<case, dest, stage, file, others, tries>>
  /\ \/ /\ NoFault /\ UNCHANGED result
        /\ pc' = [At("open", pc.i) EXCEPT !.perm = dest[Jobs[pc.i].path].perm]
        /\ seen' = [seen EXCEPT !.fresh[pc.i] = TRUE]
     \/ Fault /\ Raise /\ UNCHANGED seen

\* Exclusive creation of the private name.  Only its acknowledgement makes
\* the name ours; a name in use or a lost reply does not.
PrepareOpen ==
  /\ pc.at = "open"
  /\ UNCHANGED <<case, dest, others, tries>>
  /\ LET i == pc.i
         fresh == [data |-> <<>>, perm |-> "private"]
     IN \/ /\ NoFault /\ UNCHANGED seen
           /\ IF ~file[i].open \/ stage[i] # Nothing
              THEN Raise /\ UNCHANGED <<stage, file>>
              ELSE /\ stage' = [stage EXCEPT ![i] = fresh]
                   /\ file' = [file EXCEPT ![i].owned = TRUE]
                   /\ pc' = [pc EXCEPT !.at = "write"] /\ UNCHANGED result
        \/ Fault /\ Raise /\ UNCHANGED <<stage, file, seen>>
        \/ /\ Fault /\ Raise /\ stage[i] = Nothing /\ file[i].open
           /\ stage' = [stage EXCEPT ![i] = fresh]
           /\ seen' = [seen EXCEPT !.orphan = @ \union {i}]
           /\ UNCHANGED file

\* Mutant: prepare() is over after the first atom: a short write taken as complete.
AfterFirstWrite(i, sent) == [pc EXCEPT !.sent = sent, !.at = "close"]

\* What follows one atom of the upload loop: the next one, or the end of it.
AfterWrite(i, sent) ==
  IF sent < Len(file[i].spool) THEN [pc EXCEPT !.sent = sent]
  ELSE [pc EXCEPT !.sent = sent, !.at = "close"]

\* One atom of the upload; any failure goes on to remove the private name.
PrepareWrite ==
  /\ pc.at = "write"
  /\ UNCHANGED <<case, dest, file, result, others, tries, seen>>
  /\ LET i == pc.i
         sent == Append(stage[i].data, file[i].spool[pc.sent + 1])
     IN \/ /\ NoFault
           /\ stage' = [stage EXCEPT ![i].data = sent]
           /\ pc' = AfterWrite(i, pc.sent + 1)
        \/ /\ Fault
           /\ stage' \in {stage, [stage EXCEPT ![i].data = sent]}
           /\ pc' = [pc EXCEPT !.at = "undo"]

\* The close of the uploaded file and the permissions of the file it replaces.
PrepareFinish ==
  /\ pc.at = "close"
  /\ UNCHANGED <<case, dest, result, others, tries, seen>>
  /\ LET i == pc.i
         opened == IF pc.perm = "none" THEN stage ELSE [stage EXCEPT ![i].perm = pc.perm]
     IN \/ /\ NoFault
           /\ stage' = opened
           /\ file' = [file EXCEPT ![i].prepared = TRUE]
           /\ pc' = AfterPrepare(i)
        \/ /\ Fault
           /\ stage' \in {stage, opened}
           /\ pc' = [pc EXCEPT !.at = "undo"]
           /\ UNCHANGED file

\* fs.rm of a private name: [gone, told] where told is what rm reports.
Removals(i) == {[gone |-> TRUE, told |-> TRUE], [gone |-> FALSE, told |-> FALSE],
                [gone |-> stage[i] # Nothing, told |-> FALSE]}

RemoveStage(i, how) ==
  /\ IF how.told THEN NoFault ELSE Fault
  /\ stage' = IF how.gone THEN [stage EXCEPT ![i] = Nothing] ELSE stage

\* The cleanup of a failed prepare(): ownership is kept when rm fails.
PrepareUndo ==
  /\ pc.at = "undo"
  /\ \E how \in Removals(pc.i) :
       /\ RemoveStage(pc.i, how)
       /\ file' = IF how.told THEN [file EXCEPT ![pc.i].owned = FALSE] ELSE file
  /\ Raise
  /\ UNCHANGED <<case, dest, others, tries, seen>>

\* The files one rename_many covers: the run of overwriting files from i on.
RunEnd(i) ==
  IF case.manual THEN i
  ELSE CHOOSE j \in i..Len(Jobs) : /\ \A k \in i..j : ~Exclusive(k)
                                   /\ j = Len(Jobs) \/ Exclusive(j + 1)

AfterPublish(j) ==
  IF ~case.manual /\ j < Len(Jobs) THEN At("publish", j + 1)
  ELSE At(IF case.manual THEN "idle" ELSE "done", 1)

\* The staged contents of the files in ps become their destinations, in order.
Exposed(ps) ==
  [p \in Paths |-> LET mine == {i \in ps : Jobs[i].path = p}
                   IN IF mine = {} THEN dest[p]
                      ELSE stage[CHOOSE i \in mine : \A k \in mine : k <= i]]
Publish(ps) ==
  /\ dest' = Exposed(ps)
  /\ seen' = [seen EXCEPT !.exposed = @ \union ps,
                          !.kept = [p \in Paths |-> @[p] \/ \E i \in ps : Jobs[i].path = p],
                          !.fresh = [k \in Files |-> /\ @[k]
                                       /\ \A i \in ps : Jobs[i].path = Jobs[k].path => @[i]]]

Released(ps) == [i \in Files |-> IF i \notin ps THEN file[i]
                   ELSE [file[i] EXCEPT !.prepared = FALSE, !.owned = FALSE,
                                        !.open = FALSE, !.committed = TRUE]]

\* finalize_many, the overwriting part: one rename vector, of which a failure
\* or a missing private name leaves a prefix done.
PublishRename ==
  /\ pc.at = "publish" /\ ~Exclusive(pc.i)
  /\ LET run == pc.i..RunEnd(pc.i)
         able == {n \in 0..(RunEnd(pc.i) + 1 - pc.i) :
                    \A k \in pc.i..(pc.i + n - 1) : stage[k] # Nothing}
     IN \E n \in able :
          LET done == pc.i..(pc.i + n - 1) IN
          /\ Publish(done)
          /\ stage' = [i \in Files |-> IF i \in done THEN Nothing ELSE stage[i]]
          /\ \/ /\ done = run /\ NoFault /\ UNCHANGED result
                /\ file' = Released(run)
                /\ pc' = AfterPublish(RunEnd(pc.i))
             \/ /\ IF done # run /\ n + 1 \notin able THEN NoFault ELSE Fault
                /\ Raise /\ UNCHANGED file
  /\ UNCHANGED <<case, others, tries>>

\* Mutant: An exclusive file is published by an overwriting rename.
LinkOverwrites ==
  /\ pc.at = "publish" /\ Exclusive(pc.i)
  /\ stage[pc.i] # Nothing
  /\ Publish({pc.i})
  /\ file' = [file EXCEPT ![pc.i].published = TRUE]
  /\ pc' = At("unlink", pc.i)
  /\ UNCHANGED <<case, stage, result, others, faults, tries>>

\* finalize_many, the exclusive part: the hard link fails if the name exists.
PublishLink ==
  /\ pc.at = "publish" /\ Exclusive(pc.i)
  /\ LET i == pc.i
         able == stage[i] # Nothing /\ dest[Jobs[i].path] = Nothing
     IN \/ /\ NoFault
           /\ IF file[i].published
              THEN pc' = At("unlink", i) /\ UNCHANGED <<dest, file, result, seen>>
              ELSE IF able
              THEN /\ Publish({i}) /\ UNCHANGED result
                   /\ file' = [file EXCEPT ![i].published = TRUE]
                   /\ pc' = At("unlink", i)
              ELSE Raise /\ UNCHANGED <<dest, file, seen>>
        \/ /\ Fault /\ ~file[i].published /\ Raise
           /\ Publish({}) \/ (able /\ Publish({i}))
           /\ UNCHANGED file
  /\ UNCHANGED <<case, stage, others, tries>>

\* discard(): the private name is removed if it is ours; the spool is closed
\* whatever happens, ownership is kept when rm fails.
Discarded(i, told) ==
  [file EXCEPT ![i].open = FALSE, ![i].owned = @ /\ ~told, ![i].prepared = @ /\ ~told,
               ![i].committed = @ \/ told]
Discard(i) ==
  IF ~file[i].owned
  THEN file' = [file EXCEPT ![i].open = FALSE, ![i].committed = TRUE] /\ NoFault /\ UNCHANGED stage
  ELSE \E how \in Removals(i) : RemoveStage(i, how) /\ file' = Discarded(i, how.told)
Failed(i) == file'[i].owned

\* The discard that ends the publication of an exclusive file.
PublishUnlink ==
  /\ pc.at = "unlink"
  /\ Discard(pc.i)
  /\ IF Failed(pc.i) THEN Raise ELSE pc' = AfterPublish(pc.i) /\ UNCHANGED result
  /\ UNCHANGED <<case, dest, others, tries, seen>>

\* discard_many goes on past a file it could not discard.
DiscardNext ==
  /\ pc.at = "discard"
  /\ Discard(pc.i)
  /\ result' = IF Failed(pc.i) THEN "error" ELSE result
  /\ pc' = IF pc.i < Len(Jobs) THEN At("discard", pc.i + 1) ELSE At("done", 1)
  /\ UNCHANGED <<case, dest, others, tries, seen>>

\* discard() by hand, on a handle never committed or after a transaction
\* that could not clean up.
DiscardAgain(i) ==
  /\ pc.at \in {"idle", "done"} /\ tries < MaxTries
  /\ case.manual \/ file[i].owned
  /\ tries' = tries + 1
  /\ Discard(i)
  /\ result' = IF Failed(i) THEN "error" ELSE IF case.manual THEN "none" ELSE result
  /\ UNCHANGED <<case, dest, pc, others, seen>>

\* Another client replaces or removes a destination.
Other(p) ==
  /\ pc.at # "done" /\ others < MaxOther
  /\ others' = others + 1
  /\ dest' \in {[dest EXCEPT ![p] = [data |-> <<100 + others>>, perm |-> "shared"]],
                [dest EXCEPT ![p] = Nothing]}
  /\ dest' # dest
  /\ seen' = [seen EXCEPT !.fresh = [i \in Files |-> @[i] /\ Jobs[i].path # p],
                          !.kept[p] = FALSE]
  /\ UNCHANGED <<case, stage, file, pc, result, faults, tries>>

Next ==
  \/ Enrol
  \/ \E commit \in BOOLEAN : Complete(commit)
  \/ \E i \in Files : Commit(i) \/ DiscardAgain(i)
  \/ PrepareStart \/ PrepareStat \/ PrepareOpen \/ PrepareWrite \/ PrepareFinish \/ PrepareUndo
  \/ PublishRename \/ PublishLink \/ PublishUnlink
  \/ DiscardNext
  \/ \E p \in Paths : Other(p)

Spec == Init /\ [][Next]_vars
-----------------------------------------------------------------------------
Ours == others' = others

\* No reader ever sees part of a staged file: what a destination holds is
\* what was there, what another client wrote, or one whole spool ("This
\* prevents partial file contents from becoming visible").
NeverPartial ==
  \A p \in Paths :
    \/ dest[p] = Nothing
    \/ dest[p].data = <<0>>
    \/ dest[p].data[1] >= 100 /\ Len(dest[p].data) = 1
    \/ \E i \in Files : Jobs[i].path = p /\ dest[p].data = file[i].spool

\* An exclusive file never replaces anything, whenever the other creator came.
ExclusiveKept ==
     \A p \in Paths, i \in Files :
       (/\ Ours /\ Exclusive(i) /\ Jobs[i].path = p
        /\ dest'[p] # dest[p] /\ dest'[p].data = file[i].spool) => dest[p] = Nothing

\* Nothing is published before every file of the transaction is staged.
StagedFirst ==
     (Ours /\ dest' # dest /\ ~case.manual) =>
       \A i \in Files : file[i].prepared \/ file[i].committed

\* Publication follows the order of the opens: whatever fails, the files
\* exposed are a prefix of those enrolled.
PrefixExposed ==
  case.manual \/ \A j \in seen.exposed : 1..j \subseteq seen.exposed

\* A reported success means every destination holds the last file staged for
\* it, unless another client has changed it since its publication.
CommittedResult ==
  (pc.at = "done" /\ result = "ok" /\ seen.exposed # {}) =>
    \A i \in Files :
      (seen.kept[Jobs[i].path] /\ \A k \in Files : Jobs[k].path = Jobs[i].path => k <= i)
        => dest[Jobs[i].path].data = file[i].spool

\* Replacing a file keeps its permissions and a new file stays private, while
\* nobody else touched the name since prepare() looked at it.
PermissionsKept ==
     \A i \in Files :
       LET p == Jobs[i].path IN
       (Ours /\ seen.fresh[i] /\ dest'[p] # dest[p] /\ dest'[p].data = file[i].spool) =>
         dest'[p].perm = IF dest[p] = Nothing THEN "private" ELSE dest[p].perm

\* A private name that somebody else created is never removed or published.
ForeignKept == case.foreign \in Files => stage[case.foreign] = Foreign

\* When the calls are over, every spool is closed and a private name that is
\* still there is either owned by its handle, which can retry, or was created
\* by an open whose reply was lost.
EverythingReleased ==
  /\ pc.at = "done" => \A i \in Files : ~file[i].open
  /\ pc.at \in {"done", "idle"} =>
       \A i \in Files \ {case.foreign} :
         stage[i] # Nothing => file[i].owned \/ i \in seen.orphan
====
