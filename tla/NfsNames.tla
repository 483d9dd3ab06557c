------------------------------ MODULE NfsNames ------------------------------
(***************************************************************************)
(* Resolution of paths over NFS (nfs/namespace.rs): LOOKUP never follows a *)
(* symbolic link, so the client splices link targets into the path itself. *)
(* A path is a sequence of names from the root of the server; the names    *)
(* below Root are the application's namespace.  An object is a directory   *)
(* (a function from names), a link (its target) or a file.                 *)
(***************************************************************************)
EXTENDS Integers, Sequences, SequencesExt, FiniteSets

CONSTANTS Tree,      \* directory -> name -> object
          Links,     \* objects that are links
          Top,       \* the root directory of the server
          Root,      \* path of the namespace root (connection.root)
          Targets,   \* link targets to enumerate: [abs, path]
          Paths,     \* paths to enumerate, below Root
          MaxHops    \* links followed at most (40)

VARIABLES target,    \* link -> its target
          path,      \* the path of the call
          pc,
          result     \* what each resolver answered

vars == <<target, path, pc, result>>

IsDir(o) == o \in DOMAIN Tree
Error(e) == [node |-> "none", error |-> e]
Node(o) == [node |-> o, error |-> "none"]

(* normalize_bytes: a ".." removes the name before it, none at the top.     *)
Normalize(p) ==
    LET n[i \in 0..Len(p)] ==
          IF i = 0 THEN <<>>
          ELSE LET done == n[i - 1]
               IN  IF p[i] # ".." THEN Append(done, p[i]) ELSE IF done = <<>> THEN done ELSE Front(done)
    IN  n[Len(p)]

(* One LOOKUP (external).                                                   *)
LookupFrom(o, name) ==
    IF o \in Links THEN Error("SYMLINK")
    ELSE IF ~IsDir(o) THEN Error("NOTDIR")
    ELSE IF name \notin DOMAIN Tree[o] THEN Error("NOENT") ELSE Node(Tree[o][name])

(* NfsClient::resolve: a chain of LOOKUPs, ended by the first that fails.   *)
Resolve(p) ==
    LET r[i \in 0..Len(p)] ==
          IF i = 0 THEN Node(Top)
          ELSE LET before == r[i - 1] IN IF before.error # "none" THEN before ELSE LookupFrom(before.node, p[i])
    IN  r[Len(p)]

(* resolve_target: from the namespace root or from the link's directory.    *)
ResolveTarget(link, t) ==
    Root \o Normalize(IF t.abs THEN t.path ELSE Front(SubSeq(link, Len(Root) + 1, Len(link))) \o t.path)

(* resolve_path_and_type.  The component walk stops at the first link,      *)
(* which is the one the chain of LOOKUPs failed behind.                     *)
FirstLink(p) == CHOOSE i \in 1..Len(p) : /\ Resolve(SubSeq(p, 1, i)).node \in Links
                                         /\ \A j \in 1..(i - 1) : Resolve(SubSeq(p, 1, j)).node \notin Links
RECURSIVE ResolvePathAndType(_, _, _)
ResolvePathAndType(p, followFinal, hops) ==
    LET r == Resolve(p)
        i == FirstLink(p)
        link == SubSeq(p, 1, i)
    IN  IF hops > MaxHops THEN Error("LOOP")
        ELSE IF r.error = "SYMLINK"
        THEN ResolvePathAndType(ResolveTarget(link, target[Resolve(link).node]) \o SubSeq(p, i + 1, Len(p)),
                                followFinal, hops + 1)
        ELSE IF r.error = "none" /\ followFinal /\ r.node \in Links
        THEN ResolvePathAndType(ResolveTarget(p, target[r.node]), followFinal, hops + 1)
        ELSE r
ResolvePath(p, followFinal) == ResolvePathAndType(p, followFinal, 0)

(* resolve_files_nfs: the parent is resolved once, the final name looked up *)
(* in it, and a link followed through the whole path when asked.            *)
ResolveFile(p, follow) ==
    LET dir == ResolvePath(Front(p), TRUE)
        r == LookupFrom(dir.node, Last(p))
    IN  IF p = <<>> THEN Node(Top)
        ELSE IF dir.error # "none" THEN dir
        ELSE IF r.error = "none" /\ r.node \in Links /\ follow THEN ResolvePath(p, TRUE) ELSE r

(* follow_target_path: the path an OPEN of p goes to, links of the final    *)
(* component followed one by one.                                           *)
RECURSIVE FollowTargetPath(_, _)
FollowTargetPath(p, hops) ==
    LET st == ResolveFile(p, FALSE)
    IN  IF st.error = "NOENT" THEN [path |-> p, error |-> "none"]
        ELSE IF st.error # "none" THEN [path |-> <<>>, error |-> st.error]
        ELSE IF st.node \notin Links THEN [path |-> p, error |-> "none"]
        ELSE IF hops >= MaxHops THEN [path |-> <<>>, error |-> "LOOP"]
        ELSE FollowTargetPath(ResolveTarget(p, target[st.node]), hops + 1)

(* What an OPEN of the followed path acts on: a name of a directory.        *)
OpenPlace(p) ==
    LET f == FollowTargetPath(p, 0)
        dir == ResolvePath(Front(f.path), TRUE)
    IN  IF f.error # "none" THEN [dir |-> "none", name |-> "none", error |-> f.error]
        ELSE IF f.path = <<>> THEN [dir |-> "none", name |-> "none", error |-> "NOENT"]
        ELSE [dir |-> dir.node, name |-> IF dir.error = "none" THEN Last(f.path) ELSE "none", error |-> dir.error]

NoResult == [followed |-> Error("none"), kept |-> Error("none"), file |-> Error("none"),
             place |-> [dir |-> "none", name |-> "none", error |-> "none"]]

Init ==
    /\ target \in [Links -> Targets]
    /\ path \in {Root \o p : p \in Paths}
    /\ pc = "call" /\ result = NoResult

Call ==
    /\ pc = "call"
    /\ pc' = "done"
    /\ result' = [followed |-> ResolvePath(path, TRUE), kept |-> ResolvePath(path, FALSE),
                  file |-> ResolveFile(path, TRUE), place |-> OpenPlace(path)]
    /\ UNCHANGED <<target, path>>

Next == Call
Spec == Init /\ [][Next]_vars

-----------------------------------------------------------------------------
(* The reference: a walk that follows links where they are met, goes up     *)
(* from the directory it is in, and never above the namespace root.  It     *)
(* differs from POSIX in one thing, as normalize_bytes does: in the target  *)
(* of a link a ".." behind a name removes that name unread, also when it    *)
(* is a link, a file or missing.                                            *)
Cancelled(p) ==
    LET n[i \in 0..Len(p)] ==
          IF i = 0 THEN <<>>
          ELSE IF p[i] = ".." /\ n[i - 1] # <<>> /\ Last(n[i - 1]) # ".." THEN Front(n[i - 1]) ELSE Append(n[i - 1], p[i])
    IN  n[Len(p)]
NamespaceRoot == Resolve(Root).node
RECURSIVE PathWalk(_, _, _, _)
PathWalk(stack, rest, follow, hops) ==
    LET r == LookupFrom(Last(stack), Head(rest))
        t == target[r.node]
    IN  IF rest = <<>> THEN Node(Last(stack))
        ELSE IF Head(rest) = ".."
        THEN PathWalk(IF Len(stack) = 1 THEN stack ELSE Front(stack), Tail(rest), follow, hops)
        ELSE IF r.error # "none" THEN r
        ELSE IF r.node \notin Links THEN PathWalk(Append(stack, r.node), Tail(rest), follow, hops)
        ELSE IF ~follow /\ Tail(rest) = <<>> THEN r
        ELSE IF hops = MaxHops THEN Error("LOOP")
        ELSE PathWalk(IF t.abs THEN <<NamespaceRoot>> ELSE stack, Cancelled(t.path) \o Tail(rest), follow, hops + 1)

Below(p) == SubSeq(p, Len(Root) + 1, Len(p))
Reference(follow) == PathWalk(<<NamespaceRoot>>, Below(path), follow, 0)

(* Resolving a path, with its final link followed or kept, alone or in a    *)
(* vector, finds the object the walk finds, or the same error: links        *)
(* anywhere in the path, links to links, dangling links and cycles.         *)
WalkAgrees ==
    pc = "done" =>
        /\ result.followed = Reference(TRUE)
        /\ result.kept = Reference(FALSE)
        /\ result.file = Reference(TRUE)

(* An OPEN, which follows the final link itself and then names a directory  *)
(* and an entry of it, acts on the object the walk finds, or on the name    *)
(* where it finds none, when no link goes up; the links it follows at the   *)
(* end are counted anew.  A link that goes up is resolved against the path  *)
(* as it was given, so behind a link to a directory OPEN and LOOKUP differ. *)
OpenAgrees ==
    (pc = "done" /\ Reference(TRUE).error # "LOOP" /\ \A l \in Links : ".." \notin Range(target[l].path)) =>
        IF result.place.error = "none" THEN LookupFrom(result.place.dir, result.place.name) = Reference(TRUE)
        ELSE Reference(TRUE).error # "none" \/ Reference(TRUE).node = NamespaceRoot

(* No link, absolute or going up, leads out of the application's namespace. *)
Inside == {NamespaceRoot} \cup UNION {{Tree[d][n] : n \in DOMAIN Tree[d]} : d \in DOMAIN Tree \ {Top}}
StaysInside ==
    pc = "done" => \A r \in {result.followed, result.kept, result.file} : r.error = "none" => r.node \in Inside

-----------------------------------------------------------------------------
(* Vectors of removals, renames, mkdirs and links of the NFS backend        *)
(* (vfsi-nfs: nfs/vector_backend.rs, nfs/namespace.rs).  Removals and       *)
(* renames start as merged compounds, which do not pass through links; from *)
(* the first item they cannot do, the phased forms resolve directories to   *)
(* handles and go on.  Directories get their modes after they were made.    *)

CONSTANTS Dirs, Files,  \* objects
          Fresh,        \* directories not yet made, in the order in which they are
          Names,
          LinkTo,       \* the directory every link names
          Starts,       \* trees: [Dirs -> [Names -> object, "link" or "none"]]
          Vectors,      \* [kind, items, fd]; fd: some operand is an open file; an item is [path, to]
          Denied,       \* names the server refuses to make or remove
          Rank,         \* [parents -> Nat]: the byte order of the directories of a vector's paths
          MaxForeign

VARIABLES ent, mode,   \* mode: directories that have the mode asked for
          vector, call, foreign
phasedVars == <<ent, mode, vector, call, foreign>>

Idle == [pc |-> "idle"]
PhasedInit == ent \in Starts /\ mode = {} /\ vector \in Vectors /\ call = Idle /\ foreign = 0

-----------------------------------------------------------------------------
(* Resolution (PathResolve has its detail) and the server's operations on   *)
(* the handle of a directory.                                               *)
Walk(e, phasedPath, links) ==
    LET at[i \in 0..Len(phasedPath)] ==
          IF i = 0 THEN "root"
          ELSE LET p == at[i - 1]
                   o == IF p \in Dirs THEN e[p][phasedPath[i]] ELSE "none"
               IN  IF o = "link" THEN IF links THEN LinkTo ELSE "none" ELSE o
    IN  at[Len(phasedPath)]
Parent(phasedPath) == SubSeq(phasedPath, 1, Len(phasedPath) - 1)
NameOf(phasedPath) == phasedPath[Len(phasedPath)]
DirOf(e, phasedPath, links) == LET d == Walk(e, Parent(phasedPath), links) IN IF d \in Dirs THEN d ELSE "none"
Empty(e, o) == \A n \in Names : e[o][n] = "none"
Used(e) == {e[d][n] : d \in Dirs, n \in Names}

No(e) == [ok |-> FALSE, ent |-> e]
Yes(e) == [ok |-> TRUE, ent |-> e]
Within(e, d, o) == d = o \/ (o \in Dirs /\ \E n \in Names : e[o][n] = d)
NewDir(e) == LET free == {i \in DOMAIN Fresh : Fresh[i] \notin Used(e)} IN Fresh[CHOOSE i \in free : \A j \in free : i <= j]
(* h: handles of the directory, and of the second directory or the source.  *)
Operate(e, kind, it, h) ==
    LET n == NameOf(it.path)
        o == IF h[1] = "none" THEN "none" ELSE e[h[1]][n]
    IN  IF h[1] = "none" \/ n \in Denied THEN No(e)
        ELSE CASE kind = "remove" -> IF o = "none" \/ (o \in Dirs /\ ~Empty(e, o)) THEN No(e) ELSE Yes([e EXCEPT ![h[1]][n] = "none"])
               [] kind = "rename" ->
                    IF o = "none" \/ h[2] = "none" THEN No(e)
                    ELSE IF Within(e, h[2], o) \/ (e[h[2]][NameOf(it.to)] # "none" /\ {o, e[h[2]][NameOf(it.to)]} \cap Dirs # {}) THEN No(e)
                    ELSE Yes([[e EXCEPT ![h[1]][n] = "none"] EXCEPT ![h[2]][NameOf(it.to)] = o])
               [] kind = "mkdir" -> IF o # "none" THEN No(e) ELSE Yes([e EXCEPT ![h[1]][n] = NewDir(e)])
               [] kind = "symlink" -> IF o # "none" THEN No(e) ELSE Yes([e EXCEPT ![h[1]][n] = "link"])
               [] OTHER -> IF o # "none" \/ h[2] \notin Files \cup {"link"} THEN No(e) ELSE Yes([e EXCEPT ![h[1]][n] = h[2]])
Handles(e, kind, it, links) ==
    <<DirOf(e, it.path, links),
      CASE kind = "rename" -> DirOf(e, it.to, links)
        [] kind = "hardlink" -> IF DirOf(e, it.to, links) = "none" THEN "none" ELSE e[DirOf(e, it.to, links)][NameOf(it.to)]
        [] OTHER -> "none">>

-----------------------------------------------------------------------------
(* vremove_impl and vrename_impl start merged, unless an operand is an open *)
(* file, the others phased.                                                 *)
Begin ==
    /\ call.pc = "idle"
    /\ call' = [pc |-> IF vector.kind \in {"remove", "rename"} /\ ~vector.fd THEN "merged" ELSE "resolve", at |-> 1, base |-> 1,
                got |-> <<>>, order |-> <<>>, log |-> <<>>, error |-> 0, code |-> "none", quiet |-> TRUE, made |-> <<>>,
                before |-> ent]
    /\ UNCHANGED <<ent, mode, vector, foreign>>
Fails(c, k, code) == [c EXCEPT !.pc = "done", !.error = k, !.code = code]

(* removev_path_compound, renamev_path_compound (MergedOps has the detail). *)
ResumeAt(k) == k
MergedItem ==
    /\ call.pc = "merged" /\ call.at <= Len(vector.items)
    /\ LET it == vector.items[call.at]
           r == Operate(ent, vector.kind, it, Handles(ent, vector.kind, it, FALSE))
       IN  /\ ent' = r.ent
           /\ call' = IF r.ok THEN [call EXCEPT !.at = @ + 1, !.log = Append(@, call.at)]
                      ELSE [call EXCEPT !.pc = "resolve", !.base = ResumeAt(call.at)]
    /\ UNCHANGED <<mode, vector, foreign>>
MergedLost ==
    /\ call.pc = "merged" /\ call' = Fails(call, 0, "transport")
    /\ UNCHANGED <<ent, mode, vector, foreign>>
MergedEnds ==
    /\ call.pc = "merged" /\ call.at > Len(vector.items) /\ call' = [call EXCEPT !.pc = "done"]
    /\ UNCHANGED <<ent, mode, vector, foreign>>

(* The phased forms.  Errors of the suffix are counted from its start.      *)
Relative(c, rel) == rel
Index(c, rel) == c.base + rel - 1
Left(c) == Len(vector.items) - c.base + 1

Follow(e, it) == Handles(e, vector.kind, it, TRUE)
Resolved(e, it) == Follow(e, it)

(* renamev_phased, vmkdir_impl, vsymlink_impl, vhardlink_impl: every handle *)
(* before the first operation.                                              *)
Bad(h) == h[1] = "none" \/ (vector.kind \in {"rename", "hardlink"} /\ h[2] = "none")
ResolveName ==
    /\ call.pc = "resolve" /\ vector.kind # "remove" /\ Len(call.got) < Left(call)
    /\ LET k == call.base + Len(call.got)
           h == Resolved(ent, vector.items[k])
       IN  call' = IF Bad(h) THEN Fails(call, Index(call, Len(call.got) + 1), "noent") ELSE [call EXCEPT !.got = Append(@, h)]
    /\ UNCHANGED <<ent, mode, vector, foreign>>
ResolveEnds ==
    /\ call.pc = "resolve" /\ (vector.kind = "remove" \/ Len(call.got) = Left(call))
    /\ call' = [call EXCEPT !.pc = "phased", !.at = 1,
                  !.order = IF vector.kind = "remove"
                            THEN SortSeq([i \in 1..Left(call) |-> i],
                                   LAMBDA i, j : LET R(x) == Rank[Parent(vector.items[Index(call, x)].path)]
                                                 IN  R(i) < R(j) \/ (R(i) = R(j) /\ i < j))
                            ELSE [i \in 1..Left(call) |-> i]]
    /\ UNCHANGED <<ent, mode, vector, foreign>>

(* removev_phased takes the directories in the order of their names and     *)
(* resolves each when its turn comes.                                       *)
PhasedItem ==
    /\ call.pc = "phased" /\ call.at <= Len(call.order)
    /\ LET rel == call.order[call.at]
           it == vector.items[call.base + rel - 1]
           h == IF vector.kind = "remove" THEN Resolved(ent, it) ELSE call.got[rel]
           r == Operate(ent, vector.kind, it, h)
       IN  /\ ent' = r.ent
           /\ call' = IF r.ok THEN [call EXCEPT !.at = @ + 1, !.log = Append(@, call.base + rel - 1),
                                      !.made = IF vector.kind = "mkdir" THEN Append(@, r.ent[h[1]][NameOf(it.path)]) ELSE @]
                      ELSE [call EXCEPT !.pc = IF vector.kind = "mkdir" THEN "modes" ELSE "done", !.error = Index(call, rel),
                                        !.code = "refused"]
    /\ UNCHANGED <<mode, vector, foreign>>
PhasedEnds ==
    /\ call.pc = "phased" /\ call.at > Len(call.order)
    /\ call' = [call EXCEPT !.pc = IF vector.kind = "mkdir" THEN "modes" ELSE "done"]
    /\ UNCHANGED <<ent, mode, vector, foreign>>

(* apply_dir_modes of the directories made, also of those made before a     *)
(* failure; the paths are resolved again.                                   *)
Prefix(c) == Len(c.made)
ModesFor(c) == Prefix(c)
ApplyModes ==
    /\ call.pc = "modes"
    /\ mode' = mode \cup ({Walk(ent, vector.items[k].path, TRUE) : k \in 1..ModesFor(call)} \cap Dirs)
    /\ call' = [call EXCEPT !.pc = "done"]
    /\ UNCHANGED <<ent, vector, foreign>>

Return ==
    /\ call.pc = "done" /\ call' = Idle
    /\ UNCHANGED <<ent, mode, vector, foreign>>

(* Another client makes or removes a file.                                  *)
Others(d, n, f) ==
    /\ foreign < MaxForeign /\ foreign' = foreign + 1 /\ call.pc \notin {"idle", "done"}
    /\ \/ ent[d][n] = "none" /\ f \notin Used(ent) /\ ent' = [ent EXCEPT ![d][n] = f]
       \/ ent[d][n] = f /\ ent' = [ent EXCEPT ![d][n] = "none"]
    /\ call' = [call EXCEPT !.quiet = FALSE]
    /\ UNCHANGED <<mode, vector>>

PhasedNext ==
    \/ Begin \/ MergedItem \/ MergedLost \/ MergedEnds \/ ResolveName \/ ResolveEnds \/ PhasedItem \/ PhasedEnds
    \/ ApplyModes \/ Return
    \/ \E d \in Dirs, n \in Names, f \in Files : d \in Used(ent) \cup {"root"} /\ Others(d, n, f)
PhasedSpec == PhasedInit /\ [][PhasedNext]_phasedVars

-----------------------------------------------------------------------------
Done == call.pc = "done"
InOrder ==
    LET after[i \in 0..Len(vector.items)] ==
          IF i = 0 THEN Yes(call.before)
          ELSE LET p == after[i - 1]
                   it == vector.items[i]
               IN  IF p.ok THEN Operate(p.ent, vector.kind, it, Handles(p.ent, vector.kind, it, TRUE)) ELSE p
    IN  after[Len(vector.items)]
PathsOf(it) == IF vector.kind \in {"rename", "hardlink"} THEN {it.path, it.to} ELSE {it.path}
(* No path of an item lies below, or is, a path of another: what the API     *)
(* asks of a vector ("independent siblings", "independent pairs"), because   *)
(* parents are resolved before the first item is done.                      *)
Independent ==
    \A i, j \in DOMAIN vector.items : i # j =>
        \A p \in PathsOf(vector.items[i]), q \in PathsOf(vector.items[j]) : ~(Len(p) <= Len(q) /\ SubSeq(q, 1, Len(p)) = p)

(* A vector whose items succeed one after the other succeeds and leaves the *)
(* same tree.                                                               *)
OrderedBatch == Done /\ call.quiet /\ call.code # "transport" /\ InOrder.ok => call.error = 0 /\ ent = InOrder.ent
(* It does when the items are independent, also when half of them were done *)
(* merged and the rest phased; <<mkdir b, mkdir b/a>> may fail.             *)
OrderKept == Independent => OrderedBatch

(* The error of independent items names one that cannot be done.            *)
OwnError ==
    Done /\ call.error # 0 /\ call.quiet /\ Independent =>
        LET it == vector.items[call.error]
        IN  /\ call.error \notin Range(call.log)
            /\ ~Operate(ent, vector.kind, it, Handles(ent, vector.kind, it, TRUE)).ok

(* Every directory a vector made has its mode when the call returns, also   *)
(* after a later one was refused.                                           *)
ModesSet == Done /\ call.quiet => \A i \in DOMAIN call.made : call.made[i] \in mode

-----------------------------------------------------------------------------
(* Vectors of attribute updates and queries of the NFS backend (vfsi-nfs:   *)
(* nfs/metadata.rs).  A merged compound handles the items in order, with an *)
(* NVERIFY in front of each SETATTR that must not hit a symbolic link; what *)
(* it cannot finish is taken up by single calls that follow a link, or by   *)
(* the phased form, which resolves every file first.  Other clients rename  *)
(* files between any two operations.                                        *)

CONSTANTS AttrLinks,   \* objects
          AttrNames,
          Target,  \* [Links -> Names]: what a link names
          Held,    \* the file of the caller's open descriptor
          AttrStarts,  \* what names are bound to at first: [Names -> objects or "none"]
          AttrVectors, \* sequences of [name, via, fd, mask]; via: through a linked directory
          Chunk    \* items of one compound

Objs == Files \cup AttrLinks
Settable == {"mode", "times", "owner"}

VARIABLES bind, attr,
          denied,   \* objects whose attributes the server refuses to set or tell
          attrVector, attrCall, attrForeign
attrVars == <<bind, attr, denied, attrVector, attrCall, attrForeign>>

AttrIdle == [pc |-> "idle"]
AttrInit ==
    /\ bind \in AttrStarts /\ attr = [o \in Objs |-> [m \in Settable |-> 0]]
    /\ denied \in {{}} \cup {{o} : o \in Files}
    /\ attrVector \in AttrVectors /\ attrCall = AttrIdle /\ attrForeign = 0

-----------------------------------------------------------------------------
(* path_setattrs_require_type_resolution                                    *)
Guarded(it, follow) == ~it.fd /\ (it.mask = "mode" \/ (follow /\ it.mask = "times"))

(* What the merged compound finds under an item: LOOKUP does not pass       *)
(* through links.                                                           *)
MergedObject(it) == IF it.fd THEN Held ELSE IF it.via THEN "none" ELSE bind[it.name]
(* resolve_follow, resolve_files_nfs; links in a circle end nowhere.        *)
AttrResolved(it, follow) ==
    IF it.fd THEN Held
    ELSE IF follow /\ bind[it.name] \in AttrLinks
    THEN LET o == bind[Target[bind[it.name]]] IN IF o \in AttrLinks THEN "none" ELSE o
    ELSE bind[it.name]

(* vsetattrs_nfs, getattrsv_impl                                            *)
AttrBegin(op, follow) ==
    /\ attrCall.pc = "idle"
    /\ LET bad == {k \in DOMAIN attrVector : attrVector[k].mask \notin Settable}
           owner == \E k \in DOMAIN attrVector : attrVector[k].mask = "owner"
           c == [pc |-> "merged", op |-> op, follow |-> follow, at |-> 1, base |-> 1, got |-> <<>>, error |-> 0,
                 code |-> "none", log |-> <<>>, told |-> [k \in DOMAIN attrVector |-> "none"], refused |-> FALSE,
                 todo |-> <<>>, after |-> "done", quiet |-> TRUE, before |-> attr]
       IN  attrCall' = IF op = "set" /\ bad # {}
                       THEN [c EXCEPT !.pc = "done", !.code = "unsupported", !.error = CHOOSE k \in bad : \A j \in bad : k <= j]
                       ELSE IF op = "set" /\ owner THEN [c EXCEPT !.pc = "resolve"] ELSE c
    /\ UNCHANGED <<bind, attr, denied, attrVector, attrForeign>>

Failing(c, k, code) == [c EXCEPT !.pc = "done", !.error = k, !.code = code]
Set(k, o) == attr' = [attr EXCEPT ![o][attrVector[k].mask] = k]
Logged(c, k, o) == [c EXCEPT !.log = Append(@, <<k, o>>)]

-----------------------------------------------------------------------------
(* The compound fails at item k.  Its prefix stands; a link is followed by  *)
(* itself; anything else is left to the phased form, from k on.             *)
FromStart(c, k) == 1
FromFailed(c, k) == k
AttrResumeAt(c, k) == FromFailed(c, k)
LinksToFollow(c, upto) == SelectSeq([k \in 1..upto |-> k], LAMBDA k : c.follow /\ c.told[k] \in AttrLinks)
Stopped(c, k, same) ==
    IF c.op = "get"
    THEN [c EXCEPT !.pc = "follow", !.todo = LinksToFollow(c, k - 1), !.after = "resolve", !.base = AttrResumeAt(c, k), !.at = k]
    ELSE IF same THEN IF c.follow THEN [c EXCEPT !.pc = "follow", !.todo = <<k>>, !.after = "merged", !.at = k + 1]
                      ELSE Failing(c, k, "unsupported")
    ELSE [c EXCEPT !.pc = "resolve", !.base = AttrResumeAt(c, k), !.at = AttrResumeAt(c, k)]

(* One item of getattr_path_compound or setattr_path_compound_inner.        *)
AttrMergedItem ==
    /\ attrCall.pc = "merged" /\ attrCall.at <= Len(attrVector)
    /\ LET k == attrCall.at
           o == MergedObject(attrVector[k])
           same == attrCall.op = "set" /\ o \in AttrLinks /\ Guarded(attrVector[k], attrCall.follow)
       IN  IF o = "none" \/ same \/ o \in denied
           THEN attrCall' = Stopped(attrCall, k, same) /\ UNCHANGED attr
           ELSE IF attrCall.op = "set"
           THEN Set(k, o) /\ attrCall' = [Logged(attrCall, k, o) EXCEPT !.at = k + 1]
           ELSE attrCall' = [attrCall EXCEPT !.told[k] = o, !.at = k + 1] /\ UNCHANGED attr
    /\ UNCHANGED <<bind, denied, attrVector, attrForeign>>
(* The server refuses a compound as a whole: the phased form starts where   *)
(* the merged form started last.                                            *)
MergedRefused ==
    /\ attrCall.pc = "merged" /\ attrCall.at <= Len(attrVector) /\ (attrCall.at - attrCall.base) % Chunk = 0 /\ ~attrCall.refused
    /\ attrCall' = [attrCall EXCEPT !.pc = "resolve", !.at = attrCall.base, !.refused = TRUE]
    /\ UNCHANGED <<bind, attr, denied, attrVector, attrForeign>>
AttrMergedLost ==
    /\ attrCall.pc = "merged" /\ attrCall' = Failing(attrCall, 0, "transport")
    /\ UNCHANGED <<bind, attr, denied, attrVector, attrForeign>>
AttrMergedEnds ==
    /\ attrCall.pc = "merged" /\ attrCall.at > Len(attrVector)
    /\ attrCall' = IF attrCall.op = "set" THEN [attrCall EXCEPT !.pc = "done"]
                   ELSE [attrCall EXCEPT !.pc = "follow", !.todo = LinksToFollow(attrCall, Len(attrVector)), !.after = "done"]
    /\ UNCHANGED <<bind, attr, denied, attrVector, attrForeign>>

(* stat_one_following, setattr_one_following: a handle is resolved, then    *)
(* used.                                                                    *)
FollowResolve ==
    /\ attrCall.pc = "follow" /\ attrCall.todo # <<>>
    /\ LET o == AttrResolved(attrVector[Head(attrCall.todo)], TRUE)
       IN  attrCall' = IF o = "none" THEN Failing(attrCall, Head(attrCall.todo), "noent")
                       ELSE [attrCall EXCEPT !.pc = "use", !.got = <<o>>]
    /\ UNCHANGED <<bind, attr, denied, attrVector, attrForeign>>
FollowUse ==
    /\ attrCall.pc = "use"
    /\ LET k == Head(attrCall.todo)
           o == attrCall.got[1]
           c == [attrCall EXCEPT !.pc = "follow", !.todo = Tail(@), !.got = <<>>]
       IN  IF o \in denied THEN attrCall' = Failing(attrCall, k, "denied") /\ UNCHANGED attr
           ELSE IF attrCall.op = "set" THEN Set(k, o) /\ attrCall' = Logged(c, k, o)
           ELSE attrCall' = [c EXCEPT !.told[k] = o] /\ UNCHANGED attr
    /\ UNCHANGED <<bind, denied, attrVector, attrForeign>>
FollowEnds ==
    /\ attrCall.pc = "follow" /\ attrCall.todo = <<>>
    /\ attrCall' = [attrCall EXCEPT !.pc = attrCall.after, !.base = IF attrCall.after = "merged" THEN attrCall.at ELSE @, !.got = <<>>]
    /\ UNCHANGED <<bind, attr, denied, attrVector, attrForeign>>

-----------------------------------------------------------------------------
(* vsetattrs_phased_nfs, getattrsv_phased: handles of all items from base   *)
(* on, then the operations on them.                                         *)
Unmapped(c, rel) == rel
AttrIndex(c, rel) == c.base + rel - 1
PhasedResolve ==
    /\ attrCall.pc = "resolve" /\ attrCall.base + Len(attrCall.got) <= Len(attrVector)
    /\ attrCall' = [attrCall EXCEPT !.got = Append(@, AttrResolved(attrVector[attrCall.base + Len(@)], attrCall.follow))]
    /\ UNCHANGED <<bind, attr, denied, attrVector, attrForeign>>
PhasedCheck ==
    /\ attrCall.pc = "resolve" /\ attrCall.base + Len(attrCall.got) > Len(attrVector)
    /\ LET missing == {r \in DOMAIN attrCall.got : attrCall.got[r] = "none"}
           links == {r \in DOMAIN attrCall.got : /\ attrCall.op = "set" /\ ~attrCall.follow /\ attrCall.got[r] \in AttrLinks
                                                 /\ attrVector[attrCall.base + r - 1].mask = "mode"}
           first == CHOOSE r \in missing \cup links : \A q \in missing \cup links : r <= q
       IN  attrCall' = IF missing \cup links # {}
                       THEN Failing(attrCall, AttrIndex(attrCall, first), IF first \in missing THEN "noent" ELSE "unsupported")
                       ELSE [attrCall EXCEPT !.pc = "phased", !.at = 1]
    /\ UNCHANGED <<bind, attr, denied, attrVector, attrForeign>>
AttrPhasedItem ==
    /\ attrCall.pc = "phased" /\ attrCall.at <= Len(attrCall.got)
    /\ LET k == attrCall.base + attrCall.at - 1
           o == attrCall.got[attrCall.at]
       IN  IF o \in denied THEN attrCall' = Failing(attrCall, AttrIndex(attrCall, attrCall.at), "denied") /\ UNCHANGED attr
           ELSE IF attrCall.op = "set" THEN Set(k, o) /\ attrCall' = [Logged(attrCall, k, o) EXCEPT !.at = @ + 1]
           ELSE attrCall' = [attrCall EXCEPT !.told[k] = o, !.at = @ + 1] /\ UNCHANGED attr
    /\ UNCHANGED <<bind, denied, attrVector, attrForeign>>
AttrPhasedEnds ==
    /\ attrCall.pc = "phased" /\ attrCall.at > Len(attrCall.got) /\ attrCall' = [attrCall EXCEPT !.pc = "done"]
    /\ UNCHANGED <<bind, attr, denied, attrVector, attrForeign>>
AttrReturn ==
    /\ attrCall.pc = "done" /\ attrCall' = AttrIdle
    /\ attr' = [o \in Objs |-> [m \in Settable |-> 0]]
    /\ UNCHANGED <<bind, denied, attrVector, attrForeign>>

(* Another client puts another object under a name.                         *)
Rename(n, o) ==
    /\ attrForeign < MaxForeign /\ attrForeign' = attrForeign + 1 /\ attrCall.pc \notin {"idle", "done"} /\ bind[n] # o
    /\ bind' = [bind EXCEPT ![n] = o] /\ attrCall' = [attrCall EXCEPT !.quiet = FALSE]
    /\ UNCHANGED <<attr, denied, attrVector>>

AttrNext ==
    \/ AttrMergedItem \/ MergedRefused \/ AttrMergedLost \/ AttrMergedEnds \/ FollowResolve \/ FollowUse \/ FollowEnds
    \/ PhasedResolve \/ PhasedCheck \/ AttrPhasedItem \/ AttrPhasedEnds \/ AttrReturn
    \/ \E op \in {"set", "get"}, follow \in BOOLEAN : AttrBegin(op, follow)
    \/ \E n \in AttrNames, o \in Objs : Rename(n, o)
AttrSpec == AttrInit /\ [][AttrNext]_attrVars

-----------------------------------------------------------------------------
AttrDone == attrCall.pc = "done"
Succeeded == AttrDone /\ attrCall.code = "none"
Applications(k) == {i \in DOMAIN attrCall.log : attrCall.log[i][1] = k}

(* An update that follows links lands on no link, and one that does not     *)
(* changes no link's mode: whatever is renamed between the check and the    *)
(* update.                                                                  *)
LinksSpared ==
    attrCall.pc # "idle" => \A i \in DOMAIN attrCall.log :
            LET k == attrCall.log[i][1] IN attrCall.log[i][2] \in AttrLinks => ~attrCall.follow /\ attrVector[k].mask # "mode"

(* A vector that succeeds on names that stay has updated the object of      *)
(* every item, and nothing else, in the order of the vector.                *)
Final(o, m) ==
    LET hits == {k \in DOMAIN attrVector : attrVector[k].mask = m /\ AttrResolved(attrVector[k], attrCall.follow) = o}
    IN  IF hits = {} THEN attrCall.before[o][m] ELSE CHOOSE k \in hits : \A j \in hits : j <= k
SequentialUpdates ==
    Succeeded /\ attrCall.quiet /\ attrCall.op = "set" => \A o \in Objs, m \in Settable : attr[o][m] = Final(o, m)

(* No item is updated twice, unless the server refused a compound as a      *)
(* whole and the phased form repeats what earlier compounds did.            *)
UpdatedOnce ==
    attrCall.pc # "idle" /\ ~attrCall.refused => \A k \in DOMAIN attrVector : Cardinality(Applications(k)) <= 1

(* The error names the item that is at fault.                               *)
AttrOwnError ==
    AttrDone /\ attrCall.quiet =>
        CASE attrCall.code = "noent" -> AttrResolved(attrVector[attrCall.error], attrCall.follow) = "none"
          [] attrCall.code = "denied" -> AttrResolved(attrVector[attrCall.error], attrCall.follow) \in denied
          [] attrCall.code = "unsupported" ->
               \/ attrVector[attrCall.error].mask \notin Settable
               \/ ~attrCall.follow /\ attrVector[attrCall.error].mask = "mode" /\ bind[attrVector[attrCall.error].name] \in AttrLinks
          [] OTHER -> TRUE

(* Every answer describes the object of its own item, and with links        *)
(* followed never a link, also when the answers come from three calls.      *)
StatsOwn ==
    Succeeded /\ attrCall.op = "get" => \A k \in DOMAIN attrVector :
        /\ attrCall.told[k] # "none"
        /\ attrCall.quiet => attrCall.told[k] = AttrResolved(attrVector[k], attrCall.follow)
        /\ attrCall.follow => attrCall.told[k] \notin AttrLinks
=============================================================================
