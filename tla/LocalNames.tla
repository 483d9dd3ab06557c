----------------------------- MODULE LocalNames -----------------------------
(* Path operands of the local backend (crates/vfsi-local: lib.rs).  A path  *)
(* is resolved below the root in several system calls: the parent is opened *)
(* and held, a link in the last place is read and resolved by hand, the     *)
(* object is pinned with O_PATH, and only then is it changed, one attribute *)
(* after the other.  Another process may rebind names between any two of    *)
(* them.  Names outside the root are never changed by it.                   *)
EXTENDS Integers, Sequences, SequencesExt, FiniteSets

CONSTANTS Names,      \* names of entries
          Dirs, Files, Links,
          Target,     \* of a link: [abs, path]
          Outside,    \* objects that are not below the root
          Start,      \* initial entries and files whose mode denies writing
          Theirs,     \* objects of another user: their owner, mode and times cannot be set
          Placeable,  \* what the other process binds to a name
          Paths,      \* operands
          Updates,    \* attributes set by one call, as sets
          MaxDepth,   \* links followed in the last place (40 in the code)
          Hops,       \* links the kernel follows in one walk (40)
          MaxForeign, \* changes by the other process
          MaxCalls    \* calls in a behaviour

VARIABLES ent,        \* what the names of a directory are bound to
          readonly,   \* files whose mode denies writing
          call, foreign, calls
vars == <<ent, readonly, call, foreign, calls>>

Top == "host"
Root == "root"
Objects == Dirs \cup Files \cup Links
Idle == [pc |-> "idle"]
Bound(o) == \E d \in Dirs, n \in Names : ent[d][n] = o
Up(d) == IF \E e \in Dirs, n \in Names : ent[e][n] = d
         THEN CHOOSE e \in Dirs : \E n \in Names : ent[e][n] = d ELSE Root

(* Path lookup by the kernel from directory d; openat2 with RESOLVE_IN_ROOT *)
(* takes the root for "/", and does not climb over it.                      *)
RECURSIVE Walk(_, _, _, _, _)
Walk(d, path, follow, top, hops) ==
    IF path = <<>> THEN d
    ELSE IF d \notin Dirs THEN "notdir"
    ELSE LET h == Head(path)
             o == ent[d][h]
             rest == Tail(path)
         IN  IF h = ".." THEN Walk(IF d = top THEN d ELSE Up(d), rest, follow, top, hops)
             ELSE IF o = "none" THEN "noent"
             ELSE IF o \in Links /\ (follow \/ rest # <<>>)
                  THEN IF hops = 0 THEN "loop"
                       ELSE Walk(IF Target[o].abs THEN top ELSE d, Target[o].path \o rest, follow, top, hops - 1)
             ELSE Walk(o, rest, follow, top, hops)
InRoot(path) == Walk(Root, path, TRUE, Root, Hops)

EntryAt(d, n) == IF n = "." THEN d ELSE ent[d][n]

Init ==
    /\ \E s \in Start : ent = s.ent /\ readonly = s.readonly
    /\ call = Idle /\ foreign = 0 /\ calls = 0

(* An operation resolves its paths one after the other, then makes the      *)
(* system calls of todo.                                                    *)
Begin(op, follow, paths, todo) ==
    /\ call.pc = "idle" /\ calls < MaxCalls /\ calls' = calls + 1
    /\ call' = [pc |-> "walk", op |-> op, follow |-> follow, todo |-> todo, asked |-> todo,
                path |-> Head(paths), p |-> Head(paths), rest |-> Tail(paths), depth |-> 0,
                dir |-> "none", name |-> "none", places |-> <<>>, found |-> "none", fd |-> "none",
                kind |-> "none", quiet |-> TRUE, ok |-> TRUE, touched |-> {},
                denied |-> readonly]  \* ghost
    /\ UNCHANGED <<ent, readonly, foreign>>

Failed(c) == [c EXCEPT !.pc = "done", !.ok = FALSE]
Placed(c, place, found) ==
    LET d == [c EXCEPT !.places = Append(@, place), !.found = found]
    IN  IF c.rest = <<>> THEN [d EXCEPT !.pc = "act"]
        ELSE [d EXCEPT !.pc = "walk", !.depth = 0, !.path = Head(c.rest), !.p = Head(c.rest), !.rest = Tail(@)]
ByName(c, o) == [pin |-> "none", dir |-> c.dir, name |-> c.name]
Pinned(c, o) == [pin |-> o, dir |-> c.dir, name |-> c.name]

(* no_follow_path: the parent of the path, held open; the last name stays.  *)
(* A path that ends in ".." has no last name.                               *)
LastName(p) == IF p = <<>> \/ Last(p) = ".." THEN "." ELSE Last(p)
FrontOf(p) == IF p = <<>> THEN p ELSE Front(p)
Follows(c) == c.follow
NoFollowPath ==
    /\ call.pc = "walk"
    /\ LET d == InRoot(FrontOf(call.p))
           c == [call EXCEPT !.dir = d, !.name = LastName(call.p)]
       IN  call' = IF d \notin Dirs THEN Failed(call)
                   ELSE IF Follows(call) THEN [c EXCEPT !.pc = "lstat"]
                   ELSE Placed(c, ByName(c, "none"), "none")
    /\ UNCHANGED <<ent, readonly, foreign, calls>>

(* real_path_depth: a link in the last place is read and its target         *)
(* resolved from the top, an absolute one below the root.                   *)
IsLink ==
    /\ call.pc = "lstat"
    /\ call' = [call EXCEPT !.pc = IF EntryAt(call.dir, call.name) \in Links THEN "readlink" ELSE "pin"]
    /\ UNCHANGED <<ent, readonly, foreign, calls>>

Normal(path) ==
    FoldLeft(LAMBDA acc, c : IF c # ".." THEN Append(acc, c) ELSE FrontOf(acc), <<>>, path)
TargetPath(p, l) == IF Target[l].abs THEN Normal(Target[l].path) ELSE FrontOf(p) \o Target[l].path
Deeper(c) == c.depth + 1
ReadLink ==
    /\ call.pc = "readlink"
    /\ LET l == EntryAt(call.dir, call.name)
       IN  call' = IF l \notin Links \/ Deeper(call) > MaxDepth THEN Failed(call)
                   ELSE [call EXCEPT !.pc = "walk", !.p = TargetPath(@, l), !.depth = Deeper(call)]
    /\ UNCHANGED <<ent, readonly, foreign, calls>>

(* The object is pinned; a missing one leaves the held parent and the name. *)
PlaceOf(c, o) == Pinned(c, o)
Pin ==
    /\ call.pc = "pin"
    /\ LET o == InRoot(call.p)
       IN  call' = IF o \in Objects THEN Placed(call, PlaceOf(call, o), o)
                   ELSE IF o = "noent" THEN Placed(call, ByName(call, o), "none")
                   ELSE Failed(call)
    /\ UNCHANGED <<ent, readonly, foreign, calls>>

-----------------------------------------------------------------------------
(* System calls on a place: on the pinned object, or on the entry of the    *)
(* held parent without following it (O_NOFOLLOW).                           *)
Place == Last(call.places)
ReachFollowing(pl) ==
    IF pl.pin # "none" THEN pl.pin ELSE Walk(pl.dir, <<pl.name>>, TRUE, Top, Hops)
Reach(pl) == IF pl.pin # "none" THEN pl.pin ELSE EntryAt(pl.dir, pl.name)

Doing(what) == call.pc = "act" /\ Head(call.todo) = what
Proceed(c) == IF Len(c.todo) = 1 THEN [c EXCEPT !.pc = "done"] ELSE [c EXCEPT !.todo = Tail(@)]
Touching(c, o) == [c EXCEPT !.touched = @ \cup {[obj |-> o, attr |-> Head(c.todo)]}]
Fails == call' = Failed(call) /\ UNCHANGED <<ent, readonly, foreign, calls>>
Changes(o) == call' = Proceed(Touching(call, o)) /\ UNCHANGED <<ent, foreign, calls>>

(* vsetattrs_raw_nofollow_impl: the type is looked at first.                *)
Check ==
    /\ Doing("check")
    /\ IF Reach(Place) \in Links \cup {"none"} THEN Fails
       ELSE call' = Proceed(call) /\ UNCHANGED <<ent, readonly, foreign, calls>>
SetSize ==
    /\ Doing("size")
    /\ LET o == Reach(Place)
       IN  IF o \in Files /\ o \notin readonly THEN Changes(o) /\ UNCHANGED readonly ELSE Fails
SetOwnerFollowing ==
    /\ Doing("owner")
    /\ LET o == IF call.follow THEN ReachFollowing(Place) ELSE Reach(Place)
       IN  IF o \in Objects THEN Changes(o) /\ UNCHANGED readonly ELSE Fails
SetOwner ==
    /\ Doing("owner")
    /\ LET o == Reach(Place)
       IN  IF o \in Objects \ Theirs /\ ~(call.follow /\ Place.pin = "none")
           THEN Changes(o) /\ UNCHANGED readonly ELSE Fails
SetMode ==
    /\ Doing("mode")
    /\ LET o == Reach(Place)
       IN  IF o \in Objects \ (Links \cup Theirs)
           THEN Changes(o) /\ readonly' \in {readonly \ {o}, readonly \cup ({o} \cap Files)} ELSE Fails
SetTimes ==
    /\ Doing("times")
    /\ LET o == Reach(Place)
       IN  IF o \in Objects \ (Links \cup Theirs) THEN Changes(o) /\ UNCHANGED readonly ELSE Fails

(* open_path_impl: an exclusive open first tells a new file from an old     *)
(* one.                                                                     *)
Unborn(o) == ~Bound(o)
BindAs(pl, o) == ent' = [ent EXCEPT ![pl.dir][pl.name] = o]
Opened(o) == call' = Proceed([Touching(call, o) EXCEPT !.fd = o])
ExclOpen ==
    /\ Doing("exclopen")
    /\ IF Reach(Place) = "none" /\ Unborn("new")
       THEN /\ BindAs(Place, "new") /\ UNCHANGED <<readonly, foreign, calls>>
            /\ call' = [Touching(call, "new") EXCEPT !.pc = "done", !.fd = "new"]
       ELSE IF call.op = "exclusive" THEN Fails
       ELSE call' = Proceed(call) /\ UNCHANGED <<ent, readonly, foreign, calls>>
Open ==
    /\ Doing("open")
    /\ LET o == Reach(Place)
       IN  IF o = "none" /\ call.op # "existing" /\ Unborn("new")
           THEN BindAs(Place, "new") /\ Opened("new") /\ UNCHANGED <<readonly, foreign, calls>>
           ELSE IF o \in Files /\ o \notin readonly
           THEN Opened(o) /\ UNCHANGED <<ent, readonly, foreign, calls>>
           ELSE Fails
(* writev_one, copy_extent: data goes to the file that was opened.          *)
OpenSource ==
    /\ Doing("source")
    /\ IF Reach(Head(call.places)) \in Files
       THEN call' = Proceed(call) /\ UNCHANGED <<ent, readonly, foreign, calls>> ELSE Fails
Data == Doing("data") /\ Changes(call.fd) /\ UNCHANGED readonly

(* vremove_impl: lstat decides between unlink and rmdir.                    *)
Type ==
    /\ Doing("type")
    /\ IF Reach(Place) = "none" THEN Fails
       ELSE /\ call' = [Proceed(call) EXCEPT !.kind = IF Reach(Place) \in Dirs THEN "dir" ELSE "file"]
            /\ UNCHANGED <<ent, readonly, foreign, calls>>
Empty(d) == \A n \in Names : ent[d][n] = "none"
Unlink ==
    /\ Doing("unlink")
    /\ LET o == Reach(Place)
       IN  IF IF call.kind = "dir" THEN o \in Dirs /\ Empty(o) ELSE o \in Files \cup Links
           THEN BindAs(Place, "none") /\ call' = Proceed(call) /\ UNCHANGED <<readonly, foreign, calls>>
           ELSE Fails

(* vmkdir_impl: the mode is applied to the entry, if it is a directory.     *)
MakeDir ==
    /\ Doing("mkdir")
    /\ IF Reach(Place) = "none" /\ Unborn("made")
       THEN BindAs(Place, "made") /\ call' = Proceed(call) /\ UNCHANGED <<readonly, foreign, calls>>
       ELSE Fails
DirMode ==
    /\ Doing("dirmode")
    /\ IF Reach(Place) \in Dirs THEN Changes(Reach(Place)) /\ UNCHANGED readonly ELSE Fails

Symlink ==
    /\ Doing("symlink")
    /\ IF Reach(Place) = "none"
       THEN /\ \E l \in Links \cap Placeable : BindAs(Place, l)
            /\ call' = Proceed(call) /\ UNCHANGED <<readonly, foreign, calls>>
       ELSE Fails
(* vhardlink_impl resolves the new name first.                              *)
HardLink ==
    /\ Doing("link")
    /\ LET old == Reach(Place)
           new == Head(call.places)
       IN  IF old \in Files \cup Links /\ Reach(new) = "none"
           THEN BindAs(new, old) /\ call' = Proceed(call) /\ UNCHANGED <<readonly, foreign, calls>>
           ELSE Fails

(* vrename_impl, vrename_with_options_impl.                                 *)
RECURSIVE Below(_, _)
Below(d, e) == d = e \/ (d # Root /\ d # Top /\ Below(Up(d), e))
Replaces(s, d) == d = "none" \/ (IF s \in Dirs THEN d \in Dirs /\ Empty(d) ELSE d \notin Dirs)
Rename(mode) ==
    /\ Doing(mode)
    /\ LET a == Head(call.places)
           b == Place
           s == Reach(a)
           d == Reach(b)
           fits == CASE mode = "replace" -> Replaces(s, d)
                     [] mode = "noreplace" -> d = "none"
                     [] OTHER -> d # "none"
           loops == (s \in Dirs /\ Below(b.dir, s)) \/ (d \in Dirs /\ mode = "exchange" /\ Below(a.dir, d))
       IN  IF s # "none" /\ fits /\ ~loops
           THEN /\ ent' = IF s = d THEN ent
                          ELSE [ent EXCEPT ![a.dir][a.name] = IF mode = "exchange" THEN d ELSE "none",
                                           ![b.dir][b.name] = s]
                /\ call' = Proceed(call) /\ UNCHANGED <<readonly, foreign, calls>>
           ELSE Fails

Return ==
    /\ call.pc = "done" /\ call' = Idle
    /\ UNCHANGED <<ent, readonly, foreign, calls>>

(* The other process binds a name below the root anew.                      *)
Rebind ==
    /\ foreign < MaxForeign /\ foreign' = foreign + 1 /\ call.pc \notin {"idle", "done"}
    /\ \E d \in Dirs \ (Outside \cup {Top}), n \in Names, o \in Placeable \cup {"none"} :
         /\ ent[d][n] # o /\ (o \in Dirs => d = Root /\ ~Bound(o))
         /\ (ent[d][n] \in Dirs => ~Below(d, ent[d][n]))
         /\ ent' = [ent EXCEPT ![d][n] = o]
    /\ call' = [call EXCEPT !.quiet = FALSE]
    /\ UNCHANGED <<readonly, calls>>

-----------------------------------------------------------------------------
(* setattr_path: the mode last, so that it cannot deny the new size.        *)
Order(attrs) == SelectSeq(<<"size", "owner", "mode", "times">>, LAMBDA a : a \in attrs)
SetAttrs(path, attrs, follow) ==
    Begin("setattr", follow, <<path>>, (IF follow \/ attrs = {"owner"} THEN <<>> ELSE <<"check">>) \o Order(attrs))
Single(path) ==
    \/ \E attrs \in Updates, follow \in BOOLEAN : SetAttrs(path, attrs, follow)
    \/ Begin("exclusive", FALSE, <<path>>, <<"exclopen">>)
    \/ \E follow \in BOOLEAN : \/ Begin("create", follow, <<path>>, <<"exclopen", "open">>)
                               \/ Begin("existing", follow, <<path>>, <<"open">>)
    \/ Begin("write", TRUE, <<path>>, <<"open", "data">>)
    \/ Begin("remove", FALSE, <<path>>, <<"type", "unlink">>)
    \/ Begin("mkdir", FALSE, <<path>>, <<"mkdir", "dirmode">>)
    \/ Begin("symlink", FALSE, <<path>>, <<"symlink">>)
Double(p, q) ==
    \/ Begin("copy", TRUE, <<p, q>>, <<"source", "open", "data">>)
    \/ Begin("hardlink", FALSE, <<p, q>>, <<"link">>)
    \/ \E mode \in {"replace", "noreplace", "exchange"} : Begin("rename", FALSE, <<p, q>>, <<mode>>)

Attribute == Check \/ SetSize \/ SetOwner \/ SetMode \/ SetTimes
Act == Attribute \/ ExclOpen \/ Open \/ OpenSource \/ Data \/ Type \/ Unlink \/ MakeDir \/ DirMode
       \/ Symlink \/ HardLink \/ \E mode \in {"replace", "noreplace", "exchange"} : Rename(mode)
Step == NoFollowPath \/ IsLink \/ ReadLink \/ Pin \/ Act \/ Return
Next == Step \/ Rebind \/ (\E p \in Paths : Single(p)) \/ (\E p, q \in Paths : Double(p, q))
Spec == Init /\ [][Next]_vars

-----------------------------------------------------------------------------
(* No call changes an object that is not below the root, whatever links the *)
(* other process puts in place between the system calls (AnchoredPath,      *)
(* protect_create_open, chown_path).                                        *)
ChangesInside == call.pc # "idle" => \A t \in call.touched : t.obj \notin Outside

(* A following update of an object that was there when its path was         *)
(* resolved gives all its attributes to that object, though the name is     *)
(* bound to another one meanwhile.                                          *)
OneObject ==
    call.pc = "done" /\ call.ok /\ call.op = "setattr" /\ call.found # "none" =>
        call.touched = {[obj |-> call.found, attr |-> call.asked[k]] : k \in DOMAIN call.asked}

(* Without interference a failed update of an object stops at an attribute  *)
(* that could not be set before the call either (the size of a file that    *)
(* denies writing or of no file, the rest of another user's object), never  *)
(* because of what the update itself set: the mode comes after the size.    *)
(* The attributes before it stay set, a truncation included; the code       *)
(* undoes none of them.                                                     *)
Attrs(c) == SelectSeq(c.asked, LAMBDA a : a # "check")
Refused(c, o, a) == IF a = "size" THEN o \notin Files \/ o \in c.denied ELSE o \in Theirs \cup Links
PrefixUpdate ==
    call.pc = "done" /\ ~call.ok /\ call.op = "setattr" /\ call.quiet /\ call.found # "none" =>
        \E k \in DOMAIN Attrs(call) :
            /\ call.touched = {[obj |-> call.found, attr |-> Attrs(call)[j]] : j \in 1..k - 1}
            /\ Refused(call, call.found, Attrs(call)[k])

(* Resolving the last link by hand finds what the kernel would find below   *)
(* the root.                                                                *)
ResolvesAsKernel ==
    call.pc = "act" /\ call.follow /\ call.quiet /\ Len(call.places) = 1 /\ call.todo = call.asked =>
        IF call.found = "none" THEN InRoot(call.path) = "noent" ELSE InRoot(call.path) = call.found

-----------------------------------------------------------------------------
(* Listings of the local backend (crates/vfsi-local: lib.rs): a page at a   *)
(* time from a cursor that holds the directory open, an entry at a time to  *)
(* a callback, or recursively into one vector.  The directory is opened     *)
(* without following a link in the last place (or, strictly, anywhere),     *)
(* names are read from it, and the attributes of each name are looked up    *)
(* below the held directory, so that renaming the directory meanwhile       *)
(* changes nothing.  Another process rebinds names between the calls.       *)

CONSTANTS ListDirs, ListFiles, ListLinks,
          LinkTo,             \* the directory a link names
          ListStart,              \* initial entries
          ListPlaceable,          \* what the other process binds to a name
          ListPaths,              \* directories listed, as sequences of names
          PageSize,
          Limits,             \* max_count or max_entries, 0 for none
          ListMaxForeign          \* changes by the other process

VARIABLES listEnt, list, listForeign,
          was         \* what a directory has held so far
listVars == <<listEnt, list, listForeign, was>>

ListIdle == [pc |-> "idle"]
Held(d) == {listEnt[d][n] : n \in Names}
ListInit ==
    /\ listEnt \in ListStart /\ list = ListIdle /\ listForeign = 0
    /\ was = [d \in ListDirs |-> Held(d)]

(* open_directory_no_follow_final, strict_directory_path: one openat2.      *)
OpenDir(path, strict) ==
    LET at[k \in 0..Len(path)] ==
          IF k = 0 THEN Root
          ELSE LET d == at[k - 1]
                   o == IF d \in ListDirs THEN listEnt[d][path[k]] ELSE "none"
               IN  IF o \in ListLinks
                   THEN IF strict \/ k = Len(path) THEN "none" ELSE LinkTo[o]
                   ELSE o
    IN  at[Len(path)]

ListBegin(op, path, strict, limit) ==
    /\ list.pc = "idle"
    /\ list' = [pc |-> "open", op |-> op, strict |-> strict, limit |-> limit, top |-> path, pending |-> <<path>>,
                dir |-> "none", path |-> path, here |-> {}, seen |-> {}, name |-> "none", obj |-> "none",
                children |-> <<>>, page |-> 0, out |-> <<>>, ok |-> TRUE, quiet |-> TRUE]
    /\ UNCHANGED <<listEnt, listForeign, was>>

ListFailed(c) == [c EXCEPT !.pc = "done", !.ok = FALSE]
BoundIn(d) == {n \in Names : listEnt[d][n] # "none"}
Full(c) == c.limit # 0 /\ Len(c.out) >= c.limit

(* The last of the pending directories is opened and its names are read.    *)
ListOpen ==
    /\ list.pc = "open"
    /\ LET path == Last(list.pending)
           d == OpenDir(path, list.strict)
       IN  list' = IF list.op = "rec" /\ Full(list) THEN [list EXCEPT !.pc = "done"]
                   ELSE IF d \notin ListDirs THEN ListFailed(list)
                   ELSE [list EXCEPT !.pc = "next", !.dir = d, !.path = path, !.pending = Front(@),
                                     !.here = BoundIn(d), !.seen = {}, !.children = <<>>]
    /\ UNCHANGED <<listEnt, listForeign, was>>

(* The next name: the names there when the directory was opened come once,  *)
(* those bound later may come or not.                                       *)
Stops(c) == CASE c.op = "page" -> c.page = PageSize
              [] OTHER -> Full(c)
Name ==
    /\ list.pc = "next" /\ ~Stops(list)
    /\ \E n \in (list.here \cup BoundIn(list.dir)) \ list.seen :
         list' = [list EXCEPT !.pc = "stat", !.name = n, !.seen = @ \cup {n}]
    /\ UNCHANGED <<listEnt, listForeign, was>>

(* A page is full: the cursor keeps the directory until the caller goes on. *)
Pause ==
    /\ list.pc = "next" /\ list.op = "page" /\ Stops(list)
    /\ list' = [list EXCEPT !.pc = "paused", !.page = 0]
    /\ UNCHANGED <<listEnt, listForeign, was>>
Resume ==
    /\ list.pc = "paused" /\ list' = [list EXCEPT !.pc = "next"]
    /\ UNCHANGED <<listEnt, listForeign, was>>

(* No more names, or enough entries: the children of this directory come    *)
(* next, before the directories that were already pending.                  *)
ListDeeper(c) == c.pending \o Reverse(c.children)
Exhausted(c) == c.here \subseteq c.seen
EndDir ==
    /\ list.pc = "next"
    /\ Exhausted(list) \/ (list.op # "page" /\ Stops(list))
    /\ list' = IF list.op = "rec" /\ ListDeeper(list) # <<>>
               THEN [list EXCEPT !.pc = "open", !.pending = ListDeeper(list)]
               ELSE [list EXCEPT !.pc = "done"]
    /\ UNCHANGED <<listEnt, listForeign, was>>

(* directory_entry_attrs: lstat below the held directory; a name that is    *)
(* gone fails the listing.                                                  *)
Looked(c) == listEnt[c.dir][c.name]
Stat ==
    /\ list.pc = "stat"
    /\ LET o == Looked(list)
       IN  list' = IF o = "none" THEN ListFailed(list) ELSE [list EXCEPT !.pc = "xattr", !.obj = o]
    /\ UNCHANGED <<listEnt, listForeign, was>>

(* fill_attrs: the extended attributes are asked for by name once more; the *)
(* entry is appended or shown to the callback, which may stop the visit.    *)
Fill ==
    /\ list.pc = "xattr"
    /\ LET x == Looked(list)
           path == Append(list.path, list.name)
           entry == [path |-> path, obj |-> list.obj, xattr |-> x, dir |-> list.dir]
           more == [list EXCEPT !.pc = "next", !.out = Append(@, entry), !.page = @ + 1,
                                !.children = IF list.obj \in ListDirs THEN Append(@, path) ELSE @]
       IN  \/ list' = IF x = "none" THEN ListFailed(list) ELSE more
           \/ list.op = "visit" /\ x # "none" /\ list' = [more EXCEPT !.pc = "done", !.quiet = FALSE]
    /\ UNCHANGED <<listEnt, listForeign, was>>

ListReturn == list.pc = "done" /\ list' = ListIdle /\ UNCHANGED <<listEnt, listForeign, was>>

(* The other process binds a name anew, or moves a directory away.          *)
ListRebind ==
    /\ listForeign < ListMaxForeign /\ listForeign' = listForeign + 1 /\ list.pc \notin {"idle", "done"}
    /\ \E d \in ListDirs, n \in Names, o \in ListPlaceable \cup {"none"} :
         /\ listEnt[d][n] # o /\ (o \in ListDirs => d = Root /\ \A m \in Names : listEnt[Root][m] # o)
         /\ listEnt' = [listEnt EXCEPT ![d][n] = o]
    /\ was' = [d \in ListDirs |-> was[d] \cup Held(d)']
    /\ list' = [list EXCEPT !.quiet = FALSE, !.here = IF list.dir \in ListDirs THEN {n \in @ : listEnt'[list.dir][n] # "none"} ELSE @]

ListNext ==
    \/ \E path \in ListPaths, strict \in BOOLEAN : ListBegin("page", path, strict, 0)
    \/ \E path \in ListPaths, limit \in Limits, op \in {"visit", "rec"} : ListBegin(op, path, FALSE, limit)
    \/ ListOpen \/ Name \/ Pause \/ Resume \/ EndDir \/ Stat \/ Fill \/ ListReturn \/ ListRebind
ListSpec == ListInit /\ [][ListNext]_listVars

-----------------------------------------------------------------------------
(* Every attribute of an entry describes what its name is bound to in the   *)
(* directory the listing holds, though another directory has taken its      *)
(* path.                                                                    *)
AttrsOfHeld ==
    list.pc # "idle" => \A i \in DOMAIN list.out : {list.out[i].obj, list.out[i].xattr} \subseteq was[list.out[i].dir]

Done(op) == list.pc = "done" /\ list.ok /\ list.op = op

(* Pages together hold every name that stayed in the directory exactly      *)
(* once, however many pauses lie between them.                              *)
PagesOnce ==
    Done("page") =>
        /\ \A i, j \in DOMAIN list.out : i # j => list.out[i].path # list.out[j].path
        /\ \A n \in list.here : \E i \in DOMAIN list.out : list.out[i].path = Append(list.top, n)

(* A recursive listing of a tree at rest holds everything below the         *)
(* directory exactly once, directories before what is in them, and stops at *)
(* its limit exactly.                                                       *)
RECURSIVE ListBelow(_, _)
ListBelow(d, path) ==
    UNION {{Append(path, n)} \cup (IF listEnt[d][n] \in ListDirs THEN ListBelow(listEnt[d][n], Append(path, n)) ELSE {})
             : n \in BoundIn(d)}
RecursiveWhole ==
    Done("rec") /\ list.quiet =>
        LET all == ListBelow(OpenDir(list.top, FALSE), list.top)
            got == {list.out[i].path : i \in DOMAIN list.out}
        IN  /\ got \subseteq all /\ Cardinality(got) = Len(list.out)
            /\ Len(list.out) = IF list.limit = 0 \/ Cardinality(all) < list.limit THEN Cardinality(all) ELSE list.limit
            /\ \A i \in DOMAIN list.out : Len(list.out[i].path) > Len(list.top) + 1 =>
                 \E j \in 1..i - 1 : list.out[j].path = Front(list.out[i].path)
=============================================================================
