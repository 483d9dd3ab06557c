------------------------------- MODULE MCLocal ------------------------------
(* The local backend and the helpers every backend shares.  A behaviour     *)
(* exercises one part: io_uring and its fallback, names below the root,     *)
(* listings, mixed reads, streamed cohorts, transfers, tree copies and      *)
(* removals, route dispatch and the route cache.                            *)
EXTENDS Integers, Sequences, FiniteSets, TLC

CONSTANT t1, t2, u1, u2

Symmetry == Permutations({t1, t2}) \cup Permutations({u1, u2})
IoInodeOf == "d1" :> "a" @@ "d2" :> "a" @@ "d3" :> "b" @@ "d4" :> "b"
IoR(d, kind, off, len) == [fd |-> d, kind |-> kind, off |-> off, len |-> len]
IoReads == {<<IoR("d1", "at", 0, 2), IoR("d3", "cur", 0, 2)>>, <<IoR("d1", "cur", 0, 1), IoR("d1", "cur", 0, 2)>>,
            <<IoR("d1", "at", 2, 3), IoR("d2", "end", 0, 1), IoR("d3", "at", 0, 0)>>,
            <<IoR("d1", "cur", 0, 4), IoR("d3", "at", 1, 1)>>,
            <<IoR("d1", "at", 0, 1), IoR("d2", "at", 1, 1), IoR("d3", "cur", 0, 1), IoR("d1", "at", 1, 2)>>,
            <<IoR("d1", "at", 0, 1), IoR("d3", "at", 0, 0), IoR("d3", "cur", 0, 2)>>,
            <<IoR("d1", "cur", 0, 1), IoR("d1", "cur", 0, 7)>>, <<IoR("d1", "at", 1, 7), IoR("d3", "cur", 0, 1)>>}
IoWrites == {<<IoR("d1", "at", 0, 2), IoR("d1", "at", 2, 1), IoR("d3", "at", 0, 2)>>,
             <<IoR("d1", "at", 1, 2), IoR("d1", "at", 4, 1)>>,
             <<IoR("d1", "at", 0, 2), IoR("d2", "at", 1, 2)>>,
             <<IoR("d1", "at", 0, 4), IoR("d3", "at", 1, 1), IoR("d3", "at", 2, 0)>>,
             <<IoR("d1", "cur", 0, 1), IoR("d4", "at", 0, 1), IoR("d1", "end", 0, 1)>>,
             <<IoR("d3", "at", 1, 1), IoR("d1", "at", 4, 4)>>}
IoVectors ==
  {[op |-> "vread", v |-> x] : x \in IoReads} \cup {[op |-> "vread_into", v |-> x] : x \in IoReads}
  \cup {[op |-> "vwrite", v |-> x] : x \in IoWrites} \cup {[op |-> "vfsync", v |-> <<IoR("d1", "at", 0, 0), IoR("d3", "at", 0, 0)>>]}
NameL(abs, path) == [abs |-> abs, path |-> path]
NameTarget == [esc |-> NameL(FALSE, <<"..", "b">>), abs |-> NameL(TRUE, <<"..", "b">>), sib |-> NameL(FALSE, <<"a">>)]
NameNone == [a |-> "none", b |-> "none"]
NameTree(ra, rb, sb) == [host |-> [a |-> "root", b |-> "out"], root |-> [a |-> ra, b |-> rb],
                         sub |-> [a |-> "none", b |-> sb], made |-> NameNone]
NameTrees == {NameTree("sub", "in2", "sib"), NameTree("sub", "in", "none"), NameTree("sub", "sib", "esc"), NameTree("in", "sib", "none"),
              NameTree("abs", "none", "none"), NameTree("sub", "none", "abs")}
NameStart == {[ent |-> t, readonly |-> {}] : t \in NameTrees} \cup {[ent |-> NameTree("in", "sib", "none"), readonly |-> {"in"}]}
NamePaths == {<<"a">>, <<"b">>, <<"a", "b">>}
ListLinkTo == [l |-> "e"]
ListE(x, y) == [a |-> x, b |-> y]
ListStart == {[root |-> ListE("d", x), d |-> ListE(y, "f"), e |-> ListE("g", "none")] : x \in {"none", "g", "e", "l"}, y \in {"none", "g"}}
MixedStarts == {[p |-> "f", q |-> "g"], [p |-> "g", q |-> "none"]}
MixedI(o, off, len) == [kind |-> "into", obj |-> o, off |-> off, len |-> len]
MixedR(o, off, len) == [kind |-> "range", obj |-> o, off |-> off, len |-> len]
MixedW(p) == [kind |-> "whole", obj |-> p, off |-> 0, len |-> 0]
MixedVectors ==
    {<<MixedW("p"), MixedW("q"), MixedW("p")>>, <<MixedW("p"), MixedI("f", 0, 2), MixedR("g", 1, 1), MixedW("q")>>, <<MixedR("f", 0, 1), MixedW("p"), MixedI("g", 0, 1)>>,
     <<MixedI("f", 1, 1), MixedI("g", 0, 2)>>, <<MixedR("g", 0, 2), MixedR("f", 0, 1)>>, <<MixedW("p"), MixedR("f", 0, 2), MixedW("q")>>, <<MixedI("g", 0, 2)>>, <<>>}
TransferTX == <<<<"t", "x">>, "file", 2, 2>>
TransferD == <<<<"d">>, "dir", 0, 6>>
TransferPolicies == {"error", "skip", "replace"}
TransferPlain == [exact |-> FALSE, progress |-> FALSE, skip |-> TRUE, depth |-> 4,
                  truncate |-> FALSE, crossing |-> {}]
\* /s/x is a file, /s/y a tree with one more entry /s/y/z, /t/x a file of the
\* same name; /d is the destination.  An entry is <<path, kind, data, identity>>.
TransferX == <<<<"s", "x">>, "file", 1, 1>>
TransferY == <<<<<<"s", "y">>, "dir", 0, 3>>, <<<<"s", "y", "x">>, "file", 3, 4>>>>
TransferPaths == {<<"d">>, <<"d", "x">>, <<"d", "y">>, <<"d", "z">>, <<"d", "y", "x">>,
                  <<"d", "y", "z">>, <<"s", "x">>, <<"s", "y">>, <<"s", "y", "x">>,
                  <<"s", "y", "z">>, <<"t", "x">>}
TransferACase(list, operands, op, layout, existing, o) ==
  LET at(p) == CHOOSE i \in DOMAIN list : list[i][1] = p
      there(p) == \E i \in DOMAIN list : list[i][1] = p
      of(id) == CHOOSE i \in DOMAIN list : list[i][4] = id
  IN  [fs |-> [p \in TransferPaths |-> IF there(p) THEN list[at(p)][4] ELSE 0],
       objects |-> [id \in 1 .. 14 |->
          IF \E i \in DOMAIN list : list[i][4] = id
            THEN [kind |-> list[of(id)][2], data |-> list[of(id)][3]]
            ELSE [kind |-> "none", data |-> 0]],
       kindOf |-> [p \in {q \in TransferPaths : there(q)} |-> list[at(p)][2]],
       rank |-> ("x" :> 1 @@ "y" :> 2 @@ "z" :> 3),
       to |-> <<"d">>, roots |-> operands, op |-> op, layout |-> layout,
       existing |-> existing, exact |-> o.exact, progress |-> o.progress,
       skipSpecial |-> o.skip, depth |-> o.depth, truncate |-> o.truncate,
       crossing |-> o.crossing]
\* Operands that share destinations: /s/x, /t/x and /s/y/x all go to /d/x.
TransferContentsCases ==
  {TransferACase(<<TransferX, TransferTX>> \o TransferY \o target, operands, op, "contents", existing, o) :
     target \in {<<>>, <<TransferD>>, <<TransferD, <<<<"d", "x">>, "file", 7, 7>>>>},
     operands \in {<<<<"s", "x">>, <<"t", "x">>>>, <<<<"s", "y">>, <<"t", "x">>>>,
                <<<<"s", "x">>, <<"s", "y">>>>},
     op \in {"copy", "move"}, existing \in TransferPolicies, o \in {TransferPlain}}
TransferOptions == {TransferPlain, [TransferPlain EXCEPT !.progress = TRUE],
                    [TransferPlain EXCEPT !.crossing = {<<"s", "x">>}],
                    [TransferPlain EXCEPT !.crossing = {<<"s", "y">>}, !.skip = FALSE],
                    [TransferPlain EXCEPT !.progress = TRUE, !.depth = 0, !.truncate = TRUE],
                    [TransferPlain EXCEPT !.depth = 0]}
TransferZ(kind) == <<<<"s", "y", "z">>, kind, 4, 5>>
TransferTrees == {TransferY, Append(TransferY, TransferZ("file")), Append(TransferY, TransferZ("special")), Append(TransferY, TransferZ("dir"))}
\* One tree to an exact destination.
TransferTreeCases ==
  {TransferACase(tree \o target, <<<<"s", "y">>>>, "copy", "contents", existing,
                 [o EXCEPT !.exact = TRUE]) :
     tree \in TransferTrees, target \in {<<>>, <<TransferD>>, <<TransferD, <<<<"d", "x">>, "file", 7, 7>>>>},
     existing \in TransferPolicies, o \in TransferOptions}
\* What the destination holds before the call.
TransferTargets == {<<>>, <<TransferD>>,
                    <<TransferD, <<<<"d", "x">>, "file", 7, 7>>>>,
                    <<TransferD, <<<<"d", "x">>, "file", 1, 1>>>>,      \* a hard link of /s/x
                    <<TransferD, <<<<"d", "x">>, "dir", 0, 7>>>>,
                    <<TransferD, <<<<"d", "y">>, "dir", 0, 7>>, <<<<"d", "y", "x">>, "file", 8, 8>>>>,
                    <<TransferD, <<<<"d", "y">>, "file", 7, 7>>>>}
TransferRootSets == {<<<<"s", "x">>, <<"s", "y">>>>, <<<<"s", "y">>, <<"s", "x">>>>}
TransferContainerCases ==
  {TransferACase(<<TransferX>> \o tree \o target, operands, op, "container", existing, o) :
     tree \in TransferTrees, target \in TransferTargets, operands \in TransferRootSets,
     op \in {"copy", "move"}, existing \in TransferPolicies, o \in TransferOptions}
\* A destination that is a file, and an operand that is no file or directory.
TransferOddCases ==
  {TransferACase(<<TransferX, <<<<"d">>, "file", 9, 9>>>>, <<<<"s", "x">>>>, op, "container", "error", TransferPlain) :
     op \in {"copy", "move"}}
  \cup {TransferACase(<<TransferX, <<<<"t", "x">>, "special", 2, 2>>>>, <<<<"t", "x">>, <<"s", "x">>>>, op,
                      "contents", "error", [TransferPlain EXCEPT !.skip = skip]) :
     op \in {"copy", "move"}, skip \in BOOLEAN}
TransferCases == TransferContainerCases \cup TransferTreeCases \cup TransferContentsCases \cup TransferOddCases
TreeDirs == {"root", "s", "sd", "t", "n1", "n2", "n3"}
TreeNames == <<"a", "b", "d", "f", "l", "s", "t">>
TreeD(x) == [k |-> "dir", v |-> x]
TreeF(x) == [k |-> "file", v |-> x]
TreeL(x) == [k |-> "link", v |-> x]
TreeSource == [a |-> TreeF("1"), b |-> TreeF("2"), d |-> TreeD("sd"), f |-> TreeF("3"), l |-> TreeL("f"), t |-> TreeD("n3")]
TreeNothing == [k |-> "none", v |-> "none"]
TreeTree(r, s, sd, t) == [o \in TreeDirs |-> [n \in {"a", "b", "d", "f", "l", "s", "t"} |->
        CASE o = "root" /\ n \in DOMAIN r -> r[n] [] o = "s" /\ n \in DOMAIN s -> s[n] [] o = "sd" /\ n \in DOMAIN sd -> sd[n]
          [] o = "t" /\ n \in DOMAIN t -> t[n] [] OTHER -> TreeNothing]]
TreeStarts ==
    {TreeTree([s |-> TreeD("s"), f |-> TreeF("0"), l |-> TreeL("s")], TreeSource, [a |-> TreeF("4"), b |-> TreeL("f")], <<>>),
     TreeTree([s |-> TreeD("s"), f |-> TreeF("0"), t |-> TreeD("t"), l |-> TreeL("t")], TreeSource, [a |-> TreeF("4")], [a |-> TreeF("9"), t |-> TreeF("8")]),
     TreeTree([s |-> TreeD("s"), f |-> TreeF("0"), t |-> TreeF("7"), d |-> TreeL("s")], [d |-> TreeD("sd"), a |-> TreeL("s"), l |-> TreeL("f")], [b |-> TreeF("5")], <<>>)}
TreeC(op, src, dst, symlinks) == [op |-> op, src |-> src, dst |-> dst, symlinks |-> symlinks]
TreeCalls ==
    {TreeC("copy", <<"s">>, dst, sl) : dst \in {<<"t">>, <<"s">>, <<"s", "d", "t">>, <<"a", "b">>}, sl \in BOOLEAN}
    \cup {TreeC(op, src, <<>>, FALSE) : op \in {"remove", "empty"}, src \in {<<"s">>, <<"t">>, <<"s", "d">>, <<"f">>, <<"l">>}}
    \cup {TreeC("remove", <<"f">>, dst, FALSE) : dst \in {<<"s">>, <<"t">>}}
DispatchOf(ops, items, cont, budget) ==
          [ops |-> ops, items |-> items, continues |-> cont, budget |-> budget]
DispatchRoutes == {"posix", "n1", "n2"}
DispatchItem(src, dst, state, size) ==
  [src |-> src, dst |-> dst, state |-> state, size |-> size, nested |-> FALSE]
\* Operands with what each kind of operation can find wrong with them.
DispatchSingle(states) == {DispatchItem(r, r, s, 0) : r \in DispatchRoutes, s \in states}
DispatchSized == {DispatchItem(r, r, s, n) : r \in {"posix", "n1"}, s \in {"ok", "bad"}, n \in 1 .. 2}
DispatchPair == {DispatchItem(a, b, s, 0) : a, b \in DispatchRoutes, s \in {"ok", "bad"}}
DispatchCases == {
  DispatchOf({"fsync", "statfs", "getattrs", "cleardirs"}, DispatchSingle({"ok", "bad", "foreign", "closed"}),
             BOOLEAN, 0),
  DispatchOf({"writeall", "setattrs"}, DispatchSingle({"ok", "bad", "closed", "invalid"}),
             {FALSE}, 0),
  DispatchOf({"write", "close"}, DispatchSingle({"ok", "bad", "closed", "foreign"}), {FALSE}, 0),
  DispatchOf({"open", "opendirs", "mkdir"}, DispatchSingle({"ok", "bad", "invalid"}), {FALSE}, 0),
  DispatchOf({"remove"}, {[i EXCEPT !.nested = n] : i \in DispatchSingle({"ok", "bad"}), n \in BOOLEAN}, BOOLEAN, 0),
  DispatchOf({"rename", "renameatomic", "hardlink", "copy"}, DispatchPair, {FALSE}, 0),
  DispatchOf({"read", "readinto", "readfiles"}, DispatchSized, {FALSE}, 4)}
RouteThreads == {t1, t2}
RouteCreds == {u1, u2}
RouteMounts == {"m1", "m2"}
RouteTables == {"m1" :> "srv" @@ "m2" :> "srv", "m1" :> "srv" @@ "m2" :> "other"}

-----------------------------------------------------------------------------
VARIABLES part,   \* the part this behaviour exercises
          s1, s2, s3, s4, s5, s6, s7, s8, s9, s10, s11, s12, s13, s14, s15, s16, s17, s18, s19, s20, s21, s22, s23, s24, s25, s26, s27   \* its variables, and <<>> in what it does not use

Io == INSTANCE LocalIo WITH
    Fds <- {"d1", "d2", "d3", "d4"}, Inodes <- {"a", "b"}, InodeOf <- IoInodeOf,
    AppendFds <- {"d4"}, Depth <- 2, MaxBatch <- 3, CachedMax <- 2, Warm <- 2,
    Vectors <- IoVectors, MaxCalls <- 2, OffMax <- 7, opts <- s1, ring <- s2, nowait <- s3,
    calls <- s4, jobs <- s5, epc <- s6, next <- s7, progress <- s8, done <- s9, errors <- s10,
    probe <- s11, pending <- s12, results <- s13, held <- s14, scratch <- s15, buf <- s16,
    disk <- s17, landed <- s18, replayed <- s19, lpc <- s20, call <- s21, cur <- s22,
    offsets <- s23, at <- s24, got <- s25, out <- s26, before <- s27
Local == INSTANCE LocalNames WITH
    Names <- {"a", "b"}, Dirs <- {"host", "root", "sub", "made"},
    Files <- {"in", "in2", "out", "new"}, Links <- {"esc", "abs", "sib"}, Target <- NameTarget,
    Outside <- {"host", "out"}, Start <- NameStart, Theirs <- {"in2"}, Placeable <- {"esc", "abs", "in2", "sub"},
    Paths <- NamePaths, Updates <- {{"size", "mode"}, {"owner", "mode", "times"}}, MaxDepth <- 3,
    Hops <- 3, MaxForeign <- 2, MaxCalls <- 1, ListDirs <- {"root", "d", "e"},
    ListFiles <- {"f", "g"}, ListLinks <- {"l"}, LinkTo <- ListLinkTo, ListStart <- ListStart,
    ListPlaceable <- {"l", "e", "g"}, ListPaths <- {<<>>, <<"a">>}, PageSize <- 1,
    Limits <- {0, 3}, ListMaxForeign <- 1, ent <- s1, readonly <- s2, call <- s3, foreign <- s4,
    calls <- s5, listEnt <- s1, list <- s2, listForeign <- s3, was <- s4
Reads == INSTANCE MixedReads WITH
    Objs <- {"f", "g"}, Paths <- {"p", "q"}, Starts <- MixedStarts, MaxSize <- 3,
    Vectors <- MixedVectors, Budgets <- {2, 4, 5}, Batch <- 2, MaxChunk <- 2, MinChunk <- 1,
    MaxForeign <- 1, N <- 4, Capacity <- 2, Sizes <- {0, 1, 2}, MaxBad <- 2, MaxFaults <- 1,
    size <- s1, bind <- s2, broken <- s3, call <- s4, foreign <- s5, vector <- s6,
    streamSize <- s1, missing <- s2, unread <- s3, stop <- s4, base <- s5, opened <- s6,
    ahead <- s7, late <- s8, streamAt <- s9, file <- s10, streamChunk <- s11, seen <- s12,
    output <- s13, handles <- s14, result <- s15, faults <- s16
Trees == INSTANCE TreeTransfer WITH
    Cases <- TransferCases, MaxFaults <- 1, BatchSize <- 2, Dirs <- TreeDirs, Names <- TreeNames,
    Starts <- TreeStarts, Calls <- TreeCalls, PageSize <- 3, Batch <- 2, case <- s1, fs <- s2,
    objects <- s3, phase <- s4, roots <- s5, renames <- s6, copies <- s7, cohorts <- s8,
    pages <- s9, pending <- s10, files <- s11, ready <- s12, skipped <- s13, renamed <- s14,
    removed <- s15, stopped <- s16, out <- s17, faults <- s18, ent <- s1, call <- s2,
    treeFaults <- s3
Routes == INSTANCE Routing WITH
    Posix <- "posix", Cases <- DispatchCases, MaxLen <- 3, Threads <- RouteThreads,
    Creds <- RouteCreds, Mounts <- RouteMounts, Tables <- RouteTables, MaxCalls <- 3,
    MaxClients <- 2, MaxCreds <- 1, MaxMounts <- 1, call <- s1, at <- s2, done <- s3, sent <- s4,
    first <- s5, left <- s6, out <- s7, table <- s1, cred <- s2, cache <- s3, pc <- s4,
    snapshot <- s5, wants <- s6, routes <- s7, asked <- s8, conn <- s9, calls <- s10,
    clients <- s11, credChanges <- s12, mountChanges <- s13

Unused18 == s19 = <<>> /\ s20 = <<>> /\ s21 = <<>> /\ s22 = <<>> /\ s23 = <<>> /\ s24 = <<>> /\ s25 = <<>> /\ s26 = <<>> /\ s27 = <<>>
Unused16 == s17 = <<>> /\ s18 = <<>> /\ Unused18
Unused13 == s14 = <<>> /\ s15 = <<>> /\ s16 = <<>> /\ Unused16
Unused7 == s8 = <<>> /\ s9 = <<>> /\ s10 = <<>> /\ s11 = <<>> /\ s12 = <<>> /\ s13 = <<>> /\ Unused13
Unused6 == s7 = <<>> /\ Unused7
Unused5 == s6 = <<>> /\ Unused6
Unused4 == s5 = <<>> /\ Unused5
Unused3 == s4 = <<>> /\ Unused4
Init ==
    \/ part = "io" /\ Io!Init
    \/ part = "names" /\ Local!Init /\ Unused5
    \/ part = "lists" /\ Local!ListInit /\ Unused4
    \/ part = "mixed" /\ Reads!Init /\ Unused6
    \/ part = "stream" /\ Reads!StreamInit /\ Unused16
    \/ part = "transfer" /\ Trees!Init /\ Unused18
    \/ part = "trees" /\ Trees!TreeInit /\ Unused3
    \/ part = "dispatch" /\ Routes!Init /\ Unused7
    \/ part = "routes" /\ Routes!CacheInit /\ Unused13
Next ==
    \/ part = "io" /\ Io!Next /\ UNCHANGED <<part>>
    \/ part = "names" /\ Local!Next /\ UNCHANGED <<part, s6, s7, s8, s9, s10, s11, s12, s13, s14, s15, s16, s17, s18, s19, s20, s21, s22, s23, s24, s25, s26, s27>>
    \/ part = "lists" /\ Local!ListNext /\ UNCHANGED <<part, s5, s6, s7, s8, s9, s10, s11, s12, s13, s14, s15, s16, s17, s18, s19, s20, s21, s22, s23, s24, s25, s26, s27>>
    \/ part = "mixed" /\ Reads!Next /\ UNCHANGED <<part, s7, s8, s9, s10, s11, s12, s13, s14, s15, s16, s17, s18, s19, s20, s21, s22, s23, s24, s25, s26, s27>>
    \/ part = "stream" /\ Reads!StreamNext /\ UNCHANGED <<part, s17, s18, s19, s20, s21, s22, s23, s24, s25, s26, s27>>
    \/ part = "transfer" /\ Trees!Next /\ UNCHANGED <<part, s19, s20, s21, s22, s23, s24, s25, s26, s27>>
    \/ part = "trees" /\ Trees!TreeNext /\ UNCHANGED <<part, s4, s5, s6, s7, s8, s9, s10, s11, s12, s13, s14, s15, s16, s17, s18, s19, s20, s21, s22, s23, s24, s25, s26, s27>>
    \/ part = "dispatch" /\ Routes!Next /\ UNCHANGED <<part, s8, s9, s10, s11, s12, s13, s14, s15, s16, s17, s18, s19, s20, s21, s22, s23, s24, s25, s26, s27>>
    \/ part = "routes" /\ Routes!CacheNext /\ UNCHANGED <<part, s14, s15, s16, s17, s18, s19, s20, s21, s22, s23, s24, s25, s26, s27>>
vars == <<part, s1, s2, s3, s4, s5, s6, s7, s8, s9, s10, s11, s12, s13, s14, s15, s16, s17, s18, s19, s20, s21, s22, s23, s24, s25, s26, s27>>
\* The parts whose callers may stop calling.
Rest == part \in {"io", "names", "stream", "transfer", "trees", "dispatch", "routes"} /\ UNCHANGED vars
Spec == Init /\ [][Next \/ Rest]_vars
-----------------------------------------------------------------------------
(* No write is submitted twice, counts are bytes that landed, the kernel    *)
(* never owns memory the caller got back, and files hold what the requests  *)
(* would have left one after the other.                                     *)
EngineTruthful ==
    /\ part = "io" => Io!NeverReplayed /\ Io!CountsLanded /\ Io!CompleteNotFailed /\ Io!KernelOwnsMemory /\ Io!SequentialWrites /\ Io!TruthfulReads /\ Io!CursorFollowsDelivery

(* Names are resolved below the root as the kernel would, an attribute      *)
(* update changes the object it resolved and fails only for reasons that    *)
(* were there before it began, and listings give the attributes of the      *)
(* entries they hold.                                                       *)
NamesInside ==
    /\ part = "names" => Local!ChangesInside /\ Local!OneObject /\ Local!PrefixUpdate /\ Local!ResolvesAsKernel
    /\ part = "lists" => Local!AttrsOfHeld /\ Local!PagesOnce /\ Local!RecursiveWhole

(* Mixed reads and streamed cohorts answer each item in its own place,      *)
(* within the budget.  A routed vector is handed over cohort by cohort in   *)
(* input order, each operand to the backend of its route, and an error      *)
(* names an operand that was not executed, none of a later cohort having    *)
(* been; which operands of the failing cohort took effect is left open.     *)
AnswersInPlace ==
    /\ part = "mixed" => Reads!OwnPlace /\ Reads!OwnError /\ Reads!OneObject /\ Reads!BudgetExact /\ Reads!RoundFits /\ Reads!AllClosed
    /\ part = "stream" => Reads!SequentialStream /\ Reads!StopWins /\ Reads!AllReleased
    /\ part = "dispatch" => Routes!CohortsInOrder /\ Routes!RejectedUntouched /\ Routes!RoutedToOwner /\ Routes!ContinuesAcrossRoutes /\ Routes!TotalBytesBounded

(* A transfer, tree copy or tree removal that succeeds did all of it and    *)
(* touches nothing elsewhere.  A transfer that fails loses no source; it    *)
(* keeps what it found at its destinations unless it was told to replace,   *)
(* and refuses to replace only what the same move has written.              *)
TreesWhole ==
    /\ part = "transfer" => Trees!NothingLost /\ Trees!ExistingKept /\ Trees!ResultExact /\ Trees!CountsTrue /\ Trees!ReplaceMeetsOwnOutput
    /\ part = "trees" => Trees!OwnOutputUnread /\ Trees!CopiedWhole /\ Trees!MergesOnly /\ Trees!RemovedOnly

(* All cached connections of one endpoint and one identity share a client,  *)
(* whatever aliases were discovered at the same time.                       *)
AliasesShareClient ==
    /\ part = "routes" => Routes!AliasesShareClient

=============================================================================
