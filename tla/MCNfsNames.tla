----------------------------- MODULE MCNfsNames -----------------------------
(* Names, opens and directories of the NFS client.  A behaviour exercises   *)
(* one part: path resolution, the phased name operations, attribute vectors,*)
(* opens and closes, recursive removal, directory visits and listings.      *)
EXTENDS Integers, Sequences, FiniteSets, TLC

ResolveTree == [top |-> [r |-> "root", a |-> "outside"], root |-> [a |-> "d", b |-> "l1"],
                d |-> [a |-> "e", b |-> "f"], e |-> [a |-> "l2", b |-> "g"]]
ResolveRoot == <<"r">>
ResolveTargets == [abs : BOOLEAN, path : UNION {[1..n -> {"a", "b", ".."}] : n \in 1..2}]
ResolvePaths == UNION {[1..n -> {"a", "b"}] : n \in 1..4}
PhasedFresh == <<"new1", "new2">>
PhasedNames == {"a", "b", "d", "e", "l", "z"}
PhasedRooted(r, e, d) == [o \in {"root", "e", "d", "new1", "new2"} |-> [n \in PhasedNames |->
    CASE o = "root" /\ n \in DOMAIN r -> r[n] [] o = "e" /\ n \in DOMAIN e -> e[n] [] o = "d" /\ n \in DOMAIN d -> d[n] [] OTHER -> "none"]]
PhasedStarts ==
    {PhasedRooted([e |-> "e", l |-> "link", a |-> "f"], [d |-> "d"], [a |-> "g"]),
     PhasedRooted([e |-> "e", l |-> "link", z |-> "f"], [d |-> "d", a |-> "g"], <<>>)}
PhasedV(k, items) == [kind |-> k, items |-> items, fd |-> FALSE]
PhasedIt(p) == [path |-> p, to |-> <<>>]
PhasedTo(p, q) == [path |-> p, to |-> q]
PhasedSomeVectors ==
    {PhasedV("remove", <<PhasedIt(<<"a">>), PhasedIt(<<"l", "a">>), PhasedIt(<<"e", "d", "a">>)>>), PhasedV("remove", <<PhasedIt(<<"l", "d", "a">>), PhasedIt(<<"z">>)>>),
     PhasedV("remove", <<PhasedIt(<<"e", "d", "a">>), PhasedIt(<<"e", "d">>)>>),
     PhasedV("remove", <<PhasedIt(<<"z">>), PhasedIt(<<"l", "d">>), PhasedIt(<<"e", "a">>), PhasedIt(<<"l", "b">>)>>),
     PhasedV("rename", <<PhasedTo(<<"a">>, <<"b">>), PhasedTo(<<"l", "d", "a">>, <<"l", "a">>)>>), PhasedV("rename", <<PhasedTo(<<"l", "d", "a">>, <<"a">>)>>), PhasedV("rename", <<PhasedTo(<<"e", "d">>, <<"d">>), PhasedTo(<<"d", "a">>, <<"b">>)>>),
     PhasedV("rename", <<PhasedTo(<<"z">>, <<"b">>), PhasedTo(<<"l", "a">>, <<"e", "b">>), PhasedTo(<<"l", "d">>, <<"d">>)>>),
     PhasedV("mkdir", <<PhasedIt(<<"b">>), PhasedIt(<<"l", "b">>)>>), PhasedV("mkdir", <<PhasedIt(<<"b">>), PhasedIt(<<"l", "z">>)>>), PhasedV("mkdir", <<PhasedIt(<<"l", "b">>), PhasedIt(<<"a">>)>>),
     PhasedV("symlink", <<PhasedIt(<<"b">>), PhasedIt(<<"l", "a">>)>>), PhasedV("hardlink", <<PhasedTo(<<"b">>, <<"a">>), PhasedTo(<<"l", "d", "b">>, <<"l", "d", "a">>)>>), PhasedV("hardlink", <<PhasedTo(<<"e", "b">>, <<"l">>)>>),
     PhasedV("mkdir", <<PhasedIt(<<"b">>), PhasedIt(<<"b", "a">>)>>)}
PhasedVectors == PhasedSomeVectors \cup {[v EXCEPT !.fd = TRUE] : v \in {u \in PhasedSomeVectors : u.kind \in {"remove", "rename"}}}
PhasedR == <<>>
PhasedRank == [p \in {PhasedR, <<"e">>, <<"e", "d">>, <<"l">>, <<"l", "d">>} |->
    CASE p = PhasedR -> 0 [] p = <<"e">> -> 1 [] p = <<"e", "d">> -> 2 [] p = <<"l">> -> 3 [] OTHER -> 4]
AttrTarget == [l \in {"l"} |-> "p"]
AttrStarts == {[p |-> "f", q |-> "g", s |-> "l"], [p |-> "f", q |-> "none", s |-> "l"], [p |-> "none", q |-> "g", s |-> "l"]}
AttrVia(n, m) == [name |-> n, via |-> TRUE, fd |-> FALSE, mask |-> m]
AttrFd(m) == [name |-> "p", via |-> FALSE, fd |-> TRUE, mask |-> m]
AttrP(n, m) == [name |-> n, via |-> FALSE, fd |-> FALSE, mask |-> m]
AttrVectors ==
    {<<AttrP("p", "mode"), AttrP("s", "mode"), AttrP("q", "mode")>>, <<AttrP("q", "times"), AttrVia("p", "times"), AttrP("s", "times")>>,
     <<AttrP("s", "times"), AttrP("q", "mode"), AttrP("p", "times")>>, <<AttrP("s", "mode"), AttrFd("mode"), AttrP("q", "times")>>,
     <<AttrP("q", "owner"), AttrP("s", "owner")>>, <<AttrP("p", "times"), AttrP("q", "fileid")>>}
OpenVectors == {<<"excl">>, <<"read", "read">>, <<"read", "create">>, <<"create", "read">>, <<"read", "excl">>}
RemovalDirs == {"top", "a", "s"}
RemovalEntry(n) == [name |-> n, node |-> n]
RemovalTree == [top |-> <<RemovalEntry("a"), RemovalEntry("b")>>,
                a |-> <<RemovalEntry("f"), RemovalEntry("g"), RemovalEntry("s"), RemovalEntry("h")>>,
                s |-> <<RemovalEntry("x"), RemovalEntry("y")>>]
RemovalWorld(mode, operands, continue) ==
  [mode |-> mode, operands |-> operands, continue |-> continue,
   tree |-> RemovalTree, batch |-> 0, stubborn |-> {}, unreadable |-> {},
   looping |-> FALSE, strict |-> FALSE]
RemovalWorlds ==
  {RemovalWorld("tree", <<"a", "b">>, TRUE),
   [RemovalWorld("tree", <<"a">>, FALSE) EXCEPT !.strict = TRUE],
   [RemovalWorld("tree", <<"a">>, TRUE) EXCEPT !.stubborn = {"g"}, !.strict = TRUE],
   [RemovalWorld("tree", <<"a">>, TRUE) EXCEPT !.looping = TRUE],
   [RemovalWorld("contents", <<"a">>, TRUE) EXCEPT !.stubborn = {"s"}, !.batch = 1],
   [RemovalWorld("tree", <<"a", "b">>, TRUE) EXCEPT !.unreadable = {"s"}],
   RemovalWorld("plain", <<"a", "b">>, TRUE)}
RemovalSpare == {[dir |-> "s", name |-> "z", node |-> "z"],
                 [dir |-> "a", name |-> "s", node |-> "z"]}
VisitTree == [a |-> {1, 2, 3, 4}, s |-> {1, 2, 3}, t |-> {1}, b |-> {1, 2},
              d |-> {}, m |-> {}]
VisitStatus == [x \in DOMAIN VisitTree |->
                  CASE x = "d" -> "denied" [] x = "m" -> "missing" [] OTHER -> "ok"]
VisitChild == <<"a", 2>> :> "s" @@ <<"a", 4>> :> "t"
VisitCall(roots, recursive, maxEntries, maxDepth, truncate) ==
  [roots |-> roots, recursive |-> recursive, maxEntries |-> maxEntries,
   maxDepth |-> maxDepth, truncate |-> truncate, tree |-> VisitTree,
   child |-> VisitChild, status |-> VisitStatus]
VisitCalls ==
  {VisitCall(<<"a", "b">>, FALSE, 9, 0, FALSE), VisitCall(<<"b", "a">>, FALSE, 5, 0, FALSE),
   VisitCall(<<"b", "m">>, FALSE, 9, 0, FALSE), VisitCall(<<"b", "d">>, FALSE, 9, 0, FALSE),
   VisitCall(<<"a", "b">>, TRUE, 12, 1, FALSE), VisitCall(<<"a", "b">>, TRUE, 8, 0, TRUE),
   VisitCall(<<"a">>, TRUE, 12, 0, FALSE), VisitCall(<<"d", "a">>, TRUE, 12, 1, FALSE)}
VisitFresh == {<<"a", 5>>, <<"s", 4>>}
ListNest == (<<"d", 1>> :> "s") @@ (<<"d", 3>> :> "t")
ListNone == [x \in {} |-> ""]
ListChain == (<<"d", 2>> :> "s") @@ (<<"s", 2>> :> "t")
ListACall(op, roots, tree, child, recursive, max, depth, truncate, reversed) ==
  [op |-> op, roots |-> roots, tree |-> tree, child |-> child,
   recursive |-> recursive, max |-> max, depth |-> depth,
   truncate |-> truncate, reversed |-> reversed]
ListFlat == [d |-> {1, 2, 3}, s |-> {}, t |-> {}]
ListDeep == [d |-> {1, 2, 3}, s |-> {1, 2}, t |-> {4}]
ListCalls ==
  {ListACall("visit", <<"d">>, ListFlat, ListNone, FALSE, max, 0, FALSE, FALSE) :
     max \in {0, 2}}
  \cup {ListACall("visit", <<"t">>, ListDeep, ListNest, FALSE, 0, 0, FALSE, FALSE)}
  \cup {ListACall("list", <<"d">>, ListDeep, child, r, max, 0, FALSE, FALSE) :
     child \in {ListNest, ListChain}, r \in BOOLEAN, max \in {0, 4}}
  \cup {ListACall("lists", <<"s", "d">>, ListDeep, child, r, max, 0, FALSE, FALSE) :
     child \in {ListNest, ListChain}, r \in BOOLEAN, max \in {0, 4}}
  \cup {ListACall("walk", <<"d">>, ListDeep, child, TRUE, max, depth, t, rev) :
     child \in {ListNest, ListChain}, max \in {0, 4, 6}, depth \in 0 .. 2,
     t \in BOOLEAN, rev \in BOOLEAN}

-----------------------------------------------------------------------------
VARIABLES part,   \* the part this behaviour exercises
          s1, s2, s3, s4, s5, s6, s7, s8, s9, s10, s11, s12, s13, s14, s15, s16, s17, s18, s19, s20   \* its variables, and <<>> in what it does not use

Nfs == INSTANCE NfsNames WITH
    Tree <- ResolveTree, Links <- {"l1", "l2"}, Top <- "top", Root <- ResolveRoot,
    Targets <- ResolveTargets, Paths <- ResolvePaths, MaxHops <- 3,
    Dirs <- {"root", "e", "d", "new1", "new2"}, Files <- {"f", "g"}, Fresh <- PhasedFresh,
    Names <- PhasedNames, LinkTo <- "e", Starts <- PhasedStarts, Vectors <- PhasedVectors,
    Denied <- {"z"}, Rank <- PhasedRank, MaxForeign <- 1, AttrLinks <- {"l"},
    AttrNames <- {"p", "q", "s"}, Target <- AttrTarget, Held <- "g", AttrStarts <- AttrStarts,
    AttrVectors <- AttrVectors, Chunk <- 2, target <- s1, path <- s2, pc <- s3, result <- s4,
    ent <- s1, mode <- s2, vector <- s3, call <- s4, foreign <- s5, bind <- s1, attr <- s2,
    denied <- s3, attrVector <- s4, attrCall <- s5, attrForeign <- s6
Opens == INSTANCE NfsOpens WITH
    Names <- {"a", "b"}, Inos <- {1, 2, 3}, Ids <- {1, 2, 3, 4, 5}, MaxFds <- 2, MaxItems <- 2,
    MaxFaults <- 1, MaxForeign <- 1, Revokes <- TRUE, Flags <- {"read", "create", "trunc", "excl"},
    VFlags <- OpenVectors, srv <- s1, cl <- s2, up <- s3, faults <- s4, foreign <- s5,
    call <- s6
Removal == INSTANCE RemoveTree WITH
    Top <- "top", Dirs <- RemovalDirs, Worlds <- RemovalWorlds, Spare <- RemovalSpare,
    PageSize <- 2, Capacity <- 2, Retries <- 1, MaxFaults <- 2, MaxOther <- 2, world <- s1,
    kids <- s2, touched <- s3, stack <- s4, task <- s5, pc <- s6, job <- s7, ready <- s8,
    changedParents <- s9, cap <- s10, noted <- s11, aborted <- s12, absent <- s13, faults <- s14,
    other <- s15
Listing == INSTANCE DirListing WITH
    WirePage <- 2, Cohort <- 2, MaxFaults <- 2, MaxOther <- 1, Calls <- VisitCalls,
    Fresh <- VisitFresh, ListCalls <- ListCalls, ListMaxOther <- 2, call <- s1, dirs <- s2,
    stable <- s3, pending <- s4, cohort <- s5, pageSize <- s6, wave <- s7, conts <- s8,
    children <- s9, deferred <- s10, budget <- s11, completed <- s12, delivered <- s13,
    visited <- s14, pruned <- s15, retried <- s16, out <- s17, pc <- s18, faults <- s19,
    other <- s20, listCall <- s1, listDirs <- s2, listStable <- s3, todo <- s4, reading <- s5,
    below <- s6, got <- s7, walked <- s8, listRetried <- s9, stopped <- s10, listOut <- s11,
    listFaults <- s12, listOther <- s13

Unused15 == s16 = <<>> /\ s17 = <<>> /\ s18 = <<>> /\ s19 = <<>> /\ s20 = <<>>
Unused13 == s14 = <<>> /\ s15 = <<>> /\ Unused15
Unused6 == s7 = <<>> /\ s8 = <<>> /\ s9 = <<>> /\ s10 = <<>> /\ s11 = <<>> /\ s12 = <<>> /\ s13 = <<>> /\ Unused13
Unused5 == s6 = <<>> /\ Unused6
Unused4 == s5 = <<>> /\ Unused5
Init ==
    \/ part = "resolve" /\ Nfs!Init /\ Unused4
    \/ part = "phased" /\ Nfs!PhasedInit /\ Unused5
    \/ part = "attrs" /\ Nfs!AttrInit /\ Unused6
    \/ part = "opens" /\ Opens!Init /\ Unused6
    \/ part = "removal" /\ Removal!Init /\ Unused15
    \/ part = "visit" /\ Listing!Init
    \/ part = "listings" /\ Listing!ListInit /\ Unused13
Next ==
    \/ part = "resolve" /\ Nfs!Next /\ UNCHANGED <<part, s5, s6, s7, s8, s9, s10, s11, s12, s13, s14, s15, s16, s17, s18, s19, s20>>
    \/ part = "phased" /\ Nfs!PhasedNext /\ UNCHANGED <<part, s6, s7, s8, s9, s10, s11, s12, s13, s14, s15, s16, s17, s18, s19, s20>>
    \/ part = "attrs" /\ Nfs!AttrNext /\ UNCHANGED <<part, s7, s8, s9, s10, s11, s12, s13, s14, s15, s16, s17, s18, s19, s20>>
    \/ part = "opens" /\ Opens!Next /\ UNCHANGED <<part, s7, s8, s9, s10, s11, s12, s13, s14, s15, s16, s17, s18, s19, s20>>
    \/ part = "removal" /\ Removal!Next /\ UNCHANGED <<part, s16, s17, s18, s19, s20>>
    \/ part = "visit" /\ Listing!Next /\ UNCHANGED <<part>>
    \/ part = "listings" /\ Listing!ListNext /\ UNCHANGED <<part, s14, s15, s16, s17, s18, s19, s20>>
vars == <<part, s1, s2, s3, s4, s5, s6, s7, s8, s9, s10, s11, s12, s13, s14, s15, s16, s17, s18, s19, s20>>
\* The parts whose callers may stop calling.
Rest == part \in {"resolve", "removal", "visit", "listings"} /\ UNCHANGED vars
Spec == Init /\ [][Next \/ Rest]_vars
-----------------------------------------------------------------------------
(* Paths resolve as a walk that follows links does and stay below the root  *)
(* (a ".." inside a link's target is taken by name), and a vector of        *)
(* independent name operations, or of attribute operations, leaves what the *)
(* items would have left one after the other, with the error of the item    *)
(* that failed.                                                             *)
ItemsAsOne ==
    /\ part = "resolve" => Nfs!StaysInside /\ Nfs!WalkAgrees /\ Nfs!OpenAgrees
    /\ part = "phased" => Nfs!OrderKept /\ Nfs!OwnError /\ Nfs!ModesSet
    /\ part = "attrs" => Nfs!LinksSpared /\ Nfs!SequentialUpdates /\ Nfs!UpdatedOnce /\ Nfs!AttrOwnError /\ Nfs!StatsOwn

(* Every open the server granted is owned by one descriptor, the operation  *)
(* in progress or one queue of deferred closes, but for the opens whose     *)
(* OPEN reply or clean-up CLOSE failed; a vector that fails leaves no       *)
(* descriptor, its answers are those of its items, and the mode of a file   *)
(* that another client created stays as it was.                             *)
OpensOwned ==
    /\ part = "opens" => Opens!OwnedOnce /\ Opens!ConfirmedGone /\ Opens!ModeKept /\ Opens!NoneBehind /\ Opens!AnswersOwn

(* A recursive removal deletes all it can below its operands, up to the     *)
(* first directory it cannot read, and success means that they are gone.    *)
RemovalTruthful ==
    /\ part = "removal" => Removal!DeletesAllItCan /\ Removal!SuccessMeansGone

(* Each entry is delivered once, in the order promised, within the limits   *)
(* given, and a listing reported complete has every entry that was there    *)
(* throughout.                                                              *)
ListingsTruthful ==
    /\ part = "visit" => Listing!DeliveredOnce /\ Listing!CompleteMeansAll /\ Listing!BudgetExact /\ Listing!EarlierRootsFirst /\ Listing!RootsInOrder
    /\ part = "listings" => Listing!EntryOnce /\ Listing!OkIsComplete /\ Listing!LimitKept /\ Listing!TreeOrder /\ Listing!RefusedOnlyAtLimits

=============================================================================
