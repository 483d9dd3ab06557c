----------------------------- MODULE MCBindings -----------------------------
(* The C bindings, the vectors of the Python extension, and the pool that  *)
(* shares native clients among Python threads.  A behaviour exercises one  *)
(* part: C handles, C result vectors, object identities, C listings, event *)
(* walks, Python copies, retried subsets, aggregate listings, or the pool, *)
(* also across a fork and with deferred closes.                            *)
EXTENDS Integers, Sequences, FiniteSets, TLC

CONSTANT NoEnd, t1, t2

Symmetry == Permutations({t1, t2})

IdentityKeyOf == [a |-> "key", b |-> "none", c |-> "none"]
ListListing == [r |-> <<"a", "f">>, a |-> <<"x", "q">>, o |-> <<"z">>]
WalkTree == 0 :> <<3, 1, 2>> @@ 1 :> <<>> @@ 2 :> <<6, 4>> @@ 4 :> <<5>>
CopyNames == {n \in [{1, 2, 3, 4} -> {0, 1, 2}] : n[1] = 1 /\ n[2] \in {1, 2} /\ n[3] \in {0, 2} /\ n[4] = 0}
AggregateRequests == UNION {[1..n -> {"a", "b"}] : n \in 1..3}
AggregateSizes == -1..3

-----------------------------------------------------------------------------
VARIABLES part,   \* the part this behaviour exercises
          s1, s2, s3, s4, s5, s6, s7, s8, s9, s10, s11, s12, s13, s14, s15, s16, s17   \* its variables, and <<>> in what it does not use

C == INSTANCE CHandles WITH
    Threads <- {t1, t2}, Files <- {"f", "g"}, Kinds <- {"local", "nfs"}, MaxFd <- 2,
    MaxHandles <- 3, MaxFaults <- 1, MaxCount <- 3, Servers <- {"a", "b", "c"},
    KeyOf <- IdentityKeyOf, NoKey <- "none", Objects <- {1, 2}, IdentMaxHandles <- 2, kind <- s1,
    table <- s2, nextFd <- s3, held <- s4, nextHandle <- s5, owner <- s6, poisoned <- s7,
    calls <- s8, app <- s9, lost <- s10, misrouted <- s11, lied <- s12, faults <- s13, call <- s1,
    applied <- s2, out <- s3, vectorPoisoned <- s4, next <- s1, identTable <- s2,
    identHandles <- s3, allotting <- s4, link <- s5, identCall <- s6, known <- s7
Listings == INSTANCE CListings WITH
    Listing <- ListListing, Elsewhere <- "o", Handles <- {"h1", "h2"}, Lacking <- {"q"},
    Quotas <- {1, 2, 4, 9}, Unlimited <- 9, MaxOperands <- 2, MaxHeld <- 1, Width <- 2,
    Cohort <- 1, PageSize <- 2, Tree <- WalkTree, Roots <- {0, 3}, Budgets <- {0, 3, 5, 6, 9},
    Depths <- {0, 1, 2}, linked <- s1, cursor <- s2, app <- s3, call <- s4, misused <- s5,
    opts <- s1, walkPending <- s2, walkLeft <- s3, shown <- s4, pruned <- s5, read <- s6,
    outcome <- s7
Py == INSTANCE PyVectors WITH
    Pairs <- {1, 2}, Paths <- {1, 2, 3, 4}, Inodes <- {1, 2}, Names <- CopyNames,
    Lengths <- {0, 1, 2}, MaxFaults <- 2, RetryNone <- NoEnd, Items <- {1, 2, 3},
    Sizes <- {0, 2}, Starts <- {0, 1}, Ends <- {NoEnd, 2}, MaxChanges <- 1, RetryMaxFaults <- 1,
    Dirs <- {"a", "b"}, Requests <- AggregateRequests, ListSizes <- AggregateSizes,
    MaxEntries <- 4, ListMaxChanges <- 2, pair <- s1, inode <- s2, content <- s3, before <- s4,
    at <- s5, data <- s6, large <- s7, suspects <- s8, todo <- s9, offset <- s10, size <- s11,
    copied <- s12, errors <- s13, writes <- s14, faults <- s15,
    identified <- s16, assumed <- s17, range <- s1, retrySize <- s2,
    broken <- s3, retryAt <- s4, length <- s5, remaining <- s6, retryData <- s7, retryErrors <- s8,
    counts <- s9, paths <- s1, listSize <- s2, got <- s3, whole <- s4, used <- s5, listAt <- s6,
    next <- s7, listTodo <- s8, failure <- s9, result <- s10, changes <- s11
Pool == INSTANCE ClientPool WITH
    Threads <- {t1, t2},
    Ops <- {"open", "open_many_independent", "path", "fd", "close", "close_many", "reconnect_descriptor", "chdir", "shutdown"},
    Size <- 2, Batch <- 2, Dirs <- {"/", "/a"}, Root <- "/", MaxTokens <- 2, MaxCalls <- 4,
    MaxFaults <- 1, MaxConnectFaults <- 1, Forked <- FALSE, open <- s1, session <- s2, fds <- s3,
    deferred <- s4, nextToken <- s5, nextClient <- s6, cwd <- s7, stalePid <- s8, locks <- s9,
    rebuilding <- s10, th <- s11, calls <- s12, faults <- s13, connectFaults <- s14, kept <- s15,
    events <- s16
Child == INSTANCE ClientPool WITH
    Threads <- {t1, t2},
    Ops <- {"open", "open_many_independent", "path", "fd", "close", "reconnect_descriptor", "chdir", "shutdown"},
    Size <- 2, Batch <- 2, Dirs <- {"/", "/a"}, Root <- "/", MaxTokens <- 2, MaxCalls <- 3,
    MaxFaults <- 1, MaxConnectFaults <- 1, Forked <- TRUE, open <- s1, session <- s2, fds <- s3,
    deferred <- s4, nextToken <- s5, nextClient <- s6, cwd <- s7, stalePid <- s8, locks <- s9,
    rebuilding <- s10, th <- s11, calls <- s12, faults <- s13, connectFaults <- s14, kept <- s15,
    events <- s16
Deferring == INSTANCE ClientPool WITH
    Threads <- {t1, t2}, Ops <- {"open_many_independent", "path", "close_many", "shutdown"},
    Size <- 2, Batch <- 3, Dirs <- {"/", "/a"}, Root <- "/", MaxTokens <- 3, MaxCalls <- 3,
    MaxFaults <- 3, MaxConnectFaults <- 1, Forked <- FALSE, open <- s1, session <- s2, fds <- s3,
    deferred <- s4, nextToken <- s5, nextClient <- s6, cwd <- s7, stalePid <- s8, locks <- s9,
    rebuilding <- s10, th <- s11, calls <- s12, faults <- s13, connectFaults <- s14, kept <- s15,
    events <- s16

Unused13 == s14 = <<>> /\ s15 = <<>> /\ s16 = <<>> /\ s17 = <<>>
Unused11 == s12 = <<>> /\ s13 = <<>> /\ Unused13
Unused9 == s10 = <<>> /\ s11 = <<>> /\ Unused11
Unused7 == s8 = <<>> /\ s9 = <<>> /\ Unused9
Unused5 == s6 = <<>> /\ s7 = <<>> /\ Unused7
Unused4 == s5 = <<>> /\ Unused5
Init ==
    \/ part = "handles" /\ C!Init /\ Unused13
    \/ part = "vectors" /\ C!VectorInit /\ Unused4
    \/ part = "identity" /\ C!IdentInit /\ Unused7
    \/ part = "listings" /\ Listings!Init /\ Unused5
    \/ part = "walk" /\ Listings!WalkInit /\ Unused7
    \/ part = "copy" /\ Py!Init
    \/ part = "retry" /\ Py!RetryInit /\ Unused9
    \/ part = "aggregate" /\ Py!ListInit /\ Unused11
    \/ part = "pool" /\ Pool!Init /\ s17 = <<>>
    \/ part = "fork" /\ Child!Init /\ s17 = <<>>
    \/ part = "deferred" /\ Deferring!Init /\ s17 = <<>>
Next ==
    \/ part = "handles" /\ C!Next /\ UNCHANGED <<part, s14, s15, s16, s17>>
    \/ part = "vectors" /\ C!VectorNext /\ UNCHANGED <<part, s5, s6, s7, s8, s9, s10, s11, s12, s13, s14, s15, s16, s17>>
    \/ part = "identity" /\ C!IdentNext /\ UNCHANGED <<part, s8, s9, s10, s11, s12, s13, s14, s15, s16, s17>>
    \/ part = "listings" /\ Listings!Next /\ UNCHANGED <<part, s6, s7, s8, s9, s10, s11, s12, s13, s14, s15, s16, s17>>
    \/ part = "walk" /\ Listings!WalkNext /\ UNCHANGED <<part, s8, s9, s10, s11, s12, s13, s14, s15, s16, s17>>
    \/ part = "copy" /\ Py!Next /\ UNCHANGED <<part>>
    \/ part = "retry" /\ Py!RetryNext /\ UNCHANGED <<part, s10, s11, s12, s13, s14, s15, s16, s17>>
    \/ part = "aggregate" /\ Py!ListNext /\ UNCHANGED <<part, s12, s13, s14, s15, s16, s17>>
    \/ part = "pool" /\ Pool!Next /\ UNCHANGED <<part, s17>>
    \/ part = "fork" /\ Child!Next /\ UNCHANGED <<part, s17>>
    \/ part = "deferred" /\ Deferring!Next /\ UNCHANGED <<part, s17>>
vars == <<part, s1, s2, s3, s4, s5, s6, s7, s8, s9, s10, s11, s12, s13, s14, s15, s16, s17>>
Spec == Init /\ [][Next]_vars
-----------------------------------------------------------------------------
(* A C handle names its own file, nothing it holds is lost, identities      *)
(* never alias, and every listing buffer has one owner.                     *)
HandlesOwned ==
    /\ part = "handles" => C!OwnFile /\ C!NothingLost
    /\ part = "identity" => C!OwnPolicy /\ C!NeverAlias /\ C!OwnPlace
    /\ part = "listings" => Listings!OwnedOnce /\ Listings!AllOrNothing /\ Listings!SeedsStayHome

(* Each item of a vector is reported as it went, in its own place, and what *)
(* is reported done was done.                                               *)
ItemsTrue ==
    /\ part = "handles" => C!ItemsTrue
    /\ part = "vectors" => C!VectorItemsTrue /\ C!BadNeverSent /\ C!StatAgrees
    /\ part = "listings" => Listings!QuotaExact /\ Listings!CompleteTrue /\ Listings!VectorWhole
    /\ part = "walk" => Listings!Nested /\ Listings!PrunedUnread /\ Listings!ShownOnce /\ Listings!BudgetExact


(* A descriptor is only used on the session that opened it; every native    *)
(* descriptor has a token that a caller or the pool will close, except what *)
(* open_many_independent leaves when a reconnect races its clean-up; a      *)
(* fork child sends nothing over the parent's sessions, except through      *)
(* reconnect_descriptor of an inherited descriptor; and the sessions share  *)
(* the pool's working directory, except one whose reconnect raised.         *)
NeverMisrouted ==
    /\ part = "pool" => Pool!NeverMisrouted /\ Pool!CwdAgrees /\ Pool!NothingLeaks
    /\ part = "fork" => Child!ParentUntouched
    /\ part = "deferred" => Deferring!NeverMisrouted /\ Deferring!NothingLeaks

(* A poisoned C client stays poisoned and its handles stay with their       *)
(* owners.                                                                  *)
PoisonFinal ==
    [][/\ part = "handles" => C!PoisonFinal]_vars

=============================================================================
