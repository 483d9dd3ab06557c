------------------------------ MODULE MCFsspec ------------------------------
(* The Python fsspec adapter.  A behaviour exercises one part: an open file,*)
(* the block cache, grouped reads and writes, bulk transfers, pairwise      *)
(* copies, a transaction, the directory cache and the tree walk.           *)
EXTENDS Integers, Sequences, FiniteSets, TLC

CONSTANT t1, t2, h1, h2

Symmetry == Permutations({t1, t2}) \cup Permutations({h1, h2})
FileCase(mode, buffered, auto) == [mode |-> mode, buffered |-> buffered, auto |-> auto]
FileWriters == {FileCase(mode, buffered, TRUE) : mode \in {"w", "a"}, buffered \in BOOLEAN}
FileReaders == {FileCase("r", TRUE, TRUE), FileCase("r", TRUE, FALSE), FileCase("r", FALSE, TRUE)}
GroupReadSize == <<1, 2, 2>>
GroupWriteModes == [{1, 2} -> {"w", "a"}]
TxnPaths == {"p", "q"}
TxnCase(jobs, manual, foreign, present) ==
  [jobs |-> jobs, manual |-> manual, foreign |-> foreign, present |-> present]
TxnJob(path, mode) == [path |-> path, mode |-> mode]
TxnTogether == {<<TxnJob("p", "w"), TxnJob("q", "x"), TxnJob("q", "w")>>, <<TxnJob("p", "x"), TxnJob("q", "a")>>,
                <<TxnJob("p", "a"), TxnJob("p", "w")>>, <<TxnJob("p", "w"), TxnJob("q", "w"), TxnJob("p", "x")>>}
TxnCases ==
  {TxnCase(jobs, FALSE, foreign, present) : jobs \in TxnTogether, foreign \in {0, 1}, present \in {{}, {"p"}}}
  \union {TxnCase(<<TxnJob("p", mode)>>, TRUE, 0, present) : mode \in {"w", "x"}, present \in {{}, {"p"}}}
CacheObjects == {"R", "D", "E", "S", "F", "N", "L"}
CacheThreads == {t1, t2}
CacheNoKids == [o \in CacheObjects |-> {}]
CacheD == <<"d">>
CacheE1(name, obj) == [name |-> name, obj |-> obj]
CacheOp(kind, path, to) == [kind |-> kind, path |-> path, to |-> to]
\* The directory d/s moves to e/s.
CacheNested == [kids |-> [CacheNoKids EXCEPT !["R"] = {CacheE1("d", "D"), CacheE1("e", "E")}, !["D"] = {CacheE1("s", "S")},
                                             !["S"] = {CacheE1("f", "F")}],
                links |-> [x \in {} |-> ""], top |-> {"D", "E", "S"}, keys |-> {CacheD, <<"d", "s">>},
                ops |-> {CacheOp("rename", <<"d", "s">>, <<"e", "s">>)}]
CacheE == <<"e">>
\* The file d/f is also e/g.
CacheShared == [kids |-> [CacheNoKids EXCEPT !["R"] = {CacheE1("d", "D"), CacheE1("e", "E")}, !["D"] = {CacheE1("f", "F")},
                                             !["E"] = {CacheE1("g", "F")}],
                links |-> [x \in {} |-> ""], top |-> {"D", "E"}, keys |-> {CacheD, CacheE},
                ops |-> {CacheOp("write", <<"d", "f">>, CacheD), CacheOp("remove", <<"e", "g">>, CacheE),
                         CacheOp("rename", <<"d", "f">>, <<"e", "f">>)}]
\* The symbolic link e names the directory d.
CacheLinked == [kids |-> [CacheNoKids EXCEPT !["R"] = {CacheE1("d", "D"), CacheE1("e", "L")}, !["D"] = {CacheE1("f", "F")}],
                links |-> [x \in {"e"} |-> "d"], top |-> {"D"}, keys |-> {<<>>, CacheD, CacheE},
                ops |-> {CacheOp("create", <<"e", "n">>, CacheE), CacheOp("link", <<"d", "f">>, <<"d", "h">>)}]
CacheCases == {CacheLinked, CacheShared, CacheNested}
WalkChain == <<1, 1, 2, 3>>
WalkCase(up, unreadable, limit, maxdepth, onError, topdown) ==
  [up |-> up, unreadable |-> unreadable, limit |-> limit, maxdepth |-> maxdepth,
   onError |-> onError, topdown |-> topdown]
WalkBushy == <<1, 1, 1, 2, 2>>
WalkCases ==
  {WalkCase(WalkBushy, unreadable, limit, maxdepth, onError, topdown) :
     unreadable \in {{}, {3}, {4}}, limit \in {8, 9, 20}, maxdepth \in {2, 99},
     onError \in {"omit", "raise"}, topdown \in BOOLEAN}
  \union {WalkCase(WalkChain, {}, 20, maxdepth, "omit", topdown) : maxdepth \in {2, 99}, topdown \in BOOLEAN}

-----------------------------------------------------------------------------
VARIABLES part,   \* the part this behaviour exercises
          s1, s2, s3, s4, s5, s6, s7, s8, s9, s10, s11, s12, s13, s14, s15, s16   \* its variables, and <<>> in what it does not use

File == INSTANCE FileHandle WITH
    Cases <- FileReaders \cup FileWriters, BlockSize <- 2, MaxAtoms <- 4, MaxCalls <- 3,
    MaxFaults <- 2, MaxOther <- 1, MaxReconnects <- 1, Procs <- {t1, t2}, Handles <- {h1, h2},
    Blocks <- {"b1"}, MaxGens <- 2, MaxVersion <- 2, BlockMaxFaults <- 1, case <- s1, inode <- s2,
    name <- s3, fds <- s4, deferred <- s5, h <- s6, call <- s7, want <- s8, wrote <- s9,
    asked <- s10, counts <- s11, ver <- s1, check <- s2, seed <- s3, hidden <- s4, disk <- s5,
    files <- s6, blockData <- s7, gens <- s8, holder <- s9, pc <- s10, job <- s11, handle <- s12,
    mutating <- s13, acked <- s14, revived <- s15, faults <- s16
Groups == INSTANCE FileGroups WITH
    Files <- {1, 2, 3}, Size <- GroupReadSize, Sessions <- {1}, BlockSize <- 2, BatchSize <- 2,
    Budget <- 3, MaxCalls <- 2, MaxFaults <- 2, MaxReplaced <- 1, WriteFiles <- {1, 2},
    ModeChoices <- GroupWriteModes, MaxBytes <- 4, MaxAtoms <- 3, WriteMaxCalls <- 6, mmap <- s1,
    name <- s2, fds <- s3, fd <- s4, deferred <- s5, loc <- s6, kept <- s7, call <- s8,
    truth <- s9, counts <- s10, mode <- s1, disk <- s2, open <- s3, writeDeferred <- s4,
    member <- s5, group <- s6, writeCall <- s7, wrote <- s8, told <- s9, asked <- s10, late <- s11,
    writeCounts <- s12
Bulk == INSTANCE BulkTransfers WITH
    Paths <- {1, 2, 3}, Ops <- {"cat", "ranges", "get"}, Lengths <- {0, 1, 3}, BatchSize <- 2,
    BatchBytes <- 2, Limit <- 4, MaxChanges <- 1, MaxFaults <- 1, Sources <- {1, 2, 3},
    Targets <- {1, 2}, Modes <- {"overwrite", "create"}, PutMaxChanges <- 1, Pairs <- {1, 2},
    Dirs <- {1, 2}, Types <- {"file", "directory", "link", "special", "missing"}, op <- s1,
    file <- s2, sizes <- s3, data <- s4, pending <- s5, stream <- s6, local <- s7, at <- s8,
    seen <- s9, counts <- s10, mode <- s1, target <- s2, putLen <- s3, putSizes <- s4,
    putTodo <- s5, putBatch <- s6, staged <- s7, putStream <- s8, remote <- s9, taken <- s10,
    putAt <- s11, reported <- s12, putCounts <- s13, call <- s1, type <- s2, parent <- s3,
    dir <- s4, pairAt <- s5, pend <- s6, links <- s7, failed <- s8, copies <- s9, opened <- s10,
    told <- s11, raised <- s12, pairCounts <- s13
Transaction == INSTANCE Transaction WITH
    Paths <- TxnPaths, Cases <- TxnCases, MaxOther <- 2, MaxFaults <- 2, MaxTries <- 3, case <- s1,
    dest <- s2, stage <- s3, file <- s4, pc <- s5, result <- s6, others <- s7, faults <- s8,
    tries <- s9, seen <- s10
Dirs == INSTANCE DirCache WITH
    Objects <- CacheObjects, Root <- "R", Threads <- CacheThreads, Cases <- CacheCases,
    MaxFills <- 2, MaxMutations <- 1, MaxReconnects <- 1, MaxFaults <- 1, WalkCases <- WalkCases,
    WalkMaxDepth <- 2, BatchSize <- 2, WalkMaxMutations <- 1, Unlimited <- 99, case <- s1,
    kids <- s2, ver <- s3, cache <- s4, epoch <- s5, fills <- s6, cacheGen <- s7, gen <- s8,
    job <- s9, counts <- s10, windowed <- s11, walkCase <- s1, here <- s2, files <- s3,
    walkVer <- s4, walkCache <- s5, walkEpoch <- s6, budget <- s7, pending <- s8, visit <- s9,
    yielded <- s10, outcome <- s11, seen <- s12

Unused13 == s14 = <<>> /\ s15 = <<>> /\ s16 = <<>>
Unused12 == s13 = <<>> /\ Unused13
Unused11 == s12 = <<>> /\ Unused12
Unused10 == s11 = <<>> /\ Unused11
Init ==
    \/ part = "file" /\ File!Init /\ Unused11
    \/ part = "blocks" /\ File!BlockInit
    \/ part = "group_reads" /\ Groups!Init /\ Unused10
    \/ part = "group_writes" /\ Groups!WriteInit /\ Unused12
    \/ part = "bulk_reads" /\ Bulk!Init /\ Unused10
    \/ part = "bulk_writes" /\ Bulk!PutInit /\ Unused13
    \/ part = "pairs" /\ Bulk!PairInit /\ Unused13
    \/ part = "transaction" /\ Transaction!Init /\ Unused10
    \/ part = "cache" /\ Dirs!Init /\ Unused11
    \/ part = "walk" /\ Dirs!WalkInit /\ Unused12
Next ==
    \/ part = "file" /\ File!Next /\ UNCHANGED <<part, s12, s13, s14, s15, s16>>
    \/ part = "blocks" /\ File!BlockNext /\ UNCHANGED <<part>>
    \/ part = "group_reads" /\ Groups!Next /\ UNCHANGED <<part, s11, s12, s13, s14, s15, s16>>
    \/ part = "group_writes" /\ Groups!WriteNext /\ UNCHANGED <<part, s13, s14, s15, s16>>
    \/ part = "bulk_reads" /\ Bulk!Next /\ UNCHANGED <<part, s11, s12, s13, s14, s15, s16>>
    \/ part = "bulk_writes" /\ Bulk!PutNext /\ UNCHANGED <<part, s14, s15, s16>>
    \/ part = "pairs" /\ Bulk!PairNext /\ UNCHANGED <<part, s14, s15, s16>>
    \/ part = "transaction" /\ Transaction!Next /\ UNCHANGED <<part, s11, s12, s13, s14, s15, s16>>
    \/ part = "cache" /\ Dirs!Next /\ UNCHANGED <<part, s12, s13, s14, s15, s16>>
    \/ part = "walk" /\ Dirs!WalkNext /\ UNCHANGED <<part, s13, s14, s15, s16>>
vars == <<part, s1, s2, s3, s4, s5, s6, s7, s8, s9, s10, s11, s12, s13, s14, s15, s16>>
Spec == Init /\ [][Next]_vars
-----------------------------------------------------------------------------
(* No write of an open file or a group is sent twice, a loss is reported,   *)
(* the descriptors of both have one owner, and of several sources of one    *)
(* target the last wins.                                                    *)
NeverReplayed ==
    /\ part = "file" => File!Stored /\ File!NeverReplayed /\ File!AppendPosition /\ File!DescriptorsOwned
    /\ part = "group_writes" => Groups!NeverReplayed /\ Groups!LossReported /\ Groups!WriteDescriptorsOwned
    /\ part = "bulk_writes" => Bulk!MemoryBounded /\ Bulk!LastSourceWins /\ Bulk!ReportedStored
    /\ part = "pairs" => Bulk!CopiedOnce /\ Bulk!SpecialNeverOpened /\ Bulk!IndependentCopied /\ Bulk!ToldOnce

(* A read returns bytes the file had, under the limits set.  A reader of    *)
(* the block cache sees nothing older than its open or its process's own    *)
(* mutations, unless an open that a read-only seed served has made an       *)
(* invalidated generation valid again (FileHandle, revived).                *)
ReadsTrue ==
    /\ part = "file" => File!ReadsOriginal
    /\ part = "group_reads" => Groups!AnswersTrue /\ Groups!BudgetHeld /\ Groups!DescriptorsOwned
    /\ part = "bulk_reads" => Bulk!LimitHeld /\ Bulk!OwnBytes /\ Bulk!EveryPathAnswered /\ Bulk!LocalKept
    /\ part = "blocks" => File!NamedExists /\ File!RecordedFilled /\ File!ReadersFresh

(* A cached listing is stale only from within the window in which it was    *)
(* filled, and a walk lists every directory it promised.                    *)
CacheCoherent ==
    /\ part = "cache" => Dirs!StaleOnlyFromWindow /\ Dirs!OneGeneration
    /\ part = "walk" => Dirs!BudgetExact /\ Dirs!PrunedUntouched /\ Dirs!Ordered /\ Dirs!Complete /\ Dirs!LimitTrue

(* A transaction exposes a prefix of its files, each whole, and keeps what  *)
(* others put there.                                                        *)
NeverPartial ==
    /\ part = "transaction" => Transaction!NeverPartial /\ Transaction!PrefixExposed /\ Transaction!CommittedResult /\ Transaction!ForeignKept /\ Transaction!EverythingReleased

(* No step replaces what an exclusive transaction or put may not, or        *)
(* commits before all is staged; a broken file is never written again; a    *)
(* walk never shows a directory older than its visit.                       *)
StepsKept ==
    [][/\ part = "transaction" => Transaction!ExclusiveKept /\ Transaction!StagedFirst /\ Transaction!PermissionsKept
       /\ part = "file" => File!BrokenIsFinal
       /\ part = "walk" => Dirs!FreshVisit
       /\ part = "bulk_writes" => Bulk!ExclusiveKept]_vars

=============================================================================
