------------------------------- MODULE MCRemote -----------------------------
(* The vectored I/O of the NFS client, and the SMB client.  A behaviour     *)
(* exercises one part: the merged path compounds (names and bytes), the     *)
(* descriptor reads and writes, server-side copies, the write scheduler and *)
(* its conflict frontier; SMB file ids and descriptors, names, vectored I/O *)
(* and directory pages.                                                     *)
EXTENDS Integers, Sequences, FiniteSets, TLC

MergedEntry(dir, name, k) == [dir |-> dir, name |-> name, kind |-> k]
MergedTree == [ A  |-> MergedEntry("R", "a", "dir"),  B |-> MergedEntry("A", "b", "dir"), D |-> MergedEntry("R", "c", "dir"),
                AX |-> MergedEntry("A", "x", "file"), AL |-> MergedEntry("A", "l", "link"),
                BX |-> MergedEntry("B", "x", "file"), DZ |-> MergedEntry("D", "z", "file") ]
MergedCy == <<"c", "y">>
MergedMv(path, to) == [path |-> path, to |-> to, how |-> "plain"]
MergedBx == <<"a", "b", "x">>
MergedAx == <<"a", "x">>
MergedCz == <<"c", "z">>
MergedRenameItems == {MergedMv(MergedAx, MergedBx), MergedMv(MergedBx, MergedCy), MergedMv(<<"a", "b">>, MergedCz), MergedMv(MergedCz, MergedAx), MergedMv(<<"a", "b">>, <<"c", "b">>), MergedMv(MergedAx, <<>>)}
MergedOf(k, I, len) == {[kind |-> k, items |-> s] : s \in [1..len -> I]}
MergedIt(path, how) == [path |-> path, to |-> <<>>, how |-> how]
MergedGetattrItems == {MergedIt(MergedAx, "plain"), MergedIt(MergedBx, "plain"), MergedIt(<<"BX">>, "handle"), MergedIt(MergedCz, "plain")}
MergedRemoveItems == {MergedIt(p, "plain") : p \in {MergedAx, MergedBx, <<"a", "b">>, MergedCz}}
MergedAl == <<"a", "l">>
MergedSetattrItems == {MergedIt(MergedAx, "guard"), MergedIt(MergedAl, "guard"), MergedIt(<<"BX">>, "handle"), MergedIt(MergedCz, "plain")}
MergedOpenItems == {MergedIt(MergedAx, "plain"), MergedIt(MergedBx, "create"), MergedIt(MergedCy, "create"), MergedIt(MergedCy, "excl"), MergedIt(<<"n">>, "plain")}
MergedDeep == [k \in 1..16 |-> "a"]
MergedCalls ==
  MergedOf("open", MergedOpenItems, 3) \cup MergedOf("remove", MergedRemoveItems, 3) \cup MergedOf("rename", MergedRenameItems, 3)
          \cup MergedOf("getattr", MergedGetattrItems, 3) \cup MergedOf("setattr", MergedSetattrItems, 3)
          \cup {[kind |-> k, items |-> <<MergedIt(MergedAx, "plain"), MergedIt(<<>>, "plain")>>] : k \in {"open", "remove", "setattr"}}
          \cup {[kind |-> "open", items |-> <<MergedIt(MergedAx, "plain"), MergedIt(MergedDeep, "plain")>>]}
PathNames == [a |-> "A", l |-> "A", b |-> "B"]
PathByte(k) == <<9, k>>
PathContent == [A |-> <<PathByte(1), PathByte(2), PathByte(3), PathByte(4)>>, B |-> <<PathByte(5)>>]
PathW(name, off, len, create, trunc) ==
      [name |-> name, off |-> off, len |-> len, create |-> create, trunc |-> trunc, fd |-> FALSE]
PathFd(obj, off, len) == [PathW(obj, off, len, FALSE, FALSE) EXCEPT !.fd = TRUE]
PathWrites == {PathW("a", 0, 3, FALSE, FALSE), PathW("l", 1, 2, FALSE, FALSE), PathW("b", 0, 2, FALSE, TRUE),
               PathW("c", 0, 2, TRUE, TRUE), PathFd("B", 1, 2), PathW("a", 2, 1, TRUE, TRUE)}
PathReads == {PathW("a", 0, 5, FALSE, FALSE), PathW("l", 2, 2, FALSE, FALSE), PathW("b", 0, 1, FALSE, FALSE), PathFd("A", 1, 3)}
PathVectors == {[kind |-> "write", items |-> v] : v \in [1..2 -> PathWrites]}
       \cup {[kind |-> "read", items |-> v] : v \in [1..2 -> PathReads]}
       \cup {[kind |-> "write", items |-> <<PathW("b", 0, 2, FALSE, FALSE), PathW("a", 0, 5, FALSE, TRUE), PathW("c", 0, 0, TRUE, FALSE)>>],
             [kind |-> "write", items |-> <<PathW("a", 0, 3, FALSE, FALSE), PathW("x", 0, 1, FALSE, FALSE)>>]}
PathServers == [close: BOOLEAN, io: BOOLEAN, ops: {14}] \cup [close: {TRUE}, io: {TRUE}, ops: {4, 7, 12}]
ReadR(f, at, len) == [file |-> f, at |-> at, len |-> len]
ReadVectors ==
    {<<ReadR("f", -1, 3)>>, <<ReadR("f", -1, 2), ReadR("g", 1, 3)>>, <<ReadR("f", -1, 3), ReadR("f", -1, 1)>>,
     <<ReadR("g", 0, 3), ReadR("f", -1, 0)>>}
WaveFhOf == "d1" :> "a" @@ "d2" :> "a" @@ "d3" :> "b"
WaveW(d, kind, off, len) == [fd |-> d, kind |-> kind, off |-> off, len |-> len]
WaveSome == {WaveW("d1", "at", 0, 3), WaveW("d1", "at", 1, 1), WaveW("d1", "at", 3, 2), WaveW("d1", "cur", 0, 3), WaveW("d1", "cur", 0, 1),
             WaveW("d1", "end", 0, 1), WaveW("d2", "at", 0, 2), WaveW("d2", "cur", 0, 1), WaveW("d3", "at", 1, 2), WaveW("d1", "at", 1, 0),
             WaveW("d1", "cur", 0, 0)}
WaveVectors == [1..3 -> WaveSome]
CopyE(s, so, d, do, len) == [src |-> s, so |-> so, dst |-> d, do |-> do, len |-> len]
CopySome ==
  {CopyE(1, 0, 2, 0, -1), CopyE(1, 0, 2, 0, 2), CopyE(1, 1, 2, 2, 2), CopyE(1, 0, 3, 0, -1), CopyE(2, 0, 3, 0, -1), CopyE(2, 0, 1, 0, 0),
   CopyE(2, 1, 1, 1, 1), CopyE(1, 0, 1, 1, 2), CopyE(1, 1, 1, 0, 2), CopyE(1, 0, 1, 2, 2), CopyE(3, 0, 2, 0, -1), CopyE(1, 2, 3, 1, 3), CopyE(2, 0, 3, 0, 0)}
CopyVectors == UNION {[1..n -> CopySome] : n \in 1..3}
CopyContents == {[f \in 1..3 |-> IF f = 1 THEN <<11, 12, 13>> ELSE IF f = 2 THEN <<21, 22>> ELSE <<>>]}
ScheduleObjects == {"o1", "o2"}
ScheduleReq(s, o, k) == [obj |-> o, known |-> k] @@ s
ScheduleShape(at, len, append) == [start |-> at, len |-> len, append |-> append]
ScheduleAlone == {ScheduleReq(s, "o1", TRUE) : s \in {ScheduleShape(0, 2, FALSE), ScheduleShape(1, 2, FALSE), ScheduleShape(2, 1, FALSE),
                                                      ScheduleShape(0, 1, TRUE), ScheduleShape(1, 0, FALSE)}}
SchedulePairs == {ScheduleReq(s, o, k) : s \in {ScheduleShape(0, 2, FALSE), ScheduleShape(1, 1, FALSE), ScheduleShape(2, 2, TRUE)},
                                         o \in ScheduleObjects, k \in BOOLEAN}
ScheduleVectors == {v \in [1..3 -> SchedulePairs] : v[1].obj = "o1"} \cup [1..4 -> ScheduleAlone]

SmbNameNames == {"a", "A", "d", "D", "l", "u", "U", "x"}
SmbNameFold == [n \in SmbNameNames |-> CASE n = "A" -> "a" [] n = "D" -> "d" [] n = "U" -> "u" [] OTHER -> n]
SmbNameTarget == <<"d">>
SmbNameFolded == {"a", "d", "l", "u", "x"}
SmbNamePlaces == {<<n>> : n \in SmbNameFolded} \cup {<<m, n>> : m \in SmbNameFolded, n \in SmbNameFolded}
SmbNameTree(files) == [p \in SmbNamePlaces |-> IF p = <<"d">> THEN "dir" ELSE IF p = <<"l">> THEN "link"
                                         ELSE IF p \in files THEN "file" ELSE "none"]
SmbNameStarts == {SmbNameTree({<<"d", "a">>}), SmbNameTree({<<"a">>, <<"u">>}), SmbNameTree({<<"a">>, <<"d", "a">>, <<"d", "x">>})}
SmbNameV(kind, items) == [kind |-> kind, items |-> items]
SmbNameVectors ==
    {SmbNameV("remove", <<<< <<"d", "a">> >>, << <<"D">> >>>>), SmbNameV("remove", <<<< <<"a">> >>, << <<"l">> >>>>),
     SmbNameV("remove", <<<< <<"a">> >>, << <<"d", "a">> >>, << <<"d", "x">> >>>>), SmbNameV("remove", <<<< <<"l">> >>>>),
     SmbNameV("rename", <<<< <<"a">>, <<"x">> >>, << <<"x">>, <<"u">> >>>>),
     SmbNameV("rename", <<<< <<"a">>, <<"x">> >>, << <<"d", "a">>, <<"a">> >>>>),
     SmbNameV("rename", <<<< <<"u">>, <<"x">> >>, << <<"U">>, <<"a">> >>>>),
     SmbNameV("rename", <<<< <<"a">>, <<"x">> >>, << <<"d", "a">>, <<"d", "u">> >>>>),
     SmbNameV("rename", <<<< <<"d">>, <<"x">> >>, << <<"x", "a">>, <<"d">> >>>>),
     SmbNameV("mkdir", <<<< <<"x">> >>, << <<"x", "a">> >>>>), SmbNameV("mkdir", <<<< <<"x">> >>, << <<"A">> >>, << <<"d", "x">> >>>>)}
SmbIoRequest(on, off, at0, len, trunc) == [on |-> on, off |-> off, at |-> at0, len |-> len, trunc |-> trunc]
SmbIoWrites ==
    {SmbIoRequest(p, "at", a, n, FALSE) : p \in {"p", "q"}, a \in 0..1, n \in {0, 2, 3}}
    \cup {SmbIoRequest("p", "end", 0, 2, FALSE), SmbIoRequest("q", "at", 0, 1, TRUE)}
    \cup {SmbIoRequest("h", o, 1, n, FALSE) : o \in {"at", "cur", "end"}, n \in {1, 3}}
SmbIoReads ==
    {SmbIoRequest(p, "at", a, n, FALSE) : p \in {"p", "q"}, a \in 0..1, n \in {1, 2, 3}}
    \cup {SmbIoRequest("p", "end", 0, 1, FALSE)}
    \cup {SmbIoRequest("h", o, 1, n, FALSE) : o \in {"at", "cur"}, n \in {1, 3}}
SmbIoVectors ==
    {[kind |-> "write", ops |-> v] : v \in (SmbIoWrites \X SmbIoWrites)}
    \cup {[kind |-> "read", ops |-> v] : v \in (SmbIoReads \X SmbIoReads)}
    \cup {[kind |-> "write", ops |-> <<w>>] : w \in SmbIoWrites}
SmbIoNames == {[p |-> 1, q |-> 2], [p |-> 1, q |-> 1], [p |-> 2, q |-> 0]}
SmbDirListing == <<"dot", "a", "f", "b">>
SmbDirTruth == <<[a |-> "dir", b |-> "link", f |-> "file"], [a |-> "link", b |-> "dir", f |-> "file"]>>

-----------------------------------------------------------------------------
VARIABLES part,   \* the part this behaviour exercises
          s1, s2, s3, s4, s5, s6, s7, s8, s9, s10, s11, s12, s13, s14, s15, s16, s17, s18, s19, s20, s21, s22, s23, s24, s25, s26, s27, s28, s29, s30, s31, s32, s33, s34   \* its variables, and <<>> in what it does not use

Merged == INSTANCE MergedOps WITH
    Negotiated <- 17, Start <- 17, Slack <- 2, Grow <- 2, MaxBackoff <- 2, Root <- "R",
    Tree <- MergedTree, Spare <- {"N1", "N2", "N3"}, Calls <- MergedCalls, Reserve <- 1,
    ByteItems <- 3, MaxFaults <- 1, kind <- s1, items <- s2, pc <- s3, sizer <- s4, global <- s5,
    chunkStart <- s6, maxItems <- s7, budget <- s8, cursor <- s9, ops <- s10, ranges <- s11,
    reply <- s12, failed <- s13, done <- s14, opened <- s15, result <- s16, tree <- s17,
    opens <- s18, attrs <- s19, cur <- s20, saved <- s21, pos <- s22, deferred <- s23,
    faults <- s24
PathIo == INSTANCE PathIo WITH
    Negotiated <- 14, Start <- 14, Slack <- 2, Grow <- 2, MaxBackoff <- 2, Names <- PathNames,
    Content <- PathContent, Vectors <- PathVectors, Servers <- PathServers, PerOp <- 2, Room <- 3,
    Reserve <- 1, MaxFaults <- 2, kind <- s1, items <- s2, special <- s3, mode <- s4, form <- s5,
    base <- s6, pc <- s7, sizer <- s8, budget <- s9, maxItems <- s10, global <- s11, part <- s12,
    start <- s13, cursor <- s14, at <- s15, touched <- s16, ops <- s17, ranges <- s18, got <- s19,
    status <- s20, idx <- s21, failed <- s22, closeFailed <- s23, counts <- s24, data <- s25,
    eofs <- s26, opened <- s27, result <- s28, names <- s29, file <- s30, opens <- s31, cur <- s32,
    saved <- s33, faults <- s34
Desc == INSTANCE DescIo WITH
    Files <- {"f", "g"}, MaxSize <- 3, Vectors <- ReadVectors, Per <- 2, Limit <- 3, Overhead <- 0,
    MaxForeign <- 1, MaxLost <- 1, Attempts <- 2, MaxTotals <- {0, 3}, WaveFiles <- {"a", "b"},
    Fds <- {"d1", "d2", "d3"}, FhOf <- WaveFhOf, AppendFds <- {"d2"}, WaveVectors <- WaveVectors,
    WaveOverhead <- 1, WaveLimit <- 7, CopyFiles <- {1, 2, 3}, CopyVectors <- CopyVectors,
    Contents <- CopyContents, Absent <- {3}, PerBatch <- 2, MaxFaults <- 1, size <- s1,
    cursor <- s2, call <- s3, foreign <- s4, lost <- s5, vector <- s6, reqs <- s1, pc <- s2,
    cur <- s3, offsets <- s4, activated <- s5, done <- s6, progress <- s7, scan <- s8,
    waveActive <- s9, selected <- s10, got <- s11, file <- s12, written <- s13, pairs <- s1,
    files <- s2, initial <- s3, there <- s4, enabled <- s5, base <- s6, batch <- s7, copyAt <- s8,
    effective <- s9, copyTotal <- s10, pending <- s11, atstart <- s12, result <- s13,
    faults <- s14
Order == INSTANCE WriteSchedule WITH
    MaxWrites <- 5, MaxByte <- 3, MinPrior <- 1, MaxPrior <- 2, Objects <- ScheduleObjects,
    Vectors <- ScheduleVectors, writes <- s1, adding <- s2, dense <- s3, ranges <- s4,
    append <- s5, moved <- s6, edges <- s7, before <- s8, reqs <- s1, pc <- s2, next <- s3,
    unknown <- s4, groups <- s5, scheduleEdges <- s6, remaining <- s7, wave <- s8, totals <- s9,
    offs <- s10, pending <- s11, got <- s12, file <- s13, wrote <- s14
Smb == INSTANCE SmbHandles WITH
    Ids <- {1, 2, 3, 4}, MaxFds <- 2, MaxFaults <- 2, Ambiguous <- TRUE, Dies <- TRUE,
    Names <- SmbNameNames, Ascii <- {"a", "A", "d", "D", "l", "x"}, Fold <- SmbNameFold,
    LinkTarget <- SmbNameTarget, Starts <- SmbNameStarts, Vectors <- SmbNameVectors, live <- s1,
    known <- s2, files <- s3, nextFd <- s4, deferred <- s5, up <- s6, faults <- s7, held <- s8,
    armed <- s9, pc <- s10, closed <- s11, failed <- s12,
    reissued <- s13, ns <- s1, dfs <- s2, queue <- s3,
    vector <- s4, call <- s5, nameFaults <- s6
SmbIo == INSTANCE SmbIo WITH
    Vectors <- SmbIoVectors, Names <- SmbIoNames, MaxIo <- 2, MaxFaults <- 2, Listing <- SmbDirListing,
    Truth <- SmbDirTruth, Paths <- {"x", "y"}, DirStart <- "x", IndexClass <- FALSE, MaxMoves <- 2,
    MaxDeaths <- 1, MaxIds <- 2, call <- s1, names <- s2, data <- s3, cur <- s4, append <- s5,
    up <- s6, faults <- s7, pc <- s8, i <- s9, at <- s10, got <- s11, reply <- s12, sent <- s13,
    deaths <- s14, where <- s1, handles <- s2, session <- s3, issued <- s4, dirUp <- s5,
    cursor <- s6, dirPc <- s7, size <- s8, page <- s9, complete <- s10, dirNames <- s11,
    probe <- s12, types <- s13, retried <- s14, given <- s15, ended <- s16, sentClose <- s17,
    inWindow <- s18, wrong <- s19, moves <- s20, dirDeaths <- s21

Unused24 == s25 = <<>> /\ s26 = <<>> /\ s27 = <<>> /\ s28 = <<>> /\ s29 = <<>> /\ s30 = <<>> /\ s31 = <<>> /\ s32 = <<>> /\ s33 = <<>> /\ s34 = <<>>
Unused21 == s22 = <<>> /\ s23 = <<>> /\ s24 = <<>> /\ Unused24
Unused14 == s15 = <<>> /\ s16 = <<>> /\ s17 = <<>> /\ s18 = <<>> /\ s19 = <<>> /\ s20 = <<>> /\ s21 = <<>> /\ Unused21
Unused13 == s14 = <<>> /\ Unused14
Unused8 == s9 = <<>> /\ s10 = <<>> /\ s11 = <<>> /\ s12 = <<>> /\ s13 = <<>> /\ Unused13
Unused6 == s7 = <<>> /\ s8 = <<>> /\ Unused8
Init ==
    \/ part = "merged" /\ Merged!Init /\ Unused24
    \/ part = "path_io" /\ PathIo!Init
    \/ part = "reads" /\ Desc!Init /\ Unused6
    \/ part = "waves" /\ Desc!WaveInit /\ Unused13
    \/ part = "copies" /\ Desc!CopyInit /\ Unused14
    \/ part = "frontier" /\ Order!Init /\ Unused8
    \/ part = "schedule" /\ Order!ScheduleInit /\ Unused14
    \/ part = "smb_handles" /\ Smb!Init /\ Unused13
    \/ part = "smb_names" /\ Smb!NameInit /\ Unused6
    \/ part = "smb_io" /\ SmbIo!Init /\ Unused14
    \/ part = "smb_directory" /\ SmbIo!DirInit /\ Unused21
Next ==
    \/ part = "merged" /\ Merged!Next /\ UNCHANGED <<part, s25, s26, s27, s28, s29, s30, s31, s32, s33, s34>>
    \/ part = "path_io" /\ PathIo!Next /\ UNCHANGED <<part>>
    \/ part = "reads" /\ Desc!Next /\ UNCHANGED <<part, s7, s8, s9, s10, s11, s12, s13, s14, s15, s16, s17, s18, s19, s20, s21, s22, s23, s24, s25, s26, s27, s28, s29, s30, s31, s32, s33, s34>>
    \/ part = "waves" /\ Desc!WaveNext /\ UNCHANGED <<part, s14, s15, s16, s17, s18, s19, s20, s21, s22, s23, s24, s25, s26, s27, s28, s29, s30, s31, s32, s33, s34>>
    \/ part = "copies" /\ Desc!CopyNext /\ UNCHANGED <<part, s15, s16, s17, s18, s19, s20, s21, s22, s23, s24, s25, s26, s27, s28, s29, s30, s31, s32, s33, s34>>
    \/ part = "frontier" /\ Order!Next /\ UNCHANGED <<part, s9, s10, s11, s12, s13, s14, s15, s16, s17, s18, s19, s20, s21, s22, s23, s24, s25, s26, s27, s28, s29, s30, s31, s32, s33, s34>>
    \/ part = "schedule" /\ Order!ScheduleStep /\ UNCHANGED <<part, s15, s16, s17, s18, s19, s20, s21, s22, s23, s24, s25, s26, s27, s28, s29, s30, s31, s32, s33, s34>>
    \/ part = "smb_handles" /\ Smb!Next /\ UNCHANGED <<part, s14, s15, s16, s17, s18, s19, s20, s21, s22, s23, s24, s25, s26, s27, s28, s29, s30, s31, s32, s33, s34>>
    \/ part = "smb_names" /\ Smb!NameNext /\ UNCHANGED <<part, s7, s8, s9, s10, s11, s12, s13, s14, s15, s16, s17, s18, s19, s20, s21, s22, s23, s24, s25, s26, s27, s28, s29, s30, s31, s32, s33, s34>>
    \/ part = "smb_io" /\ SmbIo!Next /\ UNCHANGED <<part, s15, s16, s17, s18, s19, s20, s21, s22, s23, s24, s25, s26, s27, s28, s29, s30, s31, s32, s33, s34>>
    \/ part = "smb_directory" /\ SmbIo!DirNext /\ UNCHANGED <<part, s22, s23, s24, s25, s26, s27, s28, s29, s30, s31, s32, s33, s34>>
vars == <<part, s1, s2, s3, s4, s5, s6, s7, s8, s9, s10, s11, s12, s13, s14, s15, s16, s17, s18, s19, s20, s21, s22, s23, s24, s25, s26, s27, s28, s29, s30, s31, s32, s33, s34>>
\* The parts whose callers may stop calling.
Rest == part \in {"frontier", "copies", "smb_handles", "smb_directory"} /\ UNCHANGED vars
Spec == Init /\ [][Next \/ Rest]_vars
-----------------------------------------------------------------------------
(* What a vector of path writes, descriptor writes, scheduled writes or     *)
(* server-side copies leaves in the files, and what its reads return, is    *)
(* what the requests would have done one after the other, whatever was sent *)
(* together, retried or split.  Path writes that are resumed in phases      *)
(* truncate the files of the rest of the vector before its first write.     *)
SequentialOutcome ==
    /\ part = "path_io" => PathIo!SequentialWrites /\ PathIo!ExactReads
    /\ part = "waves" => Desc!SequentialResult
    /\ part = "schedule" => Order!SequentialResult /\ Order!OffsetsReported /\ Order!InputOrder
    /\ part = "copies" => Desc!SequentialCopies

(* A descriptor cursor covers exactly the bytes its reads returned or its   *)
(* writes acknowledged, and a read of a whole file returns all of it.       *)
PositionsKept ==
    /\ part = "reads" => Desc!Contiguous /\ Desc!CursorsFollow /\ Desc!WholeFiles /\ Desc!RoundFits
    /\ part = "waves" => Desc!CursorCoversWritten

(* A merged compound that stops has executed exactly the items before the   *)
(* one it names.  The opens of a vector that ends with an outcome are in it,*)
(* but for the failed item's own; those of a vector that ends with a lost   *)
(* reply are closed or deferred; a path read or write that succeeds leaves  *)
(* none open but those whose CLOSE was refused or came too late.            *)
FailuresAttributed ==
    /\ part = "merged" => Merged!PrefixExecuted /\ Merged!FailureAttributed /\ Merged!OpensReported
    /\ part = "path_io" => PathIo!OpensReleased

(* Two writes that overlap, of which one was given before the other, are    *)
(* never in flight together: the frontier orders every conflicting pair,    *)
(* and a wave waits for all it depends on.                                  *)
ConflictsOrdered ==
    /\ part = "frontier" => Order!ConflictsOrdered /\ Order!EdgesConflict /\ Order!LatestWriter
    /\ part = "waves" => Desc!DependenciesComplete

(* An id the server handed out is owned by one descriptor or the queue of   *)
(* deferred closes, and closed once, as long as the server does not hand it *)
(* out again while the client still names it from before.                   *)
OwnedOnce ==
    /\ part = "smb_handles" => Smb!HeldBacked /\ Smb!ConfirmedGone /\ Smb!OwnedOnce /\ Smb!ShutdownCloses

(* Writes land once and as if sent one after the other, and cursors cover   *)
(* what was written.                                                        *)
SequentialWrites ==
    /\ part = "smb_io" => SmbIo!NeverReplayed /\ SmbIo!SequentialWrites /\ SmbIo!CursorCoversWritten /\ SmbIo!ReadsSurvive

(* Directory pages name each entry once with its own type, and name vectors *)
(* are applied in order up to the first error.                              *)
NamesTrue ==
    /\ part = "smb_directory" => SmbIo!PagedOnce /\ SmbIo!TypesTrue /\ SmbIo!ClosedOnce
    /\ part = "smb_names" => Smb!FirstError /\ Smb!OrderKept /\ Smb!TargetKept /\ Smb!RemovedGone /\ Smb!DoomedQueued

(* Every handle an OPEN vector got confirmed is cleaned when the vector     *)
(* fails (docs/BACKENDS.md): the merged OPENs leave no open behind that is  *)
(* neither closed nor deferred.                                             *)
ConfirmedCleaned == part = "merged" => Merged!ConfirmedCleaned

=============================================================================
