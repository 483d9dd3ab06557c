------------------------------ MODULE PyVectors -----------------------------
(* copy_many of the Python extension (vfsi-python lib.rs): small files are    *)
(* read into memory and written back as truncating vectors, larger ones are   *)
(* copied extent by extent; a pair whose ends are seen to be one file is      *)
(* refused before anything is written.                                        *)
EXTENDS Integers, Sequences, FiniteSets, FiniteSetsExt, SequencesExt

CONSTANTS Pairs,      \* 1..n
          Paths, Inodes,
          Names,      \* the initial namespaces: functions from paths to inodes, 0 for none
          Lengths,    \* the lengths of files, in extents; one extent is small
          MaxFaults

VARIABLES pair,       \* pair[i]: [src, dst] paths
          inode,      \* inode[p]: the inode p names, 0 if none
          content,    \* content[f]: a sequence of <<inode, extent>>, Torn where partial
          before,     \* content at the call
          at, data,   \* data[i]: what was read of a small source, or None
          large,      \* pairs to copy by extents
          suspects,   \* pairs whose identities must be compared
          todo,       \* the pairs of the next vector
          offset,     \* offset[i]: extents copied
          size,       \* size[i]: the length of a large source when it was measured
          copied, errors,   \* sets of pairs
          writes,     \* writes[i]: truncating WRITEs executed for the pair
          faults,
          identified, \* the server reports object identities
          assumed     \* pairs with an extent counted that was not copied

vars == <<pair, inode, content, before, at, data, large, suspects, todo, offset, size, copied, errors, writes, faults, identified, assumed>>

None == <<<<-1, 0>>>>
Torn == <<0, 0>>
Fault == faults < MaxFaults /\ faults' = faults + 1
New(p) == 100 + p
AllInodes == Inodes \union {New(p) : p \in Paths}
Src(i) == inode[pair[i].src]
Dst(i) == inode[pair[i].dst]
SameFile(i) == Src(i) # 0 /\ Src(i) = Dst(i)
SeenSame(i) == identified /\ SameFile(i)   \* without identities the check passes
Sorted(S) == SetToSortSeq(S, LAMBDA a, b : a < b)

Init ==
  /\ pair \in [Pairs -> [src : Paths, dst : Paths]]
  /\ inode \in Names
  /\ \E n \in [Inodes -> Lengths] : content = [f \in AllInodes |-> IF f \in Inodes THEN [k \in 1..n[f] |-> <<f, k>>] ELSE <<>>]
  /\ before = content
  /\ at = "read" /\ data = [i \in Pairs |-> None] /\ large = {} /\ suspects = {} /\ todo = <<>>
  /\ offset = [i \in Pairs |-> 0] /\ size = [i \in Pairs |-> 0] /\ copied = {} /\ errors = {}
  /\ writes = [i \in Pairs |-> 0] /\ faults = 0 /\ identified \in BOOLEAN /\ assumed = {}

Lost == Fault /\ at' = "transport" /\ UNCHANGED <<inode, content, data, large, suspects, todo, offset, size, copied, errors, writes, assumed>>

\* read_allv within the fast-path budget; sources over it go to extents.  Exact
\* path aliases are refused.
ReadSmall ==
  /\ at = "read"
  /\ \/ \E over \in SUBSET Pairs :
          LET missing == {i \in Pairs : Src(i) = 0}
              alias == {i \in Pairs : pair[i].src = pair[i].dst}
          IN /\ {i \in Pairs \ missing : Len(content[Src(i)]) > 1} \subseteq over /\ over \cap missing = {}
             /\ large' = over \ alias
             /\ data' = [i \in Pairs |-> IF i \in over \union missing \union alias THEN None ELSE content[Src(i)]]
             /\ errors' = missing \union alias
             /\ at' = "list" /\ UNCHANGED <<inode, content, suspects, todo, offset, size, copied, writes, faults, assumed>>
     \/ Lost
  /\ UNCHANGED <<pair, before, identified>>

Candidates == {i \in Pairs : data[i] # None}

\* Destinations that exist; one listing of the parents finds them.
Existing == {i \in Candidates : Dst(i) # 0}

\* With several candidates the parents are listed; if that fails or is cut off,
\* or there is one candidate, all are suspects.
ListParents ==
  /\ at = "list"
  /\ \/ Cardinality(Candidates) > 1 /\ suspects' = Existing
     \/ suspects' = Candidates
  /\ at' = "identity"
  /\ UNCHANGED <<pair, identified, assumed, inode, content, before, data, large, todo, offset, size, copied, errors, writes, faults>>

\* The identities of both ends are compared, if the server reports any.  A pair
\* whose attributes cannot be had is not written.
Identity ==
  /\ at = "identity"
  /\ \/ /\ \E unknown \in SUBSET suspects :
             /\ IF unknown = {} THEN UNCHANGED faults ELSE Fault
             /\ LET refused == unknown \union {i \in suspects : SeenSame(i)} IN
                /\ data' = [i \in Pairs |-> IF i \in refused THEN None ELSE data[i]]
                /\ errors' = errors \union refused
                /\ todo' = Sorted({i \in Candidates : i \notin refused})
        /\ at' = "write" /\ UNCHANGED <<inode, content, large, suspects, offset, size, copied, writes, assumed>>
     \/ Lost
  /\ UNCHANGED <<pair, before, identified>>

\* The truncating WRITE of pair i: all of its data, or less.
WriteOne(s, i, full) ==
  LET f == IF s.inode[pair[i].dst] = 0 THEN New(pair[i].dst) ELSE s.inode[pair[i].dst]
  IN [inode |-> [s.inode EXCEPT ![pair[i].dst] = f],
      content |-> [s.content EXCEPT ![f] = IF full \/ data[i] = <<>> THEN data[i] ELSE <<Torn>>]]
WriteAll(S, short) ==
  FoldLeft(LAMBDA s, i : WriteOne(s, i, i \notin short), [inode |-> inode, content |-> content], S)
Executed(S) == writes' = [i \in Pairs |-> IF i \in S THEN writes[i] + 1 ELSE writes[i]]


\* After an error the files written before it are read back.
Verified(s, i) == s.content[s.inode[pair[i].dst]] = data[i]

\* The rest of the vector, after the refused pair.
Rest(b) == SubSeq(todo, b + 1, Len(todo))

\* One write vector: it ends, stops at position b, or is lost.
WriteVector ==
  /\ at = "write" /\ todo # <<>>
  /\ \E short \in SUBSET {i \in ToSet(todo) : data[i] # <<>>} :
       \/ /\ LET s == WriteAll(todo, short) IN inode' = s.inode /\ content' = s.content
          /\ copied' = copied \union (ToSet(todo) \ short)
          /\ errors' = errors \union short
          /\ Executed(ToSet(todo)) /\ todo' = <<>>
          /\ UNCHANGED <<at, data, large, suspects, offset, size, faults, assumed>>
       \/ \E b \in DOMAIN todo :
            LET prefix == SubSeq(todo, 1, b - 1)
                w == WriteAll(prefix, short)
                s == IF todo[b] \in short THEN WriteOne(w, todo[b], FALSE) ELSE w
                good == {i \in ToSet(prefix) : Verified(s, i)}
            IN /\ Fault /\ inode' = s.inode /\ content' = s.content
               /\ copied' = copied \union good
               /\ errors' = errors \union (ToSet(prefix) \ good) \union {todo[b]}
               /\ Executed(ToSet(prefix)) /\ todo' = Rest(b)
               /\ UNCHANGED <<at, data, large, suspects, offset, size, assumed>>
       \/ Lost
  /\ UNCHANGED <<pair, before, identified>>

\* Sizes and identities of the large sources and their destinations.
Measure ==
  /\ at = "write" /\ todo = <<>>
  /\ \/ LET same == {i \in large : SeenSame(i)}
            gone == {i \in large : Src(i) = 0}
        IN /\ errors' = errors \union same \union gone
           /\ size' = [i \in Pairs |-> IF i \in large \ gone THEN Len(content[Src(i)]) ELSE 0]
           /\ todo' = Sorted(large \ (same \union gone))
           /\ at' = "extent" /\ UNCHANGED <<inode, content, data, large, suspects, offset, copied, writes, faults, assumed>>
     \/ Lost
  /\ UNCHANGED <<pair, before, identified>>

\* One extent of pair i, and the destination cut off behind it.
Extent(s, i) ==
  LET f == IF s.inode[pair[i].dst] = 0 THEN New(pair[i].dst) ELSE s.inode[pair[i].dst]
      c == s.content[s.inode[pair[i].src]]
      k == offset[i] + 1
      old == s.content[f]
  IN [inode |-> [s.inode EXCEPT ![pair[i].dst] = f],
      content |-> [s.content EXCEPT ![f] = [j \in 1..(IF size[i] >= k THEN k ELSE k - 1) |->
         IF j < k THEN IF j <= Len(old) THEN old[j] ELSE Torn ELSE IF k <= Len(c) THEN c[k] ELSE Torn]]]
\* Server-side COPY opens a batch before it copies.  When a later pair cannot be
\* opened, the destination may have been created, and nothing is copied yet.
Opened(s, i) == [s EXCEPT !.inode[pair[i].dst] = IF @ = 0 THEN New(pair[i].dst) ELSE @]

\* The extents of S are done.
Advance(S) ==
  /\ offset' = [i \in Pairs |-> IF i \in S THEN offset[i] + 1 ELSE offset[i]]
  /\ copied' = copied \union {i \in S : offset[i] + 1 >= size[i]}

\* One vcopy vector of the next extents.  After an error at position b the
\* pairs before b count as done.
ExtentVector ==
  /\ at = "extent" /\ todo # <<>>
  /\ \/ LET s == FoldLeft(Extent, [inode |-> inode, content |-> content], todo) IN
        /\ inode' = s.inode /\ content' = s.content /\ Advance(ToSet(todo))
        /\ todo' = SelectSeq(todo, LAMBDA i : offset[i] + 1 < size[i])
        /\ UNCHANGED <<at, data, large, suspects, size, errors, writes, faults, assumed>>
     \/ \E b \in DOMAIN todo, all \in BOOLEAN :
          LET prefix == SubSeq(todo, 1, b - 1)
              s == FoldLeft(LAMBDA t, i : IF all THEN Extent(t, i) ELSE Opened(t, i), [inode |-> inode, content |-> content], prefix)
          IN /\ Fault
             /\ assumed' = IF all THEN assumed ELSE assumed \union ToSet(prefix)
             /\ inode' = s.inode /\ content' = s.content /\ Advance(ToSet(prefix))
             /\ errors' = errors \union {todo[b]}
             /\ todo' = SelectSeq(prefix, LAMBDA i : offset[i] + 1 < size[i]) \o Rest(b)
             /\ UNCHANGED <<at, data, large, suspects, size, writes>>
     \/ Lost
  /\ UNCHANGED <<pair, before, identified>>

Done ==
  /\ at = "extent" /\ todo = <<>> /\ at' = "done"
  /\ UNCHANGED <<pair, identified, assumed, inode, content, before, data, large, suspects, todo, offset, size, copied, errors, writes, faults>>

Next == ReadSmall \/ ListParents \/ Identity \/ WriteVector \/ Measure \/ ExtentVector \/ Done

Spec == Init /\ [][Next]_vars
-----------------------------------------------------------------------------
Alone(i) == \A j \in Pairs \ {i} : {Src(i), Dst(i)} \cap {Src(j), Dst(j)} \subseteq {0}

\* A pair whose two ends are one file, by path, hard link or symbolic link, is
\* refused before the file is touched, where the server reports identities;
\* where it does not, only a pair of equal paths is (lib.rs:2155).
SourceKept ==
  \A i \in Pairs : (SameFile(i) /\ (identified \/ pair[i].src = pair[i].dst)
                   /\ \A j \in Pairs \ {i} : Dst(j) # Src(i)) => content[Src(i)] = before[Src(i)]

\* A pair reported as copied has, at its destination, the whole of its source
\* (unless another pair shares one of its files, or both its ends are one file
\* and nothing tells).  The exception: after a refused vcopy the extents before
\* the refused one count as copied (lib.rs:2353), and a backend that opens the
\* batch first has not copied them.
CopiedTrue ==
  \A i \in copied \ assumed : (at = "done" /\ Alone(i) /\ ~SameFile(i)) => content[Dst(i)] = before[Src(i)]

\* When the call returns each pair was copied or has an error, not both.
EachAnswered == at = "done" => copied \union errors = Pairs /\ copied \cap errors = {}

\* No truncating write that was executed is sent again.
WrittenOnce == \A i \in Pairs : writes[i] <= 1

-----------------------------------------------------------------------------
(* Per-item results from fail-fast vectors, as the Python extension makes     *)
(* them (vfsi-python lib.rs, attrs_many_impl, read_allv_impl, read_many): the *)
(* item an error names is dropped and the rest of the vector issued again;    *)
(* ranges that come back short are completed in further vectors.              *)

CONSTANTS Items,      \* 1..n
          Sizes, Starts,
          Ends,       \* None or an exclusive end
          RetryNone, MaxChanges, RetryMaxFaults

VARIABLES range,      \* range[i]: [start, end]
          retrySize,       \* size[i]: the file's size now
          broken,     \* the items the server refuses now
          retryAt,         \* "attrs", "read", "done", "raised" (a semantic error without a
                           \* usable index) or "transport"
          length,     \* length[i]: the bytes asked for
          remaining,  \* the items of the next vector, in order
          retryData,       \* data[i]: None, or the bytes read: a sequence of <<item, offset>>
          retryErrors,     \* errors[i]: None, or the item whose failure the error reports
          counts      \* [change, fault]

retryVars == <<range, retrySize, broken, retryAt, length, remaining, retryData, retryErrors, counts>>

Order == [i \in 1..Cardinality(Items) |-> i]
Monus(a, b) == IF a > b THEN a - b ELSE 0
Least(a, b) == IF a < b THEN a ELSE b
RetryFault == counts.fault < RetryMaxFaults /\ counts' = [counts EXCEPT !.fault = @ + 1]
Progress(i) == IF retryData[i] = RetryNone THEN 0 ELSE Len(retryData[i])

RetryInit ==
  /\ range \in [Items -> [start : Starts, end : Ends]]
  /\ retrySize \in [Items -> Sizes] /\ broken \in SUBSET Items
  /\ LET sized == \E i \in Items : range[i].end = RetryNone IN
     /\ retryAt = IF sized THEN "attrs" ELSE "read"
     /\ length = [i \in Items |-> IF sized THEN 0 ELSE Monus(range[i].end, range[i].start)]
  /\ remaining = Order
  /\ retryData = [i \in Items |-> RetryNone] /\ retryErrors = [i \in Items |-> RetryNone]
  /\ counts = [change |-> 0, fault |-> 0]

\* The item at position b of the vector.
Original(b) == remaining[b]

\* A failed item returns nothing.
Dropped(i) == RetryNone

\* The next vector leaves it out.
WithoutItem(b) == RemoveAt(remaining, b)

\* The vector fails: at an item the server refuses, without a usable index, or
\* with the connection.
Refused ==
  /\ retryAt \in {"attrs", "read"} /\ remaining # <<>>
  /\ \E b \in DOMAIN remaining :
       /\ remaining[b] \in broken
       /\ retryErrors' = [retryErrors EXCEPT ![Original(b)] = remaining[b]]
       /\ retryData' = [retryData EXCEPT ![Original(b)] = Dropped(Original(b))]
       /\ remaining' = WithoutItem(b)
  /\ UNCHANGED <<range, retrySize, broken, retryAt, length, counts>>
Unattributed ==
  /\ retryAt \in {"attrs", "read"} /\ remaining # <<>> /\ RetryFault
  /\ retryAt' \in {"raised", "transport"}
  /\ UNCHANGED <<range, retrySize, broken, length, remaining, retryData, retryErrors>>

\* attrs_many_impl succeeds for what remains: open ends become lengths.
Attrs ==
  /\ retryAt = "attrs" /\ \A i \in Range(remaining) : i \notin broken
  /\ length' = [i \in Items |-> IF retryErrors[i] = RetryNone
                                THEN Monus(IF range[i].end = RetryNone THEN retrySize[i] ELSE range[i].end, range[i].start) ELSE 0]
  /\ retryAt' = "read"
  /\ UNCHANGED <<range, retrySize, broken, remaining, retryData, retryErrors, counts>>

\* Where the next read of an item starts.
ReadOffset(i) == range[i].start + Progress(i)

\* The range is incomplete and the file has more.
More(i, n, eof) == Progress(i) + n < length[i] /\ ~eof

Bytes(i, n) == [k \in 1..n |-> <<i, ReadOffset(i) + k - 1>>]
\* The replies a vector may give: any part of each range that is in the file.
Replies ==
  {r \in [Range(remaining) -> 0..2] : \A i \in Range(remaining) :
     LET left == Least(length[i] - Progress(i), Monus(retrySize[i], ReadOffset(i))) IN r[i] <= left}

\* vread_impl succeeds.
Read ==
  /\ retryAt = "read" /\ remaining # <<>> /\ \A i \in Range(remaining) : i \notin broken
  /\ \E r \in Replies :
       LET eof(i) == ReadOffset(i) + r[i] >= retrySize[i]
           stuck(i) == r[i] = 0 /\ More(i, 0, eof(i))
       IN /\ retryData' = [i \in Items |-> IF i \notin Range(remaining) THEN retryData[i]
                                           ELSE IF stuck(i) THEN RetryNone
                                           ELSE (IF retryData[i] = RetryNone THEN <<>> ELSE retryData[i]) \o Bytes(i, r[i])]
          /\ retryErrors' = [i \in Items |-> IF i \in Range(remaining) /\ stuck(i) THEN i ELSE retryErrors[i]]
          /\ remaining' = SelectSeq(remaining, LAMBDA i : More(i, r[i], eof(i)) /\ ~stuck(i))
  /\ UNCHANGED <<range, retrySize, broken, retryAt, length, counts>>

RetryDone ==
  /\ retryAt = "read" /\ remaining = <<>> /\ retryAt' = "done"
  /\ UNCHANGED <<range, retrySize, broken, length, remaining, retryData, retryErrors, counts>>

\* Files change size, become unreadable or readable between vectors.
Change(i, n, bad) ==
  /\ counts.change < MaxChanges /\ retryAt \in {"attrs", "read"}
  /\ counts' = [counts EXCEPT !.change = @ + 1]
  /\ retrySize' = [retrySize EXCEPT ![i] = n]
  /\ broken' = IF bad THEN broken \union {i} ELSE broken \ {i}
  /\ UNCHANGED <<range, retryAt, length, remaining, retryData, retryErrors>>

RetryNext ==
  \/ Refused \/ Unattributed \/ Attrs \/ Read \/ RetryDone
  \/ \E i \in Items, n \in Sizes, bad \in BOOLEAN : Change(i, n, bad)

RetrySpec == RetryInit /\ [][RetryNext]_retryVars
-----------------------------------------------------------------------------
\* When a call returns every item has its bytes or its own error, never both,
\* and never the error of another item: positions of shrunken vectors are
\* mapped back.
OneOutcome == retryAt = "done" => \A i \in Items : (retryData[i] = RetryNone) = (retryErrors[i] # RetryNone)
OwnError == \A i \in Items : retryErrors[i] \in {RetryNone, i}

\* The bytes of an item are those of its own file, contiguous from the start of
\* the range, however many vectors they took.
OwnBytes == \A i \in Items : retryData[i] # RetryNone => \A k \in DOMAIN retryData[i] : retryData[i][k] = <<i, range[i].start + k - 1>>

\* A range comes back short only at the end of a file: if no file changed, an
\* item's bytes reach its end or the file's.
CompleteRange ==
  (retryAt = "done" /\ counts.change = 0) =>
    \A i \in Items : retryData[i] # RetryNone => Len(retryData[i]) = Least(length[i], Monus(retrySize[i], range[i].start))

-----------------------------------------------------------------------------
(* aggregate_listdirs of the Python extension (vfsi-python lib.rs): several  *)
(* directories are listed by one interleaved vector under one shared budget, *)
(* and the caller is told of the first directory, in its own order, that     *)
(* cannot be listed or does not fit.                                         *)

CONSTANTS Dirs,
          Requests,    \* sequences of directories, possibly repeated
          ListSizes,       \* entries in a directory; -1 if it is missing
          MaxEntries, ListMaxChanges

VARIABLES paths, listSize,
          got,         \* got[d]: entries received from d
          whole,       \* the directories whose listing ended
          used,        \* the entries charged
          listAt,
          next,        \* the next path to validate
          listTodo,        \* paths to validate before `failure` is reported
          failure,     \* <<kind, index>>
          result,
          changes

listVars == <<paths, listSize, got, whole, used, listAt, next, listTodo, failure, result, changes>>

Unique == ToSet(paths)
First(d) == Min({i \in DOMAIN paths : paths[i] = d})
Fits(n) == n <= MaxEntries

ListInit ==
  /\ paths \in Requests /\ listSize \in [Dirs -> ListSizes]
  /\ got = [d \in Dirs |-> 0] /\ whole = {} /\ used = 0 /\ listAt = "list"
  /\ next = 1 /\ listTodo = 0 /\ failure = <<"none", 0>> /\ result = <<"none", 0>> /\ changes = 0

Return(r) == listAt' = "end" /\ result' = r

\* The failure is reported once the first n paths are found to be in order,
\* which are listed again under a budget of their own.
Validate(kind, i, n) ==
  /\ listAt' = "validate" /\ failure' = <<kind, i>> /\ listTodo' = n /\ next' = 1 /\ used' = 0
  /\ UNCHANGED result

\* One entry of one directory, in any order between directories.
Entry(d) ==
  /\ listAt = "list" /\ d \in Unique \ whole /\ got[d] < listSize[d]
  /\ IF Fits(used + 1)
     THEN /\ got' = [got EXCEPT ![d] = @ + 1] /\ used' = used + 1
          /\ UNCHANGED <<listAt, next, listTodo, failure, result>>
     ELSE Validate("efbig", First(d), Len(paths)) /\ UNCHANGED got
  /\ UNCHANGED <<paths, listSize, whole, changes>>

DirEnd(d) ==
  /\ listAt = "list" /\ d \in Unique \ whole /\ listSize[d] >= 0 /\ got[d] >= listSize[d]
  /\ whole' = whole \union {d}
  /\ UNCHANGED <<paths, listSize, got, used, listAt, next, listTodo, failure, result, changes>>

\* A missing directory.  A transport error is returned as it is.
ListRefused(d) ==
  /\ listAt = "list" /\ d \in Unique \ whole /\ listSize[d] = -1
  /\ Validate("error", First(d), First(d) - 1)
  /\ UNCHANGED <<paths, listSize, got, whole, changes>>
Transport ==
  /\ listAt \in {"list", "validate"} /\ Return(<<"transport", 0>>)
  /\ UNCHANGED <<paths, listSize, got, whole, used, next, listTodo, failure, changes>>

\* Everything validated was in order: the first failure stands.
StillFails == Return(failure)

\* validate_aggregate_listdir_prefix, one path after another.
ValidateNext ==
  /\ listAt = "validate"
  /\ IF next > listTodo THEN StillFails /\ UNCHANGED <<next, used>>
     ELSE LET n == listSize[paths[next]] IN
          IF n = -1 THEN Return(<<"error", next>>) /\ UNCHANGED <<next, used>>
          ELSE IF ~Fits(used + n) THEN Return(<<"efbig", next>>) /\ UNCHANGED <<next, used>>
          ELSE used' = used + n /\ next' = next + 1 /\ UNCHANGED <<listAt, result>>
  /\ UNCHANGED <<paths, listSize, got, whole, listTodo, failure, changes>>

\* The entries of the first i groups, repeated directories each time.
Total(i) == MapThenSumSet(LAMBDA j : got[paths[j]], 1..i)

\* What the groups up to i are charged.
Charge(i) == Total(i)

\* All listings ended: they are charged again in the order of the request.
Groups ==
  /\ listAt = "list" /\ whole = Unique
  /\ LET over == {i \in DOMAIN paths : ~Fits(Charge(i))} IN
     IF over = {} THEN Return(<<"ok", 0>>) ELSE Return(<<"efbig", Min(over)>>)
  /\ UNCHANGED <<paths, listSize, got, whole, used, next, listTodo, failure, changes>>

\* The directories change meanwhile.
ListChange(d) ==
  /\ listAt # "end" /\ changes < ListMaxChanges /\ changes' = changes + 1
  /\ \E n \in ListSizes \ {listSize[d]} : listSize' = [listSize EXCEPT ![d] = n]
  /\ UNCHANGED <<paths, got, whole, used, listAt, next, listTodo, failure, result>>

ListNext ==
  \/ \E d \in Dirs : Entry(d) \/ DirEnd(d) \/ ListRefused(d) \/ ListChange(d)
  \/ Transport \/ ValidateNext \/ Groups

ListSpec == ListInit /\ [][ListNext]_listVars
-----------------------------------------------------------------------------
\* The reference: the paths one after another under one budget.
InOrder(i) == MapThenSumSet(LAMBDA j : listSize[paths[j]], 1..i)
Reference ==
  LET bad == {i \in DOMAIN paths : listSize[paths[i]] = -1}
      firstBad == IF bad = {} THEN Len(paths) + 1 ELSE Min(bad)
      over == {i \in 1..(firstBad - 1) : ~Fits(InOrder(i))}
  IN IF over # {} THEN <<"efbig", Min(over)>>
     ELSE IF bad # {} THEN <<"error", firstBad>> ELSE <<"ok", 0>>

\* If the directories do not change, the interleaved listing fails for the path,
\* and in the way, that listing them one by one would have failed first.
FirstFailure == (listAt = "end" /\ changes = 0 /\ result[1] # "transport") => result = Reference

\* Groups are returned only of listings that ended, never of a vector that was
\* interrupted.
InterruptedNeverUsed == result[1] = "ok" => whole = Unique

\* What is returned, repeated directories included, keeps to the budget even if
\* directories grow meanwhile.
BudgetHeld == result[1] = "ok" => Fits(Total(Len(paths)))
=============================================================================
