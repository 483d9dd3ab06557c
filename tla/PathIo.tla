------------------------------- MODULE PathIo -------------------------------
(***************************************************************************)
(* Reads and writes that name files by path, over NFS: readv_path_compound *)
(* and writev_path_compound of crates/vfsi-nfs/src/client.rs, the three    *)
(* forms of crates/vfsi-nfs/src/nfs/io.rs that use them (one compound with *)
(* CLOSE, one with a later CLOSE, phased), and open_path_batch and         *)
(* close_tmp of nfs/open.rs.                                               *)
(*                                                                         *)
(* An item is [name, off, len, create, trunc, fd]: fd items address an     *)
(* object the caller has open.  All paths lie in one directory.  A server  *)
(* (external) holds contents, names and, per object, the sequence number   *)
(* of the path owner's open (0: not open); it may refuse the special       *)
(* stateid in CLOSE or in READ and WRITE.  A CLOSE, READ or WRITE with an  *)
(* older sequence number is refused.  The opens of repairs have an owner   *)
(* of their own and are left out.  Stability flags are left out.           *)
(***************************************************************************)
EXTENDS AdaptiveSizer, CfhCursor, FileBytes

CONSTANTS
  Names,       \* name -> object that exists
  Content,     \* initial contents of the objects
  Vectors,     \* calls: [kind, items]
  Servers,     \* servers: [close, io, ops], two Booleans and the operations confirmed
  PerOp,       \* bytes per READ or WRITE
  Room,        \* READs or WRITEs a compound has bytes for
  Reserve,     \* 8 in the code
  MaxFaults    \* bound: failures and short transfers

VARIABLES
  kind, items, special,    \* the call and the server's behaviour
  mode,                    \* merged_mode
  form, base,              \* form in use; first item of the phased suffix
  pc, sizer, budget, maxItems,
  global, part, start,     \* next item, bytes of it already sent, [item, part] of the chunk
  cursor, at,              \* CfhCursor; opened_path while the handle is at it, "" if not
  touched,                 \* active_files: item -> range
  ops, ranges, got,        \* compound, ExecutionMap and results
  status,                  \* status of the reply
  idx,                     \* operation of the reply to apply
  failed, closeFailed,
  counts, data, eofs,      \* results per item
  opened,                  \* opens reported by the compounds: <<object, seq>>
  result,                  \* "none", "ok" or "error"
  names, file, opens,      \* server
  cur, saved, faults

call == <<kind, items, special>>
build == <<budget, maxItems, global, part, start, cursor, at, touched, ops, ranges>>
output == <<counts, data, eofs>>
server == <<names, file, opens, cur, saved>>
vars == <<call, mode, form, base, pc, sizer, build, got, status, idx, failed, closeFailed,
          output, opened, result, server, faults>>

n == Len(items)
PerFile == 4
InCompound == form = "full"          \* close_in_compound
Smaller(a, b) == IF a < b THEN a ELSE b

OpBudget(s) == Max({AtMost(s.current, special.ops), AtMost(1 + PerFile, special.ops)})
MergedLimit(s) ==
  IF OpBudget(s) < 1 + PerFile THEN 0
  ELSE AtMost(Max({OpBudget(s) - Reserve, 1 + PerFile}), OpBudget(s))

Objects == DOMAIN Content
ObjectOf(it) == IF it.fd \/ it.name \notin DOMAIN names THEN it.name ELSE names[it.name]

EmptyResults == /\ counts = [i \in 1..n |-> 0] /\ data = [i \in 1..n |-> <<>>]
                /\ eofs = [i \in 1..n |-> FALSE]

Init ==
  /\ \E v \in Vectors : kind = v.kind /\ items = v.items
  /\ special \in Servers
  /\ mode = "full" /\ form = "full" /\ base = 0 /\ pc = "build"
  /\ sizer = [NewSizer EXCEPT !.current = AtMost(@, special.ops), !.ceiling = special.ops]
  /\ budget = MergedLimit(sizer) /\ maxItems = 0 /\ global = 1 /\ part = 0 /\ start = <<1, 0>>
  /\ cursor = Fresh /\ at = "" /\ touched = <<>> /\ ops = <<>> /\ ranges = <<>> /\ got = <<>>
  /\ status = "OK" /\ idx = 0 /\ failed = 0 /\ closeFailed = FALSE
  /\ EmptyResults /\ opened = <<>> /\ result = "none"
  /\ names = Names /\ file = Content /\ opens = [o \in Objects |-> 0]
  /\ cur = "" /\ saved = "" /\ faults = MaxFaults

-----------------------------------------------------------------------------
(* Building a compound.                                                    *)

Chunk(g, p, cap, s) ==
  /\ global' = g /\ part' = p /\ start' = <<g, p>> /\ maxItems' = cap /\ budget' = MergedLimit(s)
  /\ cursor' = Fresh /\ at' = "" /\ touched' = <<>> /\ ops' = <<>> /\ ranges' = <<>>

Key(it) == <<it.fd, it.name>>
Overlap(a, b) == a.off < b.off + b.len /\ b.off < a.off + a.len

\* WriteWaveAccess: items of one compound on one file neither truncate it nor overlap.
Admitted(it) ==
  kind = "read" \/ \A k \in DOMAIN touched :
    Key(items[touched[k]]) = Key(it) => ~items[touched[k]].trunc /\ ~it.trunc /\ ~Overlap(items[touched[k]], it)

Transfers == Cardinality({k \in DOMAIN ops : ops[k].op \in {"read", "write"}})

\* path_io_chunk_end: READs or WRITEs of the next item to add.
Take(it) ==
  LET left   == it.len - part
      chunks == Max({1, (left + PerOp - 1) \div PerOp})
  IN  Max({0, Min({chunks, budget - (Len(ops) + 1 + 3), Room - Transfers})})

ItemFits ==
  /\ global <= n
  /\ maxItems = 0 \/ Len(ranges) < maxItems
  /\ Len(ops) + 1 + PerFile <= budget
  /\ part = 0 \/ ranges = <<>>
  /\ Admitted(items[global]) /\ Take(items[global]) > 0

CloseOp == Op("close")

\* prepare_path_io_target: the operations that make the item's file current.
Target(it) ==
  LET close == IF InCompound /\ at # "" THEN <<CloseOp>> ELSE <<>>
      parent == SetParent(cursor, <<"d">>)
  IN  IF it.fd THEN close \o <<OpOn("putfh", it.name)>>
      ELSE IF at = it.name THEN <<>>
      ELSE close \o parent
             \o <<[op |-> "open", name |-> it.name, to |-> "", create |-> it.create,
                   trunc |-> it.create /\ it.trunc /\ part = 0]>>
             \o (IF InCompound THEN <<>> ELSE <<Op("getfh")>>)
             \o (IF it.trunc /\ ~it.create /\ part = 0 THEN <<Op("truncate")>> ELSE <<>>)

CursorAfter(it) ==
  IF it.fd THEN Descended(cursor) ELSE IF at = it.name THEN cursor ELSE Descended(ParentSet(<<"d">>))

\* The item's READs or WRITEs: k of PerOp bytes, the last one shorter.
Pieces(i, k) ==
  [j \in 1..k |-> [op |-> kind, name |-> "", to |-> "", item |-> i, from |-> part + (j - 1) * PerOp,
                   len |-> Smaller(PerOp, items[i].len - part - (j - 1) * PerOp)]]

AddItem ==
  /\ pc = "build" /\ ItemFits
  /\ LET it == items[global]
         k  == Take(it)
         end == Smaller(part + k * PerOp, it.len)
     IN  /\ ops' = ops \o Target(it) \o Pieces(global, k)
         /\ ranges' = Append(ranges, [caller |-> global, start |-> Len(ops) + 1, end |-> Len(ops') + 1])
         /\ cursor' = CursorAfter(it) /\ at' = IF it.fd THEN "" ELSE it.name
         /\ touched' = Append(touched, global)
         /\ IF end = it.len THEN global' = global + 1 /\ part' = 0
                            ELSE part' = end /\ UNCHANGED global
  /\ UNCHANGED <<call, mode, form, base, pc, sizer, budget, maxItems, start, got, status, idx, failed,
                 closeFailed, output, opened, result, server, faults>>

Finish(how) == pc' = "returned" /\ result' = how

\* A lost reply is an error; without one, reads are repeated in phases.
GiveUp(lost) ==
  IF kind = "read" /\ ~lost
  THEN pc' = "phased" /\ base' = 1 /\ UNCHANGED result
  ELSE Finish("error") /\ UNCHANGED base

Latest(list) ==
  {list[k] : k \in {j \in DOMAIN list : \A h \in (j + 1)..Len(list) : list[h][1] # list[j][1]}}
ClosePathOpens ==
  opens' = [o \in DOMAIN opens |-> IF <<o, opens[o]>> \in Latest(opened) THEN 0 ELSE opens[o]]

\* The compound is complete: refuse, repack or send it.
Full == IF InCompound /\ at # "" THEN Append(ops, CloseOp) ELSE ops
Repack == Len(ranges) > 1 /\ Len(Full) + 1 > OpBudget(sizer)
EndChunk ==
  /\ pc = "build" /\ ~ItemFits
  /\ \/ /\ ranges = <<>>
        /\ failed' = start[1] /\ pc' = "outcome" /\ UNCHANGED <<build, result, base>>
     \/ /\ ranges # <<>> /\ Repack
        /\ Chunk(start[1], start[2], Len(ranges) - 1, sizer) /\ UNCHANGED <<failed, pc, result, base>>
     \/ /\ ranges # <<>> /\ ~Repack /\ Len(Full) + 1 > special.ops     \* CompoundBudget::ensure
        /\ GiveUp(FALSE) /\ UNCHANGED <<failed, build>>
     \/ /\ ranges # <<>> /\ ~Repack /\ Len(Full) + 1 <= special.ops
        /\ ops' = Full /\ pc' = "run"
        /\ UNCHANGED <<base, failed, result, budget, maxItems, global, part, start, cursor, at, touched, ranges>>
  /\ got' = <<>> /\ cur' = "" /\ saved' = ""
  /\ UNCHANGED <<call, mode, form, sizer, status, idx, closeFailed, output, opened, names, file, opens, faults>>

-----------------------------------------------------------------------------
(* The server.                                                             *)

With(f, x, v) == [y \in DOMAIN f \cup {x} |-> IF y = x THEN v ELSE f[y]]

Yields(r) == got' = Append(got, r)
Fault == faults > 0 /\ faults' = faults - 1

Refused(o) == \/ o.op = "close" /\ ~special.close
              \/ o.op \in {"read", "write"} /\ ~special.io /\ ~items[o.item].fd
              \/ o.op = "truncate" /\ ~special.io
              \/ o.op = "open" /\ o.name \notin DOMAIN names /\ ~o.create

ServerExecutes ==
  /\ pc = "run" /\ Len(got) < Len(ops)
  /\ LET o == ops[Len(got) + 1] IN
     /\ ~Refused(o)
     /\ \/ /\ o.op \in {"putrootfh", "lookup", "getfh", "savefh", "restorefh", "putfh"} /\ Yields(<<>>)
           /\ cur' = CASE o.op = "putfh" -> o.name [] o.op = "restorefh" -> saved
                       [] o.op \in {"putrootfh", "lookup"} -> "dir" [] OTHER -> cur
           /\ saved' = IF o.op = "savefh" THEN cur ELSE saved
           /\ UNCHANGED <<names, file, opens, faults>>
        \/ /\ o.op = "open" /\ cur = "dir"
           /\ LET x == IF o.name \in DOMAIN names THEN names[o.name] ELSE o.name IN
              /\ names' = With(names, o.name, x) /\ cur' = x
              /\ file' = IF o.trunc \/ x \notin DOMAIN file THEN With(file, x, <<>>) ELSE file
              /\ opens' = With(opens, x, IF x \in DOMAIN opens THEN opens[x] + 1 ELSE 1)
              /\ Yields(<<x, opens'[x]>>)
           /\ UNCHANGED <<saved, faults>>
        \/ /\ o.op = "truncate" /\ file' = [file EXCEPT ![cur] = <<>>] /\ Yields(<<>>)
           /\ UNCHANGED <<names, opens, cur, saved, faults>>
        \/ /\ o.op = "close" /\ opens' = [opens EXCEPT ![cur] = 0] /\ Yields(<<>>)
           /\ UNCHANGED <<names, file, cur, saved, faults>>
        \/ /\ o.op = "write"
           /\ \E k \in 0..o.len :
                /\ IF k < o.len THEN Fault ELSE UNCHANGED faults
                /\ file' = [file EXCEPT ![cur] = Put(@, items[o.item].off + o.from, o.item, o.from, k)]
                /\ Yields(<<k>>)
           /\ UNCHANGED <<names, opens, cur, saved>>
        \/ /\ o.op = "read"
           /\ LET all == Slice(file[cur], items[o.item].off + o.from, o.len) IN
              \E k \in 0..Len(all) :
                /\ IF k < Len(all) THEN Fault ELSE UNCHANGED faults
                /\ Yields(<<SubSeq(all, 1, k),
                            k = Len(all) /\ items[o.item].off + o.from + o.len >= Len(file[cur])>>)
           /\ UNCHANGED <<names, file, opens, cur, saved>>
  /\ UNCHANGED <<call, mode, form, base, pc, sizer, build, status, idx, failed, closeFailed, output, opened, result>>

Answer(st) ==
  /\ status' = st /\ pc' = "reply"
  /\ UNCHANGED <<call, mode, form, base, sizer, build, got, idx, failed, closeFailed, output, opened, result, server>>

ServerAnswers ==
  /\ pc = "run" /\ UNCHANGED faults
  /\ \/ Len(got) = Len(ops) /\ Answer("OK")
     \/ /\ Len(got) < Len(ops) /\ Refused(ops[Len(got) + 1])
        /\ Answer(IF ops[Len(got) + 1].op = "open" THEN "OTHER" ELSE "STATEID")

\* The server is out of resources and refuses the whole compound.
ServerBusy == pc = "run" /\ got = <<>> /\ UNCHANGED faults /\ Answer("BUSY")

\* An operation fails, the compound is refused, or the connection breaks.
ServerFails ==
  /\ pc = "run" /\ Fault
  /\ \/ Len(got) < Len(ops) /\ \E st \in {"OTHER", "RESOURCE"} : Answer(st)
     \/ got = <<>> /\ Answer("REFUSED")
     \/ Answer("LOST")

-----------------------------------------------------------------------------
(* The reply.                                                              *)

Observed == CASE status = "OK" -> Succeeded(sizer, Len(ops) + 1)
              [] status \in {"RESOURCE", "BUSY"} -> ResourceRejected(sizer, Len(ops) + 1)
              [] OTHER -> sizer

Bad == Len(got) + 1
FailedRange == {r \in DOMAIN ranges : ranges[r].start <= Bad /\ Bad < ranges[r].end}

Retry == status \in {"RESOURCE", "BUSY"} /\ got = <<>> /\ MergedLimit(Observed) < budget
ReplyRetried ==
  /\ pc = "reply" /\ Retry
  /\ sizer' = Observed /\ Chunk(start[1], start[2], 0, Observed) /\ pc' = "build" /\ got' = <<>>
  /\ UNCHANGED <<call, mode, form, base, status, idx, failed, closeFailed, output, opened, result, server, faults>>

ReplyUseless ==
  /\ pc = "reply" /\ status \in {"LOST", "REFUSED", "BUSY"} /\ ~Retry
  /\ GiveUp(status = "LOST") /\ sizer' = Observed
  /\ UNCHANGED <<call, mode, form, build, got, status, idx, failed, closeFailed, output, opened, server, faults>>

\* Opens in the executed part of the compound.
OpensSeen == SelectSeq([k \in DOMAIN got |-> IF ops[k].op = "open" THEN got[k] ELSE <<>>],
                       LAMBDA x : x # <<>>)

ReplyAnalysed ==
  /\ pc = "reply" /\ status \notin {"LOST", "REFUSED", "BUSY"} /\ ~Retry
  /\ sizer' = Observed
  /\ failed' = IF status # "OK" /\ FailedRange # {}
               THEN ranges[CHOOSE r \in FailedRange : TRUE].caller ELSE failed
  /\ opened' = IF InCompound THEN opened ELSE opened \o OpensSeen
  /\ pc' = "apply" /\ idx' = 1
  /\ UNCHANGED <<call, mode, form, base, build, got, status, closeFailed, output, result, server, faults>>

-----------------------------------------------------------------------------
(* Results of the completed ranges, operation by operation.                *)

Completed == {k \in DOMAIN got : \E r \in DOMAIN ranges :
                ranges[r].start <= k /\ k < ranges[r].end /\ r \notin FailedRange}
\* Items whose range ran completely or in part.
Ran == {ranges[r].caller : r \in {q \in DOMAIN ranges : ranges[q].start <= Len(got) + 1}}

Applying == pc = "apply" /\ idx <= Len(got)
Done(k) == idx' = k + 1

SkipOp ==
  /\ Applying /\ (ops[idx].op \notin {"read", "write"} \/ idx \notin Completed)
  /\ Done(idx) /\ UNCHANGED <<output, file, pc, result, opens, base, faults>>

\* repair_path_write: a later item already wrote into the gap, through another name.
Alias(i, from, len) ==
  \E j \in Ran : /\ j > i /\ ObjectOf(items[j]) = ObjectOf(items[i])
                 /\ items[j].trunc \/ Overlap(items[j], [off |-> items[i].off + from, len |-> len])

\* The call fails: with a later CLOSE, what was opened is closed first.
ApplyFails(lost) ==
  /\ GiveUp(lost)
  /\ IF InCompound THEN UNCHANGED opens ELSE ClosePathOpens

ApplyWrite ==
  /\ Applying /\ ops[idx].op = "write" /\ idx \in Completed
  /\ LET o == ops[idx]
         k == got[idx][1]
         rest == o.len - k
     IN  IF (k = 0 /\ o.len > 0) \/ (k < o.len /\ Alias(o.item, o.from + k, rest))
         THEN ApplyFails(FALSE) /\ UNCHANGED <<output, file, faults, idx>>
         ELSE /\ counts' = [counts EXCEPT ![o.item] = @ + o.len]
              /\ file' = IF rest = 0 THEN file
                         ELSE [file EXCEPT ![ObjectOf(items[o.item])] =
                                 Put(@, items[o.item].off + o.from + k, o.item, o.from + k, rest)]
              /\ Done(idx) /\ UNCHANGED <<data, eofs, pc, result, opens, base, faults>>

ApplyRead ==
  /\ Applying /\ ops[idx].op = "read" /\ idx \in Completed
  /\ LET o == ops[idx]
         bytes == got[idx][1]
         eof == got[idx][2]
         i == o.item
         more == SubSeq(Slice(file[ObjectOf(items[i])], items[i].off + o.from, o.len), Len(bytes) + 1, o.len)
     IN  IF eofs[i] THEN Done(idx) /\ UNCHANGED <<output, pc, result, opens, base>>
         ELSE IF bytes = <<>> /\ o.len > 0 /\ ~eof
         THEN ApplyFails(FALSE) /\ UNCHANGED <<output, idx>>
         ELSE LET short == Len(bytes) < o.len /\ ~eof IN
              /\ data' = [data EXCEPT ![i] = @ \o bytes \o (IF short THEN more ELSE <<>>)]
              /\ eofs' = [eofs EXCEPT ![i] = IF short
                            THEN items[i].off + o.from + o.len >= Len(file[ObjectOf(items[i])]) ELSE eof]
              /\ Done(idx) /\ UNCHANGED <<counts, pc, result, opens, base>>
  /\ UNCHANGED <<file, faults>>

\* A repair of a short transfer fails.
RepairFails ==
  /\ Applying /\ idx \in Completed /\ ops[idx].op \in {"read", "write"} /\ Fault
  /\ IF kind = "write" THEN got[idx][1] < ops[idx].len
     ELSE Len(got[idx][1]) < ops[idx].len /\ ~got[idx][2] /\ ~eofs[ops[idx].item]
  /\ \E lost \in BOOLEAN : ApplyFails(lost)
  /\ UNCHANGED <<output, file, idx>>

ApplyOp ==
  /\ SkipOp \/ ApplyWrite \/ ApplyRead \/ RepairFails
  /\ UNCHANGED <<call, mode, form, sizer, build, got, status, failed, closeFailed, opened, names, cur, saved>>

\* After the last result: a refused trailing CLOSE, the next compound, or the end.
ApplyEnd ==
  /\ pc = "apply" /\ idx > Len(got)
  /\ \/ /\ status # "OK"
        /\ closeFailed' = (FailedRange = {}) /\ pc' = "outcome" /\ UNCHANGED <<base, result, build>>
     \/ /\ status = "OK" /\ global > n /\ pc' = "outcome" /\ UNCHANGED <<closeFailed, base, result, build>>
     \/ /\ status = "OK" /\ global <= n /\ pc' = "build" /\ Chunk(global, part, 0, sizer)
        /\ UNCHANGED <<closeFailed, base, result>>
  /\ UNCHANGED <<call, mode, form, sizer, got, status, idx, failed, output, opened, server, faults>>

-----------------------------------------------------------------------------
(* The forms (vread/vwrite_path_full_nfs, _openwrite_nfs, _fallback_nfs).  *)

Outcome ==
  /\ pc = "outcome"
  /\ \/ /\ failed # 0            \* resume from the failed item in phases
        /\ mode' = IF InCompound /\ status = "STATEID" THEN "off" ELSE mode
        /\ ClosePathOpens /\ pc' = "phased" /\ base' = failed
        /\ UNCHANGED <<form, build, failed, closeFailed, output, opened, result>>
     \/ /\ failed = 0 /\ closeFailed  \* start over with separate CLOSEs
        /\ mode' = "openwrite" /\ form' = "openwrite" /\ pc' = "build" /\ Chunk(1, 0, 0, sizer)
        /\ closeFailed' = FALSE /\ counts' = [i \in 1..n |-> 0] /\ data' = [i \in 1..n |-> <<>>]
        /\ eofs' = [i \in 1..n |-> FALSE] /\ opened' = <<>>
        /\ UNCHANGED <<base, failed, result, opens>>
     \/ /\ failed = 0 /\ ~closeFailed
        /\ ClosePathOpens /\ Finish("ok")
        /\ UNCHANGED <<mode, form, base, build, failed, closeFailed, output, opened>>
  /\ UNCHANGED <<call, sizer, got, status, idx, names, file, cur, saved, faults>>

Suffix == base..n
PathItems(p) == {i \in base..p : ~items[i].fd}     \* opened first to p
Missing(i) == items[i].name \notin DOMAIN names
At0(f, o, v) == IF o \in DOMAIN f THEN f[o] ELSE v

\* open_path_batch finds a missing file that must not be created.
Absent == \E i \in PathItems(n) : Missing(i) /\ ~items[i].create
\* A missing file is created guarded: a second time it exists.
Again(i) == Missing(i) /\ \E j \in PathItems(i - 1) : items[j].name = items[i].name
Openable(p) == \A i \in PathItems(p) : ~Again(i)

\* Server state with the temporary opens of the items up to p.
Same(i, j) == ObjectOf(items[i]) = ObjectOf(items[j])
Opened(p) == DOMAIN opens \cup {ObjectOf(items[i]) : i \in PathItems(p)}
OpensAfter(p) == [o \in Opened(p) |->
  At0(opens, o, 0) + Cardinality({i \in PathItems(p) : ObjectOf(items[i]) = o})]
FilesAfter(p, trunc) == [o \in DOMAIN file \cup Opened(p) |->
  IF trunc /\ \E i \in PathItems(p) : ObjectOf(items[i]) = o /\ items[i].trunc THEN <<>> ELSE At0(file, o, <<>>)]
NamesAfter(p) == [x \in DOMAIN names \cup {items[i].name : i \in PathItems(p)} |-> At0(names, x, x)]

\* close_tmp closes the temporary opens in order; an old one is refused and
\* ends the compound.
Old(i, p) == \E j \in PathItems(p) : j > i /\ Same(i, j)
Closed(p) == {ObjectOf(items[i]) : i \in {j \in PathItems(p) : \A k \in PathItems(j) : ~Old(k, p)}}
CloseTmp(p) == opens' = [o \in Opened(p) |-> IF o \in Closed(p) THEN 0 ELSE OpensAfter(p)[o]]

PhasedFails ==
  /\ pc = "phased" /\ Finish("error")
  /\ \/ Absent /\ UNCHANGED <<server, faults>>
     \/ /\ ~Absent
        /\ \E p \in (base - 1)..n, trunc \in BOOLEAN :
             /\ Openable(p) /\ (trunc => p = n)
             /\ IF p < n /\ ~items[p + 1].fd /\ Again(p + 1) THEN UNCHANGED faults ELSE Fault
             /\ names' = NamesAfter(p) /\ file' = FilesAfter(p, trunc) /\ CloseTmp(p)
        /\ UNCHANGED <<cur, saved>>
  /\ UNCHANGED <<call, mode, form, base, sizer, build, got, status, idx, failed, closeFailed, output, opened>>

\* Contents after the suffix's items up to k, one after the other.
Written(f, k) ==
  LET w[j \in (base - 1)..n] ==
        IF j < base THEN f
        ELSE LET o == ObjectOf(items[j])
             IN  [w[j - 1] EXCEPT ![o] = Put(@, items[j].off, j, 0, items[j].len)]
  IN  IF kind = "write" THEN w[k] ELSE f

\* vread_batch_nfs or vwrite_batch_nfs on the temporary descriptors, then close_tmp.
PhasedRuns ==
  /\ pc = "phased" /\ ~Absent /\ Openable(n)
  /\ \E stop \in (base - 1)..n :
       /\ \A i \in PathItems(stop) : ~Old(i, n)
       /\ IF stop = n THEN Finish("ok") /\ UNCHANGED faults
          ELSE /\ Finish("error")
               /\ IF ~items[stop + 1].fd /\ Old(stop + 1, n) THEN UNCHANGED faults ELSE Fault
       /\ file' = Written(FilesAfter(n, TRUE), stop)
       /\ counts' = [i \in 1..n |-> IF i \in base..stop THEN items[i].len ELSE counts[i]]
       /\ data' = [i \in 1..n |-> IF i \notin base..stop THEN data[i] ELSE
                     LET c == file'[ObjectOf(items[i])]
                     IN  SubSeq(c, items[i].off + 1, Smaller(items[i].off + items[i].len, Len(c)))]
  /\ names' = NamesAfter(n) /\ CloseTmp(n)
  /\ UNCHANGED <<call, mode, form, base, sizer, build, got, status, idx, failed, closeFailed, eofs, opened, cur, saved>>

Returned == pc = "returned" /\ UNCHANGED vars

Step == \/ AddItem \/ EndChunk \/ ServerExecutes \/ ServerAnswers \/ ServerBusy \/ ServerFails
        \/ ReplyRetried
        \/ ReplyUseless \/ ReplyAnalysed \/ ApplyOp \/ ApplyEnd \/ Outcome \/ PhasedFails \/ PhasedRuns
Next == Step \/ Returned

\* Sequential client code; every request is answered or its connection breaks.
Spec == Init /\ [][Next]_vars /\ WF_vars(Step)

-----------------------------------------------------------------------------

\* Contents if the items ran one after the other, but with the files that the
\* path items from p on truncate emptied just before item p writes.
ResolveName(it) == IF it.fd \/ it.name \notin DOMAIN Names THEN it.name ELSE Names[it.name]
Empties(i) == items[i].trunc /\ ~items[i].fd
EmptiedAt(j, p) == {ResolveName(items[i]) : i \in {k \in 1..n : Empties(k) /\ IF k < p THEN k = j ELSE j = p}}
InOrder(p) ==
  LET all == Objects \cup {ResolveName(items[i]) : i \in 1..n}
      w[j \in 0..n] ==
        IF j = 0 THEN [o \in all |-> At0(Content, o, <<>>)]
        ELSE LET cleared == [o \in all |-> IF o \in EmptiedAt(j, p) THEN <<>> ELSE w[j - 1][o]]
             IN  [cleared EXCEPT ![ResolveName(items[j])] = Put(@, items[j].off, j, 0, items[j].len)]
  IN  w[n]

\* A write call that succeeds has done what its items do one after the other,
\* with the byte counts asked for: across compound boundaries, short writes
\* and their repair, hard links, refused operations and changes of form.  One
\* thing moves: a suffix resumed in phases from item base truncates all its
\* files before its first write, for open_path_batch opens them all together.
SequentialWrites ==
  result = "ok" /\ kind = "write" =>
    file = InOrder(IF base = 0 THEN n + 1 ELSE base) /\ counts = [i \in 1..n |-> items[i].len]

\* A read call that succeeds returns each item's bytes up to its length or the
\* end of the file.
ExactReads ==
  result = "ok" /\ kind = "read" =>
    \A i \in 1..n : LET c == Content[ResolveName(items[i])]
                    IN  data[i] = SubSeq(c, items[i].off + 1, Smaller(items[i].off + items[i].len, Len(c)))

\* A call that succeeds leaves no open of the path owner behind, also when it
\* resumed from a compound that failed with files open, but for two kinds:
\* the object whose CLOSE inside that compound was refused, and in a phased
\* suffix the objects from the first one named twice on (close_tmp sends the
\* stateid the second OPEN made old, and the refused CLOSE ends the compound).
CloseRefused == base # 0 /\ status # "OK" /\ Bad <= Len(ops) /\ ops[Bad].op = "close"
Named(i, j) == ~items[i].fd /\ ~items[j].fd /\ ResolveName(items[i]) = ResolveName(items[j])
StaleClose(i) == \E j \in base..i, k \in Suffix : j < k /\ Named(j, k)
LeftOpen == {cur : x \in IF CloseRefused THEN {0} ELSE {}}
            \cup {ResolveName(items[i]) : i \in {j \in Suffix : base # 0 /\ StaleClose(j)}}
OpensReleased == result = "ok" => \A o \in DOMAIN opens : opens[o] # 0 => o \in LeftOpen

\* Every call returns.
CallReturns == <>(pc = "returned")
=============================================================================
