----------------------------- MODULE MergedOps -----------------------------
(***************************************************************************)
(* The merged path compounds of crates/vfsi-nfs/src/client.rs:             *)
(* openv_path_compound, removev_path_compound, renamev_path_compound,      *)
(* getattr_path_compound and setattr_path_compound, with ExecutionMap and  *)
(* the retry rules of planner.rs.  A call packs as many items as fit into  *)
(* one compound and walks from item to item with CfhCursor.                *)
(*                                                                         *)
(* An item is [path, to, how]: to is the target of a rename; how is        *)
(* "plain", "create", "excl" (open), "guard" (setattr: NVERIFY against     *)
(* symlinks) or "handle" (getattr, setattr: path[1] is an open object).    *)
(* The empty path has no parent and is refused by set_parent.              *)
(* The server (external) keeps a tree of objects; it may refuse a compound *)
(* at any operation, and the reply may get lost or be malformed.           *)
(* Attribute contents, modes and byte counts are left out; the request     *)
(* size limit is a number of items.                                        *)
(***************************************************************************)
EXTENDS AdaptiveSizer, CfhCursor

CONSTANTS
  Root,        \* the export root
  Tree,        \* the other objects: object -> [dir, name, kind]
  Spare,       \* objects that may be created
  Calls,       \* possible calls: [kind, items]
  Reserve,     \* 16 in the code: headroom for path walks
  ByteItems,   \* items that fit the request size
  MaxFaults    \* bound: faults injected by the server

VARIABLES
  kind, items,       \* the call
  pc,                \* "build", "run" (at the server), "reply" or "returned"
  sizer,             \* the learned window of the compound's tag
  global,            \* the next item
  chunkStart,        \* the first item of the compound being built
  maxItems,          \* cap after a repack, 0 if none
  budget,            \* op budget of the compound being built
  cursor, ops,       \* CfhCursor and the operations so far
  ranges,            \* ExecutionMap: [caller, start, end)
  reply,             \* [how, status, nops]
  failed,            \* outcome.failed: item number, 0 if none
  done,              \* items confirmed as done
  opened,            \* opened: pairs <<item, object>>
  result,            \* "none", "outcome" or "error"
  tree, opens, attrs,  \* server: objects, open state <<item, object>>, setattrs
  cur, saved, pos,   \* server: filehandles and number of operations executed
  deferred,          \* deferred_path_closes
  faults             \* faults left

call == <<kind, items>>
chunk == <<chunkStart, maxItems, budget, cursor, ops, ranges>>
outcome == <<failed, done, opened>>
server == <<tree, opens, attrs>>
running == <<cur, saved, pos>>
vars == <<call, pc, sizer, global, chunk, reply, outcome, result, server, running, deferred, faults>>

n == Len(items)
PerFile == CASE kind = "open" -> 6 [] kind = "remove" -> 3 [] kind = "rename" -> 8
             [] kind = "getattr" -> 4 [] kind = "setattr" -> 5
NoReply == [how |-> "none", status |-> "OK", nops |-> 0]

-----------------------------------------------------------------------------
(* Budgets (op_budget_for, merged_limit).                                  *)

OpBudget(s) == Max({AtMost(s.current, Negotiated), AtMost(1 + PerFile, Negotiated)})
MergedLimit(s) ==
  LET m == OpBudget(s)
  IN  IF m < 1 + PerFile THEN 0
      ELSE AtMost(Max({m - Reserve, 1 + PerFile}), m)

Init ==
  /\ \E c \in Calls : kind = c.kind /\ items = c.items
  /\ pc = "build" /\ sizer = NewSizer
  /\ global = 1 /\ chunkStart = 1 /\ maxItems = 0 /\ budget = MergedLimit(NewSizer)
  /\ cursor = Fresh /\ ops = <<>> /\ ranges = <<>> /\ reply = NoReply
  /\ failed = 0 /\ done = {} /\ opened = {} /\ result = "none"
  /\ tree = Tree /\ opens = {} /\ attrs = [x \in DOMAIN Tree \cup Spare |-> 0]
  /\ cur = Root /\ saved = Root /\ pos = 0
  /\ deferred = {} /\ faults = MaxFaults

-----------------------------------------------------------------------------
(* The server executes a compound.                                         *)

Children(t, d, name) == {x \in DOMAIN t : t[x].dir = d /\ t[x].name = name}
IsDir(t, x) == x = Root \/ (x \in DOMAIN t /\ t[x].kind = "dir")
Empty(t, x) == \A y \in DOMAIN t : t[y].dir # x
Without(t, x) == [y \in DOMAIN t \ {x} |-> t[y]]
Inside(t, x, d) ==     \* d is x or below x
  LET up[k \in 0..Cardinality(DOMAIN t)] ==
        IF k = 0 THEN d ELSE IF up[k - 1] \in DOMAIN t THEN t[up[k - 1]].dir ELSE Root
  IN  \E k \in DOMAIN up : up[k] = x

MayReplace(t, x, y) == \/ x = y \/ (t[x].kind # "dir" /\ t[y].kind # "dir")
                       \/ (t[x].kind = "dir" /\ t[y].kind = "dir" /\ Empty(t, y))

\* The states after operation o for item i = it; none if the operation fails.
Execute(s, o, i, it) ==
  LET kids == IF IsDir(s.tree, s.cur) THEN Children(s.tree, s.cur, o.name) ELSE {}
      src  == IF IsDir(s.tree, s.saved) THEN Children(s.tree, s.saved, o.name) ELSE {}
      how  == it.how
  IN  CASE o.op = "putrootfh" -> {[s EXCEPT !.cur = Root]}
        [] o.op = "putfh"     -> IF o.name \in DOMAIN s.tree THEN {[s EXCEPT !.cur = o.name]} ELSE {}
        [] o.op = "lookup"    -> {[s EXCEPT !.cur = x] : x \in kids}
        [] o.op = "lookupp"   -> IF s.cur \in DOMAIN s.tree /\ IsDir(s.tree, s.cur)
                                 THEN {[s EXCEPT !.cur = s.tree[s.cur].dir]} ELSE {}
        [] o.op = "savefh"    -> {[s EXCEPT !.saved = s.cur]}
        [] o.op = "restorefh" -> {[s EXCEPT !.cur = s.saved]}
        [] o.op = "getfh" \/ o.op = "getattr" -> {s}
        [] o.op = "nverify"   -> IF s.tree[s.cur].kind = "link" THEN {} ELSE {s}
        [] o.op = "setattr"   -> IF s.cur = Root THEN {s} ELSE {[s EXCEPT !.attrs[s.cur] = i]}
        [] o.op = "open" ->
             IF kids # {} /\ how # "excl"
             THEN {[s EXCEPT !.cur = x, !.opens = @ \cup {<<i, x>>}] :
                     x \in {y \in kids : s.tree[y].kind = "file"}}
             ELSE IF kids = {} /\ how # "plain" /\ IsDir(s.tree, s.cur)
             THEN LET x == CHOOSE y \in Spare : y \notin DOMAIN s.tree
                  IN  {[s EXCEPT !.cur = x, !.opens = @ \cup {<<i, x>>},
                                 !.tree = [y \in DOMAIN @ \cup {x} |->
                                   IF y = x THEN [dir |-> s.cur, name |-> o.name, kind |-> "file"]
                                   ELSE @[y]]]}
             ELSE {}
        [] o.op = "remove" -> {[s EXCEPT !.tree = Without(@, x)] : x \in {y \in kids : Empty(s.tree, y)}}
        [] o.op = "rename" ->
             LET old == IF IsDir(s.tree, s.cur) THEN Children(s.tree, s.cur, o.to) ELSE {}
             IN  {[s EXCEPT !.tree = LET t == [@ EXCEPT ![x].dir = s.cur, ![x].name = o.to]
                                     IN  [y \in DOMAIN t \ (old \ {x}) |-> t[y]]] :
                    x \in {y \in src : /\ IsDir(s.tree, s.cur) /\ ~Inside(s.tree, y, s.cur)
                                       /\ \A z \in old : MayReplace(s.tree, y, z)}}

\* The item operation k of the compound belongs to.
ItemAt(k) == Max({ranges[r].caller : r \in {q \in DOMAIN ranges : ranges[q].start <= k}})

-----------------------------------------------------------------------------
(* Building a compound.                                                    *)

Malformed(path) == path = <<>>
Unusable(k, it) == Malformed(it.path) \/ (k = "rename" /\ Malformed(it.to))

Target(it) == OpOn(IF it.how = "handle" THEN "putfh" ELSE "lookup", Last(it.path))

\* Operations of an item after its parent directory is current.
OpenBody(it) == <<OpOn("open", Last(it.path)), Op("getfh")>>
RemoveBody(it) == <<OpOn("remove", Last(it.path))>>
RenameBody(it) ==       \* the source directory stays in the saved filehandle
  Walk(ParentSet(Front(it.path)), Front(it.to))
    \o <<[op |-> "rename", name |-> Last(it.path), to |-> Last(it.to)]>>
GetattrBody(it) == <<Target(it), Op("getattr")>>
SetattrBody(it) ==
  <<Target(it)>> \o (IF it.how = "guard" THEN <<Op("nverify")>> ELSE <<>>) \o <<Op("setattr")>>

Body(k, it) ==
  CASE k = "open"    -> OpenBody(it)
    [] k = "remove"  -> RemoveBody(it)
    [] k = "rename"  -> RenameBody(it)
    [] k = "getattr" -> GetattrBody(it)
    [] k = "setattr" -> SetattrBody(it)

\* Operations of an item: to its parent unless it is a handle, and its body.
ItemOps(k, c, it) ==
  (IF it.how = "handle" THEN <<>> ELSE SetParent(c, Front(it.path))) \o Body(k, it)

\* What the cursor believes afterwards; REMOVE keeps the parent current.
CursorAfter(c, it) ==
  CASE it.how = "handle" -> Descended(c)
    [] kind = "remove"   -> ParentSet(Front(it.path))
    [] OTHER             -> Descended(ParentSet(Front(it.path)))

Fits ==
  /\ global <= n
  /\ maxItems = 0 \/ Len(ranges) < maxItems
  /\ Len(ops) + 1 + PerFile <= budget
  /\ Len(ranges) < ByteItems

AddItem ==
  /\ pc = "build" /\ Fits
  /\ LET it    == items[global]
         start == Len(ops) + 1
     IN  IF Unusable(kind, it)
         THEN /\ ranges' = Append(ranges, [caller |-> global, start |-> start, end |-> start])
              /\ ops' = IF Malformed(it.path) THEN ops ELSE ops \o SetParent(cursor, Front(it.path))
              /\ failed' = global /\ global' = n + 1
              /\ UNCHANGED cursor
         ELSE /\ ops' = ops \o ItemOps(kind, cursor, it)
              /\ ranges' = Append(ranges, [caller |-> global, start |-> start, end |-> Len(ops') + 1])
              /\ cursor' = CursorAfter(cursor, it)
              /\ global' = global + 1 /\ UNCHANGED failed
  /\ UNCHANGED <<call, pc, sizer, chunkStart, maxItems, budget, reply, done, opened, result, server, running, deferred, faults>>

\* The next compound starts at item g.
Rebuild(g, cap, s) ==
  /\ pc' = "build" /\ global' = g /\ chunkStart' = g /\ maxItems' = cap
  /\ budget' = MergedLimit(s) /\ cursor' = Fresh /\ ops' = <<>> /\ ranges' = <<>>

Return(how) == pc' = "returned" /\ result' = how /\ UNCHANGED <<global, chunk>>

\* The compound is full: refuse it, repack it with fewer items, or send it.
EndChunk ==
  /\ pc = "build" /\ ~Fits
  /\ \/ /\ ranges = <<>>
        /\ failed' = IF failed = 0 THEN chunkStart ELSE failed
        /\ Return("outcome")
     \/ /\ ranges # <<>> /\ failed = 0 /\ Len(ranges) > 1 /\ Len(ops) + 1 > OpBudget(sizer)
        /\ Rebuild(chunkStart, Len(ranges) - 1, sizer)
        /\ UNCHANGED <<failed, result>>
     \/ /\ ranges # <<>> /\ ~(failed = 0 /\ Len(ranges) > 1 /\ Len(ops) + 1 > OpBudget(sizer))
        /\ IF Len(ops) + 1 > Negotiated      \* CompoundBudget::ensure
           THEN Return("error")
           ELSE pc' = "run" /\ UNCHANGED <<result, global, chunk>>
        /\ UNCHANGED failed
  /\ cur' = Root /\ saved' = Root /\ pos' = 0
  /\ UNCHANGED <<call, sizer, reply, done, opened, server, deferred, faults>>

-----------------------------------------------------------------------------
(* The server runs it.                                                     *)

Results == Execute([tree |-> tree, opens |-> opens, attrs |-> attrs, cur |-> cur, saved |-> saved],
                   ops[pos + 1], ItemAt(pos + 1), items[ItemAt(pos + 1)])

Replies(how, status, nops) ==
  /\ pc' = "reply" /\ reply' = [how |-> how, status |-> status, nops |-> nops]
  /\ UNCHANGED <<call, sizer, global, chunk, outcome, result, server, running, deferred>>

ServerExecutes ==
  /\ pc = "run" /\ pos < Len(ops)
  /\ \E s \in Results :
       /\ tree' = s.tree /\ opens' = s.opens /\ attrs' = s.attrs
       /\ cur' = s.cur /\ saved' = s.saved /\ pos' = pos + 1
  /\ UNCHANGED <<call, pc, sizer, global, chunk, reply, outcome, result, deferred, faults>>

\* All operations done, or one fails.
ServerAnswers ==
  /\ pc = "run" /\ UNCHANGED faults
  /\ \/ pos = Len(ops) /\ Replies("reply", "OK", pos + 1)
     \/ pos < Len(ops) /\ Results = {} /\ Replies("reply", "OTHER", pos + 2)

\* The whole compound, SEQUENCE or the first operation is refused for lack of
\* resources, as often as the server likes.
ServerOverloaded ==
  /\ pc = "run" /\ pos = 0 /\ UNCHANGED faults
  /\ \E status \in {"RESOURCE", "TOO_MANY"}, nops \in 0..AtMost(2, Len(ops) + 1) :
       Replies("reply", status, nops)

\* The next operation is refused.
ServerRefuses ==
  /\ pc = "run" /\ faults > 0 /\ faults' = faults - 1
  /\ \E status \in {"RESOURCE", "TOO_MANY", "OTHER"} :
       pos < Len(ops) /\ Replies("reply", status, pos + 2)

\* The connection is lost after any part was executed, or the reply does not
\* match the compound.
ReplyBad ==
  /\ pc = "run" /\ faults > 0 /\ faults' = faults - 1
  /\ \/ Replies("lost", "OK", 0)
     \/ pos = Len(ops) /\ Replies("malformed", "OK", 0)

-----------------------------------------------------------------------------
(* The reply.                                                              *)

\* AdaptiveCompoundLimits::observe
Observed ==
  LET sent == Len(ops) + 1
  IN  CASE reply.how = "lost" -> sizer
        [] reply.how = "malformed" \/ reply.status = "OK" -> Succeeded(sizer, sent)
        [] reply.status = "RESOURCE" -> ResourceRejected(sizer, sent)
        [] reply.status = "TOO_MANY" -> OpLimitRejected(sizer, sent)
        [] OTHER -> sizer

Rejected == reply.how = "reply" /\ reply.status \in {"RESOURCE", "TOO_MANY"}

\* resource_rejected_before_mutation
BeforeMutation == reply.nops <= 2

\* can_retry_merged_resource, can_retry_read_only_merged_resource
Retry == Rejected /\ (kind = "getattr" \/ BeforeMutation) /\ MergedLimit(Observed) < budget

\* ExecutionMap::analyze: the range with the failed operation, if any.
Bad == reply.nops - 1
FailedRanges == {r \in DOMAIN ranges : ranges[r].start <= Bad /\ Bad < ranges[r].end}
CompoundFailed ==
  reply.how = "malformed" \/ (reply.status # "OK" /\ (reply.nops <= 1 \/ FailedRanges = {}))

\* Items whose ranges completed.
Callers(f) == {ranges[r].caller : r \in {q \in DOMAIN ranges : f = 0 \/ ranges[q].caller < f}}
OpensOf(S) == {o \in opens : o[1] \in S}

\* close_path_or_defer for the opens in S: all are closed, or all are kept
\* for later after some were closed.
CloseOrDefer(S) ==
  \/ opens' = opens \ S /\ UNCHANGED deferred
  \/ \E closed \in SUBSET S : opens' = opens \ closed /\ deferred' = deferred \cup S

CallError == Return("error") /\ UNCHANGED failed

\* The transport failed: the outcome is ambiguous and nothing is resent.
ReplyLost ==
  /\ pc = "reply" /\ reply.how = "lost"
  /\ CallError /\ CloseOrDefer(opened) /\ opened' = {} /\ UNCHANGED done
  /\ UNCHANGED <<call, sizer, running, reply, tree, attrs, faults>>

ReplyRetried ==
  /\ pc = "reply" /\ reply.how # "lost" /\ Retry
  /\ sizer' = Observed
  /\ Rebuild(chunkStart, 0, Observed)
  /\ UNCHANGED <<call, running, reply, outcome, result, server, deferred, faults>>

\* first_failed_range(..)? leaves the call at once.
ReplyRefused ==
  /\ pc = "reply" /\ reply.how # "lost" /\ ~Retry /\ CompoundFailed
  /\ sizer' = Observed
  /\ CallError
  /\ UNCHANGED <<call, running, reply, done, opened, server, deferred, faults>>

\* The (filehandle, stateid) pairs of the completed items.
Recorded(f) == OpensOf(Callers(f))

\* Results of the items before the first failed one.
ReplyApplied ==
  /\ pc = "reply" /\ reply.how # "lost" /\ ~Retry /\ ~CompoundFailed
  /\ sizer' = Observed
  /\ LET f == IF reply.status = "OK" THEN 0 ELSE ranges[CHOOSE r \in FailedRanges : TRUE].caller
     IN  /\ done' = done \cup Callers(f)
         /\ failed' = IF f = 0 THEN failed ELSE f
         /\ opened' = IF kind = "open" THEN opened \cup Recorded(f) ELSE {}
         /\ IF f # 0 \/ global > n THEN Return("outcome")
            ELSE Rebuild(global, 0, Observed) /\ UNCHANGED result
  /\ UNCHANGED <<call, running, reply, server, deferred, faults>>

\* cleanup_exclusive_path_opens fails: every open of the call is closed.
ExclusiveCleanupFails ==
  /\ pc = "reply" /\ reply.how # "lost" /\ ~Retry /\ ~CompoundFailed /\ faults > 0
  /\ kind = "open"
  /\ LET f == IF reply.status = "OK" THEN 0 ELSE ranges[CHOOSE r \in FailedRanges : TRUE].caller
     IN  /\ \E i \in Callers(f) : items[i].how = "excl"
         /\ CloseOrDefer(opened \cup Recorded(f))
         /\ done' = done \cup Callers(f)
  /\ faults' = faults - 1 /\ sizer' = Observed /\ opened' = {}
  /\ CallError
  /\ UNCHANGED <<call, running, reply, tree, attrs>>

Returned == pc = "returned" /\ UNCHANGED vars

Step == \/ AddItem \/ EndChunk \/ ServerExecutes \/ ServerAnswers \/ ServerOverloaded
        \/ ServerRefuses \/ ReplyBad \/ ReplyLost \/ ReplyRetried
        \/ ReplyRefused \/ ReplyApplied \/ ExclusiveCleanupFails
Next == Step \/ Returned

\* The call is sequential code; every request is answered or times out.
Spec == Init /\ [][Next]_vars /\ WF_vars(Step)

-----------------------------------------------------------------------------
(* Reference: one compound per item, walked from the root.                 *)

Single(k, s, i, it) ==
  LET list == ItemOps(k, Fresh, it)
      run[j \in 0..Len(list)] ==
        IF j = 0 THEN {[s EXCEPT !.cur = Root, !.saved = Root]}
        ELSE UNION {Execute(x, list[j], i, it) : x \in run[j - 1]}
  IN  IF Unusable(k, it) THEN {} ELSE run[Len(list)]

\* For each call, the server states after its first k items.
Sequential ==
  [c \in Calls |->
     LET run[k \in 0..Len(c.items)] ==
           IF k = 0 THEN {[tree |-> Tree, opens |-> {}, attrs |-> [x \in DOMAIN Tree \cup Spare |-> 0],
                           cur |-> Root, saved |-> Root]}
           ELSE UNION {Single(c.kind, x, k, c.items[k]) : x \in run[k - 1]}
     IN  [k \in 0..Len(c.items) |-> {[tree |-> s.tree, attrs |-> s.attrs] : s \in run[k]}]]

\* The server's tree is what the first k items make of it.
Done(k) == [tree |-> tree, attrs |-> attrs] \in Sequential[[kind |-> kind, items |-> items]][k]

\* Whatever is refused, lost, resent or repacked: what the server has changed
\* is what a prefix of the items does, each executed once, in order, and on
\* the object its path names.
PrefixExecuted == \E k \in 0..n : Done(k)

\* An outcome names the right item: the items before outcome.failed were all
\* executed, it and the later ones were not.  (An OPEN whose GETFH is refused
\* has happened although the item failed.)
FailureAttributed ==
  result = "outcome" =>
    LET k == IF failed = 0 THEN n ELSE failed - 1
    IN  /\ (1..k) \subseteq done
        /\ Done(k) \/ (kind = "open" /\ failed # 0 /\ Done(failed))

\* An outcome lists exactly the opens the server holds for the call, but for
\* the item that failed: its OPEN may have been executed before its GETFH was
\* refused, and nothing closes it.  After a lost reply, or a failed exclusive
\* clean-up, every open of an earlier compound is closed or deferred.
LeftEarly == result = "error" /\ opened # {}    \* first_failed_range(..)? or ensure(..)?
OpensReported ==
  /\ result = "outcome" => {o \in opens : o[1] # failed} = opened
  /\ result = "error" /\ ~LeftEarly => \A o \in opens : o[1] \in done => o \in deferred

\* Every OPEN a reply confirmed is cleaned up when the vector fails: it is
\* closed, or its CLOSE deferred.
ConfirmedCleaned == result = "error" => \A o \in opens : o[1] \in done => o \in deferred

\* The call returns: a refused compound is resent only with a smaller budget.
CallReturns == <>(pc = "returned")
=============================================================================
