------------------------------ MODULE BatchOps ------------------------------
(***************************************************************************)
(* NfsClient::batch_ops_fallible_with_failure of                           *)
(* crates/vfsi-nfs/src/client.rs: one call runs items 1..N of one shape    *)
(* across as few COMPOUNDs as possible.  Every item appends PerOp          *)
(* operations: a PUTFH, then the rest; the operation that changes the      *)
(* server (OPEN, WRITE, RENAME...) has offset MutOp.  Operation 0 of every *)
(* reply is SEQUENCE.  Items are numbered from 1 here, from 0 in the code. *)
(*                                                                         *)
(* The server is external.  It stops at the first failing operation and    *)
(* either reports its status or only sets the status of the COMPOUND; it   *)
(* may fail any operation with any status, and a reply may be lost.        *)
(***************************************************************************)
EXTENDS Integers, Sequences, AdaptiveSizer

CONSTANTS
  N,          \* number of items of the call (an empty call returns at once)
  PerOp,      \* operations per item: 2, 3 or 4 in the code
  MutOp,      \* offset of the mutating operation inside an item
  ReadOnly,   \* batch_is_read_only(tag)
  Fits        \* {<<first item, length>>}: chunks compound_request_fits accepts

ASSUME BatchConstants ==
  /\ N \in Nat \ {0}
  /\ PerOp \in 2..4
  /\ MutOp \in 1..(PerOp - 1)
  /\ ReadOnly \in BOOLEAN

Items == 1..N
Limits == {"RESOURCE", "TOO_MANY_OPS"}
Errors == Limits \cup {"OTHER"}
Unlimited == N + 1      \* usize::MAX: more items than any chunk can hold

VARIABLES
  pc,        \* "build", "sent", "replied" or "done"
  global,    \* items already answered (the code's global)
  maxItems,  \* max_items: cap set by a chunk that was too large to encode
  chunk,     \* [first, len] of the COMPOUND under way
  sizer,     \* the learned window of this shape
  reply,     \* what call_compound returned
  out,       \* results extracted so far: item numbers
  cleaned,   \* the argument of on_failure, or <<>> while it was not called
  result,    \* the value returned to the caller
  attempts,  \* history: how often the server reached the item's mutation
  acked,     \* history: items a received reply proves complete
  refused    \* history: smallest operation count answered TOO_MANY_OPS

vars == <<pc, global, maxItems, chunk, sizer, reply, out, cleaned, result,
          attempts, acked, refused>>
server == <<attempts, acked, refused>>

NoReply == [kind |-> "none", nops |-> 0, bad |-> -1, status |-> "OK", over |-> 0]
Pending == [kind |-> "pending", idx |-> 0]

Chunks == [first: Nat, len: Nat]
Replies == [kind: {"none", "reply", "lost", "toobig"}, nops: Nat, bad: Int,
            status: Errors \cup {"OK"}, over: Nat]
Results == [kind: {"pending", "ok", "op", "invalid", "transport"}, idx: Nat]

TypeOK ==
  /\ pc \in {"build", "sent", "replied", "done"}
  /\ global \in 0..N
  /\ maxItems \in 1..Unlimited
  /\ chunk \in Chunks
  /\ sizer \in Sizer
  /\ reply \in Replies
  /\ out \in Seq(Items)
  /\ cleaned \in Seq(Items)
  /\ result \in Results
  /\ attempts \in [Items -> Nat]
  /\ acked \in SUBSET Items
  /\ refused \in Nat

Init ==
  /\ pc = "build"
  /\ global = 0
  /\ maxItems = Unlimited
  /\ chunk = [first |-> 1, len |-> 0]
  /\ sizer = NewSizer
  /\ reply = NoReply
  /\ out = <<>>
  /\ cleaned = <<>>
  /\ result = Pending
  /\ attempts = [i \in Items |-> 0]
  /\ acked = {}
  /\ refused = Negotiated + 1

-----------------------------------------------------------------------------
\* op_budget_for(tag, 1 + per_op).max_ops and its batch_capacity(per_op).
OpBudget(s) ==
  LET soft == AtMost(s.current, Negotiated)
      one  == AtMost(1 + PerOp, Negotiated)
  IN  IF soft < one THEN one ELSE soft

Capacity(s) == (AtLeast1(OpBudget(s)) - 1) \div PerOp

\* Operations of a COMPOUND of n items, SEQUENCE included.
OpsOf(n) == 1 + PerOp * n

\* The items an (extracted) prefix of the chunk stands for.
Prefix(n) == [i \in 1..n |-> chunk.first + i - 1]

\* Mutant: a reply of two results is taken for a rejected PUTFH, its status unread.
RejectedWithinTwo(r) == r.status \in Limits /\ r.nops \in {0, 1, 2}

\* resource_rejected_before_mutation(&res)
RejectedBeforeMutation(r) ==
  /\ r.status \in Limits
  /\ \/ r.nops \in {0, 1}
     \/ r.nops = 2 /\ r.bad = 1

Return(kind, idx) ==
  /\ pc' = "done"
  /\ result' = [kind |-> kind, idx |-> idx]

\* Mutant: max_items is reset before the smaller chunk is built.
BuildForgetsCap ==
  /\ pc = "build"
  /\ LET len == AtMost(Capacity(sizer), N - global)
     IN  /\ chunk' = [first |-> global + 1, len |-> len]
         /\ pc' = IF <<global + 1, len>> \in Fits THEN "sent" ELSE "build"
  /\ UNCHANGED <<global, maxItems, reply, out, cleaned, result, sizer, server>>

\* Lines 2071-2099: choose the chunk, halve it while it does not fit, send it.
Build ==
  /\ pc = "build"
  /\ IF Capacity(sizer) = 0
     THEN /\ Return("op", 1)
          /\ cleaned' = out
          /\ UNCHANGED <<global, maxItems, chunk, reply, out>>
     ELSE LET len == AtMost(AtMost(Capacity(sizer), maxItems), N - global)
          IN  /\ chunk' = [first |-> global + 1, len |-> len]
              /\ IF <<global + 1, len>> \notin Fits /\ len > 1
                 THEN /\ maxItems' = len \div 2
                      /\ UNCHANGED <<pc, reply>>
                 ELSE /\ maxItems' = Unlimited
                      /\ IF <<global + 1, len>> \in Fits
                         THEN pc' = "sent" /\ UNCHANGED reply
                         ELSE /\ pc' = "replied"   \* call_compound refuses it
                              /\ reply' = [NoReply EXCEPT !.kind = "toobig"]
              /\ UNCHANGED <<global, out, cleaned, result>>
  /\ UNCHANGED <<sizer, server>>

-----------------------------------------------------------------------------
\* The server runs operations 0..k of the COMPOUND, the last one perhaps with
\* an error.  Item i of the chunk owns operations FirstOp(i)..LastOp(i).
ChunkItems == {i \in Items : chunk.first <= i /\ i < chunk.first + chunk.len}
FirstOp(i) == 1 + PerOp * (i - chunk.first)
LastOp(i) == PerOp * (i - chunk.first + 1)

Reach(k) ==
  attempts' = [i \in Items |->
                 IF i \in ChunkItems /\ FirstOp(i) + MutOp <= k
                 THEN attempts[i] + 1 ELSE attempts[i]]

\* AdaptiveCompoundLimits::observe, called by call_compound for every reply.
Observe(s, attempted, status) ==
  CASE status = "OK"           -> Succeeded(s, attempted)
    [] status = "RESOURCE"     -> ResourceRejected(s, attempted)
    [] status = "TOO_MANY_OPS" -> OpLimitRejected(s, attempted)
    [] OTHER                   -> s

\* A READ of an item the reply proves complete may carry too many bytes.
Oversized(complete) == IF ReadOnly THEN {0} \cup complete ELSE {0}

ServeOk ==
  /\ pc = "sent"
  /\ pc' = "replied"
  /\ \E over \in Oversized(ChunkItems) :
       reply' = [kind |-> "reply", nops |-> OpsOf(chunk.len), bad |-> -1,
                 status |-> "OK", over |-> over]
  /\ Reach(LastOp(chunk.first + chunk.len - 1))
  /\ acked' = acked \cup ChunkItems
  /\ sizer' = Observe(sizer, OpsOf(chunk.len), "OK")
  /\ UNCHANGED <<global, maxItems, chunk, out, cleaned, result, refused>>

\* Operation k fails.  The reply ends with its status, or (unreported) before
\* it, leaving only the status of the COMPOUND.
ServeFailure ==
  /\ pc = "sent"
  /\ pc' = "replied"
  /\ \E k \in 0..(PerOp * chunk.len), status \in Errors, reported \in BOOLEAN :
       LET complete == {i \in ChunkItems : LastOp(i) < k}
       IN  /\ \E over \in Oversized(complete) :
                reply' = [kind   |-> "reply",
                          nops   |-> IF reported THEN k + 1 ELSE k,
                          bad    |-> IF reported THEN k ELSE -1,
                          status |-> status,
                          over   |-> over]
           /\ Reach(k)
           /\ acked' = acked \cup complete
           /\ sizer' = Observe(sizer, OpsOf(chunk.len), status)
           /\ refused' = IF status = "TOO_MANY_OPS"
                         THEN AtMost(refused, OpsOf(chunk.len)) ELSE refused
  /\ UNCHANGED <<global, maxItems, chunk, out, cleaned, result>>

\* The transport fails: nothing, a part or all of the COMPOUND ran.
LoseReply ==
  /\ pc = "sent"
  /\ pc' = "replied"
  /\ reply' = [NoReply EXCEPT !.kind = "lost"]
  /\ \E k \in 0..(PerOp * chunk.len) : Reach(k)
  /\ UNCHANGED <<global, maxItems, chunk, sizer, out, cleaned, result, acked,
                 refused>>

-----------------------------------------------------------------------------
\* Lines 2099-2166: the reply is applied.  Retry, KeepPrefix and Fail are the
\* alternatives the code tries in this order.
CanRetryWhole ==
  /\ ~ReadOnly
  /\ chunk.len > 1
  /\ RejectedBeforeMutation(reply)
  /\ Capacity(sizer) < chunk.len

\* batch_resource_progress: whole items before the failing operation.
Before(op) == IF op < 1 THEN 0 ELSE (op - 1) \div PerOp

CanKeepPrefix ==
  /\ ReadOnly
  /\ chunk.len > 1
  /\ reply.status \in Limits
  /\ Before(reply.bad) > 0 \/ Capacity(sizer) < chunk.len

\* caller_index, and the two places that compute the same by hand.
CallerIndex(op) ==
  chunk.first + AtMost(Before(op), chunk.len - 1)

\* The operation the client blames: the reported one, or the first missing.
BlamedOp == IF reply.bad >= 0 THEN reply.bad
            ELSE IF reply.nops < 1 THEN 1 ELSE reply.nops

\* The first n results decode; a READ longer than requested stops the call.
Decodes(n) == ~(reply.over \in chunk.first..(chunk.first + n - 1))

HandleBadPayload(n) ==
  /\ ~Decodes(n)
  /\ Return("invalid", Len(out) + reply.over - chunk.first + 1)
  /\ UNCHANGED <<global, out, cleaned>>

\* Mutant: a lost reply returns without running on_failure.
HandleNoReplyUncleaned ==
  /\ reply.kind \in {"lost", "toobig"}
  /\ IF reply.kind = "lost" THEN Return("transport", 0)
                            ELSE Return("op", CallerIndex(0))
  /\ UNCHANGED <<global, out, cleaned>>

HandleNoReply ==
  /\ reply.kind \in {"lost", "toobig"}
  /\ cleaned' = out
  /\ IF reply.kind = "lost" THEN Return("transport", 0)
                            ELSE Return("op", CallerIndex(0))
  /\ UNCHANGED <<global, out>>

HandleRetryWhole ==
  /\ reply.kind = "reply"
  /\ CanRetryWhole
  /\ pc' = "build"
  /\ UNCHANGED <<global, out, cleaned, result>>

HandleKeepPrefix ==
  LET n == Before(reply.bad)
  IN  /\ reply.kind = "reply"
      /\ CanKeepPrefix
      /\ \/ HandleBadPayload(n)
         \/ /\ Decodes(n)
            /\ out' = out \o Prefix(n)
            /\ global' = global + n
            /\ pc' = "build"
            /\ UNCHANGED <<cleaned, result>>

HandleFailure ==
  LET n == AtMost(Before(BlamedOp), chunk.len)
  IN  /\ reply.kind = "reply"
      /\ reply.status # "OK"
      /\ ~CanRetryWhole
      /\ ~CanKeepPrefix
      /\ \/ HandleBadPayload(n)
         \/ /\ Decodes(n)
            /\ out' = out \o Prefix(n)
            /\ cleaned' = out'
            /\ Return("op", CallerIndex(BlamedOp))
            /\ UNCHANGED global

HandleSuccess ==
  /\ reply.kind = "reply"
  /\ reply.status = "OK"
  /\ \/ HandleBadPayload(chunk.len)
     \/ /\ Decodes(chunk.len)
        /\ out' = out \o Prefix(chunk.len)
        /\ global' = global + chunk.len
        /\ IF global' = N THEN Return("ok", 0)
                          ELSE pc' = "build" /\ UNCHANGED result
        /\ UNCHANGED cleaned

Handle ==
  /\ pc = "replied"
  /\ \/ HandleNoReply
     \/ HandleRetryWhole
     \/ HandleKeepPrefix
     \/ HandleFailure
     \/ HandleSuccess
  /\ reply' = NoReply
  /\ UNCHANGED <<maxItems, chunk, sizer, server>>

\* The next call of this shape.  It inherits the learned window, unless the
\* transport failed: the session is then replaced, and its windows with it.
NextCall ==
  /\ pc = "done"
  /\ pc' = "build"
  /\ global' = 0
  /\ out' = <<>>
  /\ cleaned' = <<>>
  /\ result' = Pending
  /\ attempts' = [i \in Items |-> 0]
  /\ acked' = {}
  /\ IF result.kind = "transport"
     THEN sizer' = NewSizer /\ refused' = Negotiated + 1
     ELSE UNCHANGED <<sizer, refused>>
  /\ UNCHANGED <<maxItems, chunk, reply>>

Step == Build \/ ServeOk \/ ServeFailure \/ LoseReply \/ Handle
Next == Step \/ NextCall

\* A call runs to its end: the client loop is sequential, and every request is
\* answered or fails at the RPC timeout.  Nobody owes a next call.
Spec == Init /\ [][Next]_vars /\ WF_vars(Step)

-----------------------------------------------------------------------------
(* Properties *)

\* "Never replay an uncertain OPEN, WRITE, or completed prefix": however the
\* call is split, resized and resent, the server reaches the mutating
\* operation of an item at most once.
MutationAtMostOnce ==
  ~ReadOnly => \A i \in Items : attempts[i] <= 1

\* An error names the item that failed: every item before the returned index
\* was answered in full and no later item was ever attempted.
ErrorSplitsBatch ==
  result.kind = "op" =>
    /\ 1..(result.idx - 1) \subseteq acked
    /\ ~ReadOnly => \A i \in Items : i > result.idx => attempts[i] = 0

\* Results are delivered in request order, each from its own item's reply, and
\* the call succeeds only with one result per item.
ResultsInOrder ==
  /\ out = [i \in 1..Len(out) |-> i]
  /\ 1..Len(out) \subseteq acked
  /\ result.kind = "ok" => Len(out) = N

\* on_failure (which closes the OPENs of a failed openv) is given every item
\* a received reply proved complete: none is left behind on the server.  A
\* read-only batch leaves nothing there, and may ask again for an item that a
\* reply without the failing operation's status had answered.
CleanupCoversAcked ==
  ~ReadOnly /\ result.kind \in {"op", "transport"} => acked = 1..Len(cleaned)

\* Sizes the server refused with TOO_MANY_OPS are never sent again, except
\* the single item that cannot be made smaller; no COMPOUND exceeds the
\* negotiated operation count.
RefusedSizesAvoided ==
  pc = "sent" => /\ OpsOf(chunk.len) <= Negotiated
                 /\ OpsOf(chunk.len) < refused \/ chunk.len = 1

\* What a call reports is what happened: its results, the index of its error,
\* the list it gives to on_failure and the sizes it learned agree with what
\* the server answered, however batch_ops_fallible split the items.
RepliesAccounted ==
  ResultsInOrder /\ ErrorSplitsBatch /\ CleanupCoversAcked /\ RefusedSizesAvoided

\* Every call returns: resizing, halving and partial progress cannot loop.
CallReturns == (pc = "build") ~> (pc = "done")

-----------------------------------------------------------------------------
(* Instances for TLC.  The window constants of the configurations keep the  *)
(* ratios of the code (start below the negotiated maximum, small growth) at *)
(* a scale where halving, growth and the one-item floor all occur.          *)

\* Items 2 and 3 are large: they never share a request.
MCFits == {r \in Items \X Items : ~({2, 3} \subseteq r[1]..(r[1] + r[2] - 1))}

\* As above, and item 4 alone exceeds the request size: the call fails half-way.
MCFitsNot4 == {r \in MCFits : 4 \notin r[1]..(r[1] + r[2] - 1)}
=============================================================================
