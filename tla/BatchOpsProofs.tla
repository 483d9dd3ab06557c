--------------------------- MODULE BatchOpsProofs ---------------------------
(* Proofs about BatchOps, for every number of items and every window.      *)
EXTENDS BatchOps, TLAPS

\* The chunk under way starts right after the answered items.
ChunkInv ==
  pc \in {"sent", "replied"} =>
    /\ chunk.first = global + 1
    /\ chunk.len \in 1..(N - global)

\* Where a mutation may already have been attempted: never past the answered
\* items before a COMPOUND is sent, never past the chunk before its reply is
\* applied, and nowhere in a chunk that was rejected before its first mutation.
AttemptInv ==
  ~ReadOnly =>
    /\ \A i \in Items : attempts[i] \in {0, 1}
    /\ pc \in {"build", "sent"} => \A i \in Items : i > global => attempts[i] = 0
    /\ pc = "replied" =>
         /\ \A i \in Items : i >= chunk.first + chunk.len => attempts[i] = 0
         /\ reply.kind = "reply" /\ RejectedBeforeMutation(reply) =>
              \A i \in Items : i > global => attempts[i] = 0

\* A call that goes on still has an item to send.
GlobalInv == pc # "done" => global < N

\* The reply under way speaks of operations of this chunk only.
ReplyInv ==
  pc = "replied" /\ reply.kind = "reply" =>
    /\ reply.bad <= PerOp * chunk.len
    /\ reply.nops <= PerOp * chunk.len + 1
    /\ reply.bad < 0 /\ reply.status # "OK" => reply.nops <= PerOp * chunk.len

Inv == TypeOK /\ GlobalInv /\ ChunkInv /\ ReplyInv /\ AttemptInv

LEMMA AtMostType ==
  ASSUME NEW n \in Nat, NEW m \in Nat
  PROVE  AtMost(n, m) \in Nat /\ AtMost(n, m) <= n /\ AtMost(n, m) <= m
BY DEF AtMost

LEMMA SucceededType ==
  ASSUME NEW s \in Sizer, NEW a \in Nat
  PROVE  Succeeded(s, a) \in Sizer
<1>1. AtMost(s.current + Grow, s.ceiling) \in Nat
  BY SizerConstants DEF Sizer, AtMost
<1> DEFINE grown == [s EXCEPT !.current = AtMost(s.current + Grow, s.ceiling),
                             !.successes = 0]
           counted == [s EXCEPT !.successes = s.successes + 1]
<1>2. grown \in Sizer
  BY <1>1, Zenon DEF Sizer
<1>3. counted \in Sizer
  BY DEF Sizer
<1>4. Succeeded(s, a) \in {s, grown, counted}
  BY DEF Succeeded
<1> QED
  BY <1>2, <1>3, <1>4

LEMMA ResourceRejectedType ==
  ASSUME NEW s \in Sizer, NEW a \in Nat
  PROVE  ResourceRejected(s, a) \in Sizer
<1>1. AtMost(s.current, AtLeast1(a \div 2)) \in Nat
  BY DEF Sizer, AtMost, AtLeast1
<1>2. AtMost(s.backoff + 1, MaxBackoff) \in Nat
  BY SizerConstants DEF Sizer, AtMost
<1> QED
  BY <1>1, <1>2, Zenon DEF ResourceRejected, Sizer

LEMMA OpLimitRejectedType ==
  ASSUME NEW s \in Sizer, NEW a \in Nat
  PROVE  OpLimitRejected(s, a) \in Sizer
<1>1. AtMost(s.current, AtLeast1(a \div 2)) \in Nat
  BY DEF Sizer, AtMost, AtLeast1
<1>2. a > 1 => AtMost(s.ceiling, a - 1) \in Nat
  BY DEF Sizer, AtMost
<1> QED
  BY <1>1, <1>2, Zenon DEF OpLimitRejected, Sizer

LEMMA ObserveType ==
  ASSUME NEW s \in Sizer, NEW a \in Nat, NEW st \in Errors \cup {"OK"}
  PROVE  Observe(s, a, st) \in Sizer
BY SucceededType, ResourceRejectedType, OpLimitRejectedType
   DEF Observe, Errors, Limits

LEMMA NewSizerType == NewSizer \in Sizer
BY SizerConstants DEF NewSizer, Sizer, AtMost, AtLeast1

\* PerOp is one of three numbers, which keeps the arithmetic linear.
LEMMA MutationAfterPutfh ==
  ASSUME NEW d \in Nat
  PROVE  1 + PerOp * d + MutOp >= 2
<1>1. PerOp = 2 \/ PerOp = 3 \/ PerOp = 4
  BY BatchConstants
<1> QED
  BY <1>1, BatchConstants

LEMMA BudgetBound ==
  ASSUME NEW s \in Sizer
  PROVE  /\ OpBudget(s) \in Nat /\ OpBudget(s) <= Negotiated
         /\ Capacity(s) # 0 => /\ Capacity(s) \in Nat \ {0}
                               /\ PerOp * Capacity(s) < Negotiated
<1>1. OpBudget(s) \in Nat /\ OpBudget(s) <= Negotiated
  BY SizerConstants, BatchConstants DEF OpBudget, AtMost, Sizer
<1>2. PerOp = 2 \/ PerOp = 3 \/ PerOp = 4
  BY BatchConstants
<1>3. ASSUME Capacity(s) # 0
      PROVE  /\ Capacity(s) \in Nat \ {0}
             /\ PerOp * Capacity(s) < Negotiated
  <2> DEFINE b == AtLeast1(OpBudget(s))
  <2>1. b \in Nat /\ b >= 1 /\ (b <= Negotiated \/ b = 1)
    BY <1>1, SizerConstants DEF AtLeast1
  <2>2. (b - 1) \div PerOp # 0
    BY <1>3 DEF Capacity
  <2> HIDE DEF b
  <2>3. CASE PerOp = 2
    BY <2>1, <2>2, <2>3, SizerConstants DEF Capacity, b
  <2>4. CASE PerOp = 3
    BY <2>1, <2>2, <2>4, SizerConstants DEF Capacity, b
  <2>5. CASE PerOp = 4
    BY <2>1, <2>2, <2>5, SizerConstants DEF Capacity, b
  <2> QED
    BY <1>2, <2>3, <2>4, <2>5
<1> QED
  BY <1>1, <1>3

\* Records of the three record sets, so that proofs need not open them.
LEMMA ResultType ==
  ASSUME NEW k \in {"pending", "ok", "op", "invalid", "transport"}, NEW n \in Nat
  PROVE  [kind |-> k, idx |-> n] \in Results
BY DEF Results

LEMMA ChunkType ==
  ASSUME NEW f \in Nat, NEW n \in Nat
  PROVE  [first |-> f, len |-> n] \in Chunks
BY DEF Chunks

LEMMA ReplyType ==
  ASSUME NEW k \in {"none", "reply", "lost", "toobig"}, NEW n \in Nat, NEW b \in Int,
         NEW st \in Errors \cup {"OK"}, NEW o \in Nat
  PROVE  [kind |-> k, nops |-> n, bad |-> b, status |-> st, over |-> o] \in Replies
BY DEF Replies

LEMMA NoReplyType ==
  /\ NoReply \in Replies
  /\ \A k \in {"lost", "toobig"} :
       /\ [NoReply EXCEPT !.kind = k] \in Replies
       /\ [NoReply EXCEPT !.kind = k].kind = k
BY DEF NoReply, Replies

LEMMA InitInv == Init => Inv
<1> SUFFICES ASSUME Init PROVE Inv
  OBVIOUS
<1> USE BatchConstants, SizerConstants
<1>0. Pending \in Results /\ [first |-> 1, len |-> 0] \in Chunks
  BY ResultType, ChunkType DEF Pending
<1>1. TypeOK
  BY <1>0, NewSizerType, NoReplyType DEF Init, TypeOK, Unlimited
<1>2. ChunkInv
  BY DEF Init, ChunkInv
<1>3. AttemptInv
  BY DEF Init, AttemptInv, Items
<1>4. GlobalInv
  BY DEF Init, GlobalInv
<1> QED
  BY <1>1, <1>2, <1>3, <1>4 DEF Inv, Init, ReplyInv

LEMMA BuildInv == Inv /\ Build => Inv'
<1> SUFFICES ASSUME Inv, Build PROVE Inv'
  OBVIOUS
<1> USE BatchConstants, SizerConstants
<1> DEFINE len == AtMost(AtMost(Capacity(sizer), maxItems), N - global)
<1>1. sizer \in Sizer
  BY DEF Inv, TypeOK
<1>2. CASE Capacity(sizer) = 0
  <2>1. TypeOK'
    BY <1>2, ResultType DEF Inv, TypeOK, Build, Return, server
  <2> QED
    BY <1>2, <2>1 DEF Inv, Build, Return, server, ChunkInv, AttemptInv, GlobalInv, ReplyInv
<1>3. CASE Capacity(sizer) # 0
  <2>1. global < N
    BY DEF Inv, GlobalInv, Build
  <2>2. len \in 1..(N - global)
    BY <1>1, <1>3, <2>1, BudgetBound DEF Inv, TypeOK, AtMost, Unlimited
  <2>3. PICK n \in 1..(N - global) :
        /\ chunk' = [first |-> global + 1, len |-> n]
        /\ UNCHANGED <<global, out, cleaned, result, sizer, attempts, acked, refused>>
        /\ \/ maxItems' = n \div 2 /\ n > 1 /\ UNCHANGED <<pc, reply>>
           \/ /\ maxItems' = Unlimited
              /\ \/ pc' = "sent" /\ UNCHANGED reply
                 \/ /\ pc' = "replied"
                    /\ reply' = [NoReply EXCEPT !.kind = "toobig"]
    BY <1>3, <2>2, Zenon DEF Build, server
  <2>4. TypeOK'
    <3>1. global \in Nat /\ N \in Nat /\ n \in Nat
      BY DEF Inv, TypeOK
    <3>2. chunk' \in Chunks
      BY <2>3, <3>1, ChunkType
    <3>3. reply' \in Replies
      BY <2>3, NoReplyType, Zenon DEF Inv, TypeOK
    <3>4. (maxItems' = n \div 2 /\ n > 1) \/ maxItems' = Unlimited
      BY <2>3
    <3>5. maxItems' \in 1..Unlimited
      BY <3>1, <3>4 DEF Unlimited
    <3> QED
      BY <2>3, <3>2, <3>3, <3>5, Zenon DEF Inv, TypeOK
  <2>5. ChunkInv'
    BY <2>3 DEF Inv, TypeOK, ChunkInv, Build
  <2>6. AttemptInv'
    <3>1. attempts' = attempts /\ global' = global /\ pc = "build"
      BY <2>3 DEF Build
    <3>2. pc' = "replied" => reply'.kind = "toobig"
      BY <2>3, NoReplyType, Zenon DEF Build
    <3>3. chunk'.first = global + 1 /\ chunk'.len \in Nat
      BY <2>3 DEF Inv, TypeOK
    <3> QED
      BY <3>1, <3>2, <3>3 DEF Inv, TypeOK, AttemptInv, Items
  <2>7. GlobalInv'
    BY <2>1, <2>3 DEF GlobalInv
  <2>8. ReplyInv'
    BY <2>3, NoReplyType, Zenon DEF ReplyInv, Build
  <2> QED
    BY <2>4, <2>5, <2>6, <2>7, <2>8 DEF Inv
<1> QED
  BY <1>2, <1>3

\* What the server may do to the mutation counters while a COMPOUND is out.
LEMMA ReachEffect ==
  ASSUME Inv, pc = "sent", NEW k \in Int, Reach(k)
  PROVE  /\ attempts' \in [Items -> Nat]
         /\ ~ReadOnly => \A i \in Items :
              /\ attempts'[i] \in {0, 1}
              /\ i >= chunk.first + chunk.len => attempts'[i] = 0
              /\ k <= 1 /\ i > global => attempts'[i] = 0
<1> USE BatchConstants
<1>1. attempts' \in [Items -> Nat]
  BY DEF Inv, TypeOK, Reach
<1>2. ASSUME ~ReadOnly, NEW i \in Items
      PROVE  /\ attempts'[i] \in {0, 1}
             /\ i >= chunk.first + chunk.len => attempts'[i] = 0
             /\ k <= 1 /\ i > global => attempts'[i] = 0
  <2>1. /\ chunk.first = global + 1 /\ chunk.len \in Nat /\ global \in Nat
        /\ i \in Nat
    BY DEF Inv, TypeOK, ChunkInv, Items
  <2>2. i > global => attempts[i] = 0
    BY <1>2 DEF Inv, AttemptInv
  <2>3. attempts[i] \in {0, 1}
    BY <1>2 DEF Inv, AttemptInv
  <2>4. attempts'[i] = attempts[i] \/ (i \in ChunkItems /\ attempts'[i] = attempts[i] + 1)
    BY DEF Reach
  <2>5. i \in ChunkItems => i > global /\ i < chunk.first + chunk.len
    BY <2>1 DEF ChunkItems
  <2>6. k <= 1 => attempts'[i] = attempts[i]
    <3>1. ASSUME i \in ChunkItems PROVE FirstOp(i) + MutOp >= 2
      <4>1. i - chunk.first \in Nat
        BY <2>1, <3>1 DEF ChunkItems
      <4> QED
        BY <4>1, MutationAfterPutfh DEF FirstOp
    <3>2. ASSUME i \in ChunkItems, k <= 1 PROVE ~(FirstOp(i) + MutOp <= k)
      <4>1. FirstOp(i) + MutOp \in Int
        BY <2>1 DEF FirstOp
      <4> QED
        BY <3>1, <3>2, <4>1
    <3> QED
      BY <3>2 DEF Reach
  <2> QED
    BY <2>1, <2>2, <2>3, <2>4, <2>5, <2>6
<1> QED
  BY <1>1, <1>2

\* The server answers, or the transport loses, one COMPOUND.
Served(k) ==
  /\ pc = "sent" /\ pc' = "replied"
  /\ Reach(k)
  /\ reply' \in Replies
  /\ reply'.kind = "reply" =>
       /\ RejectedBeforeMutation(reply') => k <= 1
       /\ reply'.bad <= PerOp * chunk.len
       /\ reply'.nops <= PerOp * chunk.len + 1
       /\ reply'.bad < 0 /\ reply'.status # "OK" => reply'.nops <= PerOp * chunk.len
  /\ sizer' \in Sizer /\ acked' \in SUBSET Items /\ refused' \in Nat
  /\ UNCHANGED <<global, maxItems, chunk, out, cleaned, result>>

LEMMA ServedInv ==
  ASSUME Inv, NEW k \in Int, Served(k)
  PROVE  Inv'
<1>1. pc = "sent" /\ Reach(k) /\ UNCHANGED <<global, chunk>> /\ pc' = "replied"
  BY DEF Served
<1>2. /\ attempts' \in [Items -> Nat]
      /\ ~ReadOnly => \A i \in Items :
           /\ attempts'[i] \in {0, 1}
           /\ i >= chunk.first + chunk.len => attempts'[i] = 0
           /\ k <= 1 /\ i > global => attempts'[i] = 0
  BY <1>1, ReachEffect
<1>3. TypeOK'
  BY <1>2 DEF Inv, TypeOK, Served
<1>4. ChunkInv' /\ GlobalInv' /\ ReplyInv'
  BY <1>1 DEF Inv, ChunkInv, GlobalInv, ReplyInv, Served
<1>5. AttemptInv'
  BY <1>1, <1>2 DEF AttemptInv, Served
<1> QED
  BY <1>3, <1>4, <1>5 DEF Inv

LEMMA OpsOfType ==
  ASSUME NEW n \in Nat
  PROVE  OpsOf(n) \in Nat
<1>1. PerOp = 2 \/ PerOp = 3 \/ PerOp = 4
  BY BatchConstants
<1> QED
  BY <1>1 DEF OpsOf

LEMMA OversizedType ==
  ASSUME NEW S \in SUBSET Items, NEW o \in Oversized(S)
  PROVE  o \in Nat
BY DEF Oversized, Items

LEMMA ServeOkInv == Inv /\ ServeOk => Inv'
<1> SUFFICES ASSUME Inv, ServeOk PROVE Inv'
  OBVIOUS
<1> USE BatchConstants
<1> DEFINE k == LastOp(chunk.first + chunk.len - 1)
<1>1. chunk.first \in Nat /\ chunk.len \in Nat /\ sizer \in Sizer
  BY DEF Inv, TypeOK, Chunks
<1>2. k \in Int
  BY <1>1 DEF LastOp
<1>3. OpsOf(chunk.len) \in Nat
  BY <1>1, OpsOfType
<1>4. PICK over \in Oversized(ChunkItems) :
        reply' = [kind |-> "reply", nops |-> OpsOf(chunk.len), bad |-> -1,
                  status |-> "OK", over |-> over]
  BY DEF ServeOk
<1>5. reply' \in Replies
  <2>1. over \in Nat
    BY OversizedType DEF ChunkItems
  <2> QED
    BY <1>3, <1>4, <2>1, ReplyType
<1>6. ~RejectedBeforeMutation(reply')
  BY <1>4 DEF RejectedBeforeMutation, Limits
<1>9. PerOp * chunk.len \in Nat
  BY <1>1
<1>10. /\ reply'.bad <= PerOp * chunk.len
       /\ reply'.nops <= PerOp * chunk.len + 1
       /\ reply'.status = "OK"
  BY <1>4, <1>9 DEF OpsOf
<1>7. sizer' \in Sizer
  BY <1>1, <1>3, ObserveType DEF ServeOk
<1>8. Served(k)
  BY <1>5, <1>6, <1>7, <1>10 DEF Served, ServeOk, Inv, TypeOK, ChunkItems
<1> QED
  BY <1>2, <1>8, ServedInv

LEMMA ServeFailureInv == Inv /\ ServeFailure => Inv'
<1> SUFFICES ASSUME Inv, ServeFailure PROVE Inv'
  OBVIOUS
<1> USE BatchConstants
<1> DEFINE complete(k) == {i \in ChunkItems : LastOp(i) < k}
<1>1. chunk.first \in Nat /\ chunk.len \in Nat /\ sizer \in Sizer
  BY DEF Inv, TypeOK, Chunks
<1>2. OpsOf(chunk.len) \in Nat
  BY <1>1, OpsOfType
<1>3. PICK k \in 0..(PerOp * chunk.len), status \in Errors, reported \in BOOLEAN :
        /\ \E over \in Oversized(complete(k)) :
             reply' = [kind   |-> "reply",
                       nops   |-> IF reported THEN k + 1 ELSE k,
                       bad    |-> IF reported THEN k ELSE -1,
                       status |-> status,
                       over   |-> over]
        /\ Reach(k)
        /\ acked' = acked \cup complete(k)
        /\ sizer' = Observe(sizer, OpsOf(chunk.len), status)
        /\ refused' = IF status = "TOO_MANY_OPS"
                      THEN AtMost(refused, OpsOf(chunk.len)) ELSE refused
  BY Zenon DEF ServeFailure
<1>4. k \in Nat
  OBVIOUS
<1>5. PICK over \in Oversized(complete(k)) :
             reply' = [kind   |-> "reply",
                       nops   |-> IF reported THEN k + 1 ELSE k,
                       bad    |-> IF reported THEN k ELSE -1,
                       status |-> status,
                       over   |-> over]
  BY <1>3, Zenon
<1>6. reply' \in Replies
  <2>1. over \in Nat
    BY OversizedType DEF ChunkItems
  <2>2. /\ (IF reported THEN k + 1 ELSE k) \in Nat
        /\ (IF reported THEN k ELSE -1) \in Int
    BY <1>4
  <2> QED
    BY <1>5, <2>1, <2>2, ReplyType
<1>7. RejectedBeforeMutation(reply') => k <= 1
  BY <1>4, <1>5 DEF RejectedBeforeMutation
<1>8. sizer' \in Sizer
  BY <1>1, <1>2, <1>3, ObserveType
<1>9. refused' \in Nat
  BY <1>2, <1>3, AtMostType DEF Inv, TypeOK
<1>10. PerOp * chunk.len \in Nat
  BY <1>1
<1>11. /\ reply'.bad <= PerOp * chunk.len
       /\ reply'.nops <= PerOp * chunk.len + 1
       /\ reply'.bad < 0 => reply'.nops <= PerOp * chunk.len
  BY <1>4, <1>5, <1>10
<1>12. Served(k)
  BY <1>3, <1>6, <1>7, <1>8, <1>9, <1>11 DEF Served, ServeFailure, Inv, TypeOK, ChunkItems
<1> QED
  BY <1>4, <1>12, ServedInv

LEMMA LoseReplyInv == Inv /\ LoseReply => Inv'
<1> SUFFICES ASSUME Inv, LoseReply PROVE Inv'
  OBVIOUS
<1>1. PICK k \in 0..(PerOp * chunk.len) : Reach(k)
  BY DEF LoseReply
<1>2. reply' \in Replies /\ reply'.kind = "lost"
  BY NoReplyType DEF LoseReply
<1>3. Served(k)
  BY <1>1, <1>2 DEF Served, LoseReply, Inv, TypeOK
<1> QED
  BY <1>3, ServedInv

\* Whole items before an operation of the chunk are a proper part of it.
LEMMA BeforeBound ==
  ASSUME NEW op \in Int, NEW n \in Nat \ {0}, op <= PerOp * n
  PROVE  Before(op) \in 0..(n - 1)
<1>1. PerOp = 2 \/ PerOp = 3 \/ PerOp = 4
  BY BatchConstants
<1>2. CASE PerOp = 2
  BY <1>2 DEF Before
<1>3. CASE PerOp = 3
  BY <1>3 DEF Before
<1>4. CASE PerOp = 4
  BY <1>4 DEF Before
<1> QED
  BY <1>1, <1>2, <1>3, <1>4

LEMMA PrefixType ==
  ASSUME Inv, pc = "replied", NEW n \in 0..chunk.len
  PROVE  Prefix(n) \in Seq(Items)
<1>1. /\ chunk.first = global + 1 /\ chunk.len \in 1..(N - global)
      /\ global \in Nat /\ N \in Nat
  BY BatchConstants DEF Inv, TypeOK, ChunkInv
<1>2. \A i \in 1..n : chunk.first + i - 1 \in Items
  BY <1>1 DEF Items
<1>3. n \in Nat
  BY <1>1
<1> QED
  BY <1>2, <1>3 DEF Prefix

\* What every alternative of Handle leaves behind.
Handled ==
  /\ pc' \in {"build", "done"}
  /\ global' \in 0..N
  /\ out' \in Seq(Items) /\ cleaned' \in Seq(Items)
  /\ result' \in Results
  /\ pc' = "build" =>
       /\ global' < N
       /\ ~ReadOnly => \A i \in Items : i > global' => attempts[i] = 0

\* The part of the chunk the client keeps is a part of the chunk.
LEMMA HandleRange ==
  ASSUME Inv, pc = "replied"
  PROVE  /\ chunk.first = global + 1 /\ chunk.len \in 1..(N - global)
         /\ global \in Nat /\ N \in Nat /\ chunk.len \in Nat \ {0}
         /\ CallerIndex(0) \in Nat
         /\ reply.kind = "reply" =>
              /\ Before(reply.bad) \in 0..(chunk.len - 1)
              /\ reply.status # "OK" =>
                   /\ Before(BlamedOp) \in 0..(chunk.len - 1)
                   /\ CallerIndex(BlamedOp) = chunk.first + Before(BlamedOp)
<1> USE BatchConstants
<1>1. /\ chunk.first = global + 1 /\ chunk.len \in 1..(N - global)
      /\ global \in Nat /\ N \in Nat /\ chunk.len \in Nat \ {0}
  BY DEF Inv, TypeOK, ChunkInv
<1>2. reply.nops \in Nat /\ reply.bad \in Int
  BY DEF Inv, TypeOK, Replies
<1>3. PerOp * chunk.len \in Nat \ {0}
  <2>1. PerOp = 2 \/ PerOp = 3 \/ PerOp = 4
    OBVIOUS
  <2> QED
    BY <1>1, <2>1
<1>4. CallerIndex(0) \in Nat
  BY <1>1 DEF CallerIndex, Before, AtMost
<1>5. ASSUME reply.kind = "reply"
      PROVE  Before(reply.bad) \in 0..(chunk.len - 1)
  BY <1>1, <1>2, <1>5, BeforeBound DEF Inv, ReplyInv
<1>6. ASSUME reply.kind = "reply", reply.status # "OK"
      PROVE  /\ Before(BlamedOp) \in 0..(chunk.len - 1)
             /\ CallerIndex(BlamedOp) = chunk.first + Before(BlamedOp)
  <2>1. BlamedOp \in Int /\ BlamedOp <= PerOp * chunk.len
    BY <1>2, <1>3, <1>6 DEF BlamedOp, Inv, ReplyInv
  <2>2. Before(BlamedOp) \in 0..(chunk.len - 1)
    BY <1>1, <2>1, BeforeBound
  <2> QED
    BY <1>1, <2>2 DEF CallerIndex, AtMost
<1> QED
  BY <1>1, <1>4, <1>5, <1>6

LEMMA BadPayloadHandled ==
  ASSUME Inv, pc = "replied", NEW n \in Nat, HandleBadPayload(n)
  PROVE  Handled
<1>1. /\ chunk.first = global + 1 /\ global \in Nat
      /\ reply.over \in Nat /\ Len(out) \in Nat
      /\ global \in 0..N /\ out \in Seq(Items) /\ cleaned \in Seq(Items)
  BY HandleRange DEF Inv, TypeOK, Replies
<1>2. reply.over >= chunk.first
  BY <1>1, HandleRange DEF HandleBadPayload, Decodes
<1>3. Len(out) + reply.over - chunk.first + 1 \in Nat
  BY <1>1, <1>2
<1>4. result' \in Results
  BY <1>3, ResultType DEF HandleBadPayload, Return
<1> QED
  BY <1>1, <1>4 DEF HandleBadPayload, Return, Handled

LEMMA HandleHandled ==
  ASSUME Inv, Handle
  PROVE  Handled
<1> USE BatchConstants
<1>1. pc = "replied" /\ UNCHANGED <<maxItems, chunk, sizer, attempts, acked, refused>>
      /\ reply' = NoReply
  BY DEF Handle, server
<1>2. /\ chunk.first = global + 1 /\ chunk.len \in 1..(N - global)
      /\ global \in Nat /\ N \in Nat /\ chunk.len \in Nat \ {0}
      /\ global \in 0..N
      /\ out \in Seq(Items) /\ cleaned \in Seq(Items) /\ result \in Results
  BY <1>1, HandleRange DEF Inv, TypeOK
<1>3. CASE HandleNoReply
  <2>1. result' \in Results
    BY <1>1, <1>3, HandleRange, ResultType DEF HandleNoReply, Return
  <2> QED
    BY <1>2, <1>3, <2>1 DEF HandleNoReply, Return, Handled
<1>4. CASE HandleRetryWhole
  <2>1. global < N
    BY <1>1 DEF Inv, GlobalInv
  <2>2. ~ReadOnly => \A i \in Items : i > global => attempts[i] = 0
    BY <1>1, <1>4 DEF HandleRetryWhole, CanRetryWhole, Inv, AttemptInv
  <2> QED
    BY <1>2, <1>4, <2>1, <2>2 DEF HandleRetryWhole, Handled
<1>5. CASE HandleKeepPrefix
  <2> DEFINE n == Before(reply.bad)
  <2>1. n \in 0..(chunk.len - 1) /\ ReadOnly
    BY <1>1, <1>5, HandleRange DEF HandleKeepPrefix, CanKeepPrefix
  <2>2. Prefix(n) \in Seq(Items)
    BY <1>1, <1>2, <2>1, PrefixType
  <2>3. CASE HandleBadPayload(n)
    BY <1>1, <1>2, <2>1, <2>3, BadPayloadHandled
  <2>4. CASE ~HandleBadPayload(n)
    <3>1. /\ out' = out \o Prefix(n) /\ global' = global + n /\ pc' = "build"
          /\ UNCHANGED <<cleaned, result>>
      BY <1>5, <2>4 DEF HandleKeepPrefix
    <3>2. global' \in 0..N /\ global' < N
      BY <1>2, <2>1, <3>1, SMTT(30)
    <3> QED
      BY <1>2, <2>1, <2>2, <3>1, <3>2 DEF Handled
  <2> QED
    BY <2>3, <2>4
<1>6. CASE HandleFailure
  <2> DEFINE n == AtMost(Before(BlamedOp), chunk.len)
  <2>1. n \in 0..chunk.len /\ CallerIndex(BlamedOp) \in Nat
    BY <1>1, <1>2, <1>6, HandleRange DEF HandleFailure, AtMost
  <2>2. Prefix(n) \in Seq(Items)
    BY <1>1, <2>1, PrefixType
  <2>3. CASE HandleBadPayload(n)
    BY <1>1, <1>2, <2>1, <2>3, BadPayloadHandled
  <2>4. CASE ~HandleBadPayload(n)
    <3>1. /\ out' = out \o Prefix(n) /\ cleaned' = out' /\ global' = global
          /\ Return("op", CallerIndex(BlamedOp))
      BY <1>6, <2>4 DEF HandleFailure
    <3>2. result' \in Results
      BY <2>1, <3>1, ResultType DEF Return
    <3> QED
      BY <1>2, <2>2, <3>1, <3>2 DEF Handled, Return
  <2> QED
    BY <2>3, <2>4
<1>7. CASE HandleSuccess
  <2>1. Prefix(chunk.len) \in Seq(Items)
    BY <1>1, <1>2, PrefixType
  <2>2. CASE HandleBadPayload(chunk.len)
    BY <1>1, <1>2, <2>2, BadPayloadHandled
  <2>3. CASE ~HandleBadPayload(chunk.len)
    <3>1. /\ out' = out \o Prefix(chunk.len) /\ global' = global + chunk.len
          /\ cleaned' = cleaned
          /\ \/ global' = N /\ pc' = "done" /\ result' = [kind |-> "ok", idx |-> 0]
             \/ global' # N /\ pc' = "build" /\ result' = result
      BY <1>7, <2>3 DEF HandleSuccess, Return
    <3>2. result' \in Results
      BY <1>2, <3>1, ResultType
    <3>3. global' \in 0..N
      BY <1>2, <3>1
    <3>4. pc' = "build" => global' < N
      BY <3>1, <3>3
    <3>5. ~ReadOnly => \A i \in Items : i > global' => attempts[i] = 0
      BY <1>1, <1>2, <3>1 DEF Inv, AttemptInv, Items
    <3> QED
      BY <1>2, <2>1, <3>1, <3>2, <3>3, <3>4, <3>5 DEF Handled
  <2> QED
    BY <2>2, <2>3
<1> QED
  BY <1>3, <1>4, <1>5, <1>6, <1>7 DEF Handle

LEMMA HandleInv == Inv /\ Handle => Inv'
<1> SUFFICES ASSUME Inv, Handle PROVE Inv'
  OBVIOUS
<1>1. /\ UNCHANGED <<maxItems, chunk, sizer, attempts, acked, refused>>
      /\ reply' = NoReply
  BY DEF Handle, server
<1>2. Handled
  BY HandleHandled
<1>3. TypeOK'
  BY <1>1, <1>2, NoReplyType DEF Inv, TypeOK, Handled
<1>4. GlobalInv' /\ ChunkInv' /\ ReplyInv'
  BY <1>2 DEF Handled, GlobalInv, ChunkInv, ReplyInv
<1>5. AttemptInv'
  BY <1>1, <1>2 DEF Inv, AttemptInv, Handled
<1> QED
  BY <1>3, <1>4, <1>5 DEF Inv

LEMMA NextCallInv == Inv /\ NextCall => Inv'
<1> SUFFICES ASSUME Inv, NextCall PROVE Inv'
  OBVIOUS
<1> USE BatchConstants, SizerConstants
<1>1. Pending \in Results
  BY ResultType DEF Pending
<1>2. sizer' \in Sizer /\ refused' \in Nat
  BY NewSizerType DEF NextCall, Inv, TypeOK
<1>3. TypeOK'
  BY <1>1, <1>2 DEF NextCall, Inv, TypeOK
<1>4. GlobalInv' /\ ChunkInv' /\ ReplyInv'
  BY DEF NextCall, GlobalInv, ChunkInv, ReplyInv
<1>5. AttemptInv'
  BY DEF NextCall, AttemptInv
<1> QED
  BY <1>3, <1>4, <1>5 DEF Inv

LEMMA NextInv == Inv /\ [Next]_vars => Inv'
<1>1. Inv /\ UNCHANGED vars => Inv'
  BY DEF vars, Inv, TypeOK, GlobalInv, ChunkInv, ReplyInv, AttemptInv
<1> QED
  BY <1>1, BuildInv, ServeOkInv, ServeFailureInv, LoseReplyInv, HandleInv,
     NextCallInv DEF Next, Step

\* The inductive invariant of batch_ops_fallible_with_failure holds in every state.
THEOREM Invariance == Spec => []Inv
BY InitInv, NextInv, PTL DEF Spec

\* batch_ops never replays a mutation: for every batch, shape, window and
\* sequence of replies and losses the server reaches an item's mutating
\* operation at most once per call.
THEOREM NoMutationReplayed == Spec => []MutationAtMostOnce
<1>1. Inv => MutationAtMostOnce
  BY DEF Inv, AttemptInv, MutationAtMostOnce
<1> QED
  BY <1>1, Invariance, PTL

\* The variables of a call keep their types; in particular the items sent are
\* items of the call.
THEOREM TypeCorrect == Spec => []TypeOK
<1>1. Inv => TypeOK
  BY DEF Inv
<1> QED
  BY <1>1, Invariance, PTL

-----------------------------------------------------------------------------
(* What a call reports is what happened.                                   *)

\* The items of the chunk a received reply answers.
Known == IF reply.status = "OK" THEN chunk.len ELSE Before(BlamedOp)

\* The items of the call answered so far, a reply not yet applied included.
Answered ==
  IF pc = "replied" /\ reply.kind = "reply" THEN global + Known ELSE global

\* The learned window stays below every size the server refused, a COMPOUND
\* under way is one the window allows, and without room for one item no item
\* is ever sent.
SizeInv ==
  /\ Negotiated > 0 => sizer.current <= sizer.ceiling /\ sizer.ceiling < refused
  /\ RefusedSizesAvoided
  /\ Negotiated <= PerOp => global = 0 /\ pc \in {"build", "done"}

\* A reply ends at the operation that failed, and no item after the blamed one
\* was attempted; only a single item is refused for its size.
BlameInv ==
  pc = "replied" =>
    /\ reply.kind \in {"reply", "lost", "toobig"}
    /\ reply.kind = "toobig" => chunk.len = 1
    /\ reply.kind = "reply" =>
         /\ reply.bad >= 0 => reply.nops = reply.bad + 1
         /\ reply.status # "OK" /\ ~ReadOnly =>
              \A i \in Items : i > chunk.first + Before(BlamedOp) => attempts[i] = 0

\* While the call runs, the answered items are the first ones.
AckInv ==
  pc # "done" => /\ 1..Answered \subseteq acked
                 /\ ~ReadOnly => acked \subseteq 1..Answered

\* The results so far are those of the answered items, and a call that goes on
\* has returned nothing.
ReportInv ==
  /\ ResultsInOrder /\ ErrorSplitsBatch /\ CleanupCoversAcked
  /\ pc # "done" => Len(out) = global /\ result.kind = "pending"

AccountInv == SizeInv /\ BlameInv /\ AckInv /\ ReportInv

LEMMA ObserveBelow ==
  ASSUME NEW s \in Sizer, s.current <= s.ceiling, NEW a \in Nat, a >= 2,
         NEW st \in Errors \cup {"OK"}
  PROVE  /\ Observe(s, a, st).current <= Observe(s, a, st).ceiling
         /\ Observe(s, a, st).ceiling <= s.ceiling
         /\ st = "TOO_MANY_OPS" => Observe(s, a, st).ceiling < a
<1> USE SizerConstants
<1>0. s.current \in Nat /\ s.ceiling \in Nat
  BY DEF Sizer
<1>1. CASE st = "OK"
  <2> DEFINE c == AtMost(s.current + Grow, s.ceiling)
  <2>1. c \in Nat /\ c <= s.ceiling
    BY <1>0 DEF AtMost
  <2>2. Observe(s, a, st) = Succeeded(s, a)
    BY <1>1 DEF Observe
  <2>3. /\ Succeeded(s, a).ceiling = s.ceiling
        /\ Succeeded(s, a).current = s.current \/ Succeeded(s, a).current = c
    <3> HIDE DEF c
    <3>1. \/ Succeeded(s, a) = s
          \/ Succeeded(s, a) = [s EXCEPT !.current = c, !.successes = 0]
          \/ Succeeded(s, a) = [s EXCEPT !.successes = s.successes + 1]
      BY Zenon DEF Succeeded, c
    <3> QED
      BY <3>1, Zenon DEF Sizer
  <2> QED
    BY <1>0, <1>1, <2>1, <2>2, <2>3
<1>2. CASE st = "RESOURCE"
  <2> DEFINE c == AtMost(s.current, AtLeast1(a \div 2))
  <2>1. c \in Nat /\ c <= s.current
    BY <1>0 DEF AtMost, AtLeast1
  <2>2. Observe(s, a, st) = ResourceRejected(s, a)
    BY <1>2 DEF Observe
  <2>3. ResourceRejected(s, a).ceiling = s.ceiling /\ ResourceRejected(s, a).current = c
    BY Zenon DEF ResourceRejected, Sizer
  <2> QED
    BY <1>0, <1>2, <2>1, <2>2, <2>3
<1>3. CASE st = "TOO_MANY_OPS"
  <2> DEFINE c == AtMost(s.current, AtLeast1(a \div 2))
             d == AtMost(s.ceiling, a - 1)
  <2>1. c \in Nat /\ d \in Nat /\ c <= d /\ d <= s.ceiling /\ d < a
    BY <1>0 DEF AtMost, AtLeast1
  <2>2. Observe(s, a, st) = OpLimitRejected(s, a)
    BY <1>3 DEF Observe
  <2>3. OpLimitRejected(s, a).ceiling = d /\ OpLimitRejected(s, a).current = c
    <3> HIDE DEF c, d
    <3>1. OpLimitRejected(s, a) = [s EXCEPT !.ceiling = d, !.current = c, !.successes = 0]
      BY DEF OpLimitRejected, c, d
    <3> QED
      BY <3>1, Zenon DEF Sizer
  <2> QED
    BY <2>1, <2>2, <2>3
<1>4. CASE st = "OTHER"
  BY <1>0, <1>4 DEF Observe
<1> QED
  BY <1>1, <1>2, <1>3, <1>4 DEF Errors, Limits

\* A chunk within the capacity is within the window, unless it is one item.
LEMMA CapacityBelow ==
  ASSUME NEW s \in Sizer, NEW n \in Nat \ {0}, n <= Capacity(s)
  PROVE  /\ OpsOf(n) <= Negotiated
         /\ OpsOf(n) <= s.current \/ n = 1
<1> DEFINE b == OpBudget(s)
<1>1. /\ b \in Nat /\ b <= Negotiated /\ s.current \in Nat
      /\ b <= s.current \/ b <= 1 + PerOp
  BY SizerConstants, BatchConstants DEF OpBudget, AtMost, Sizer
<1>2. n <= (AtLeast1(b) - 1) \div PerOp
  BY DEF Capacity
<1> HIDE DEF b
<1>3. PerOp = 2 \/ PerOp = 3 \/ PerOp = 4
  BY BatchConstants
<1>4. 1 + PerOp * n <= b /\ (b <= 1 + PerOp => n = 1)
  <2>1. CASE PerOp = 2
    BY <1>1, <1>2, <2>1 DEF AtLeast1
  <2>2. CASE PerOp = 3
    BY <1>1, <1>2, <2>2 DEF AtLeast1
  <2>3. CASE PerOp = 4
    BY <1>1, <1>2, <2>3 DEF AtLeast1
  <2> QED
    BY <1>3, <2>1, <2>2, <2>3
<1> QED
  BY <1>1, <1>3, <1>4, SizerConstants DEF OpsOf

\* The window leaves room for one item exactly when the session does.
LEMMA CapacityRoom ==
  ASSUME NEW s \in Sizer
  PROVE  Capacity(s) = 0 <=> Negotiated <= PerOp
<1> DEFINE b == OpBudget(s)
<1>1. /\ b \in Nat /\ b <= Negotiated
      /\ Negotiated > PerOp => b >= 1 + PerOp
  BY SizerConstants, BatchConstants DEF OpBudget, AtMost, Sizer
<1>2. Capacity(s) = (AtLeast1(b) - 1) \div PerOp
  BY DEF Capacity
<1> HIDE DEF b
<1>3. PerOp = 2 \/ PerOp = 3 \/ PerOp = 4
  BY BatchConstants
<1>4. CASE PerOp = 2
  BY <1>1, <1>2, <1>4, SizerConstants DEF AtLeast1
<1>5. CASE PerOp = 3
  BY <1>1, <1>2, <1>5, SizerConstants DEF AtLeast1
<1>6. CASE PerOp = 4
  BY <1>1, <1>2, <1>6, SizerConstants DEF AtLeast1
<1> QED
  BY <1>3, <1>4, <1>5, <1>6

\* The results of the next n items continue the results so far.
LEMMA AppendPrefix ==
  ASSUME Inv, pc = "replied", NEW n \in 0..chunk.len,
         out = [i \in 1..Len(out) |-> i], Len(out) = global
  PROVE  /\ Len(out \o Prefix(n)) = global + n
         /\ out \o Prefix(n) = [i \in 1..Len(out \o Prefix(n)) |-> i]
<1> DEFINE s == out \o Prefix(n)
<1>1. /\ chunk.first = global + 1 /\ global \in Nat /\ n \in Nat
      /\ out \in Seq(Items)
  BY HandleRange DEF Inv, TypeOK
<1>2. Prefix(n) \in Seq(Items) /\ Len(Prefix(n)) = n
      /\ \A i \in 1..n : Prefix(n)[i] = chunk.first + i - 1
  <2>1. Prefix(n) \in Seq(Items)
    BY PrefixType
  <2>2. DOMAIN Prefix(n) = 1..n /\ \A i \in 1..n : Prefix(n)[i] = chunk.first + i - 1
    BY Zenon DEF Prefix
  <2> QED
    BY <1>1, <2>1, <2>2
<1>3. s \in Seq(Items) /\ Len(s) = global + n
  BY <1>1, <1>2
<1> HIDE DEF s
<1>4. \A i \in 1..(global + n) : s[i] = i
  <2> SUFFICES ASSUME NEW i \in 1..(global + n) PROVE s[i] = i
    OBVIOUS
  <2>1. CASE i <= global
    <3>1. i \in 1..Len(out) /\ out[i] = i
      BY <1>1, <2>1
    <3> QED
      BY <1>1, <1>2, <3>1 DEF s
  <2>2. CASE i > global
    <3>1. i - global \in 1..n
      BY <1>1, <2>2
    <3>2. s[i] = Prefix(n)[i - global]
      BY <1>1, <1>2, <2>2, <3>1 DEF s
    <3> QED
      BY <1>1, <1>2, <3>1, <3>2
  <2> QED
    BY <1>1, <2>1, <2>2
<1>5. s = [i \in 1..Len(s) |-> s[i]]
  BY <1>3
<1>6. s = [i \in 1..Len(s) |-> i]
  BY <1>3, <1>4, <1>5
<1> QED
  BY <1>3, <1>6 DEF s

\* Operation k is the first that failed: the items before its item are those
\* the reply proves complete.
LEMMA CompleteItems ==
  ASSUME Inv, pc = "sent", NEW k \in 0..(PerOp * chunk.len)
  PROVE  /\ {i \in ChunkItems : LastOp(i) < k} = (global + 1)..(global + Before(k))
         /\ ChunkItems = (global + 1)..(global + chunk.len)
         /\ Before(k) \in 0..(chunk.len - 1)
<1> USE BatchConstants
<1>1. /\ chunk.first = global + 1 /\ chunk.len \in 1..(N - global) /\ chunk.len \in Nat \ {0}
      /\ global \in Nat /\ N \in Nat
  BY DEF Inv, TypeOK, ChunkInv
<1>2. ChunkItems = (global + 1)..(global + chunk.len)
  BY <1>1 DEF ChunkItems, Items
<1>3. PerOp * chunk.len \in Nat
  BY <1>1
<1>4. k \in Nat /\ k \in Int /\ k <= PerOp * chunk.len
  BY <1>3
<1>5. Before(k) \in 0..(chunk.len - 1)
  BY <1>1, <1>4, BeforeBound, Zenon
<1>6. PerOp = 2 \/ PerOp = 3 \/ PerOp = 4
  OBVIOUS
<1>7. ASSUME NEW j \in Nat
      PROVE  PerOp * (j + 1) < k <=> j + 1 <= Before(k)
  <2>1. CASE PerOp = 2
    BY <1>4, <2>1 DEF Before
  <2>2. CASE PerOp = 3
    BY <1>4, <2>2 DEF Before
  <2>3. CASE PerOp = 4
    BY <1>4, <2>3 DEF Before
  <2> QED
    BY <1>6, <2>1, <2>2, <2>3
<1>8. ASSUME NEW i \in ChunkItems
      PROVE  LastOp(i) < k <=> i <= global + Before(k)
  <2>1. i - chunk.first \in Nat /\ i \in Nat
    BY <1>1, <1>2
  <2>2. LastOp(i) < k <=> (i - chunk.first) + 1 <= Before(k)
    BY <1>7, <2>1 DEF LastOp
  <2> QED
    BY <1>1, <1>5, <2>1, <2>2
<1>9. {i \in ChunkItems : LastOp(i) < k} = (global + 1)..(global + Before(k))
  <2>1. ASSUME NEW i \in ChunkItems, LastOp(i) < k
        PROVE  i \in (global + 1)..(global + Before(k))
    BY <1>1, <1>2, <1>5, <1>8, <2>1
  <2>2. ASSUME NEW i \in (global + 1)..(global + Before(k))
        PROVE  i \in ChunkItems /\ LastOp(i) < k
    <3>1. i \in ChunkItems /\ i <= global + Before(k)
      BY <1>1, <1>2, <1>5
    <3> QED
      BY <1>8, <3>1
  <2> QED
    BY <2>1, <2>2, Zenon
<1> QED
  BY <1>2, <1>5, <1>9

\* No item after the failing operation's own is attempted.
LEMMA ReachAfter ==
  ASSUME Inv, pc = "sent", ~ReadOnly, NEW k \in 0..(PerOp * chunk.len), Reach(k),
         NEW i \in Items, i > chunk.first + Before(k)
  PROVE  attempts'[i] = 0
<1> USE BatchConstants
<1>1. /\ chunk.first = global + 1 /\ chunk.len \in Nat \ {0}
      /\ global \in Nat /\ N \in Nat /\ i \in Nat
  BY DEF Inv, TypeOK, ChunkInv, Items
<1>2. Before(k) \in 0..(chunk.len - 1)
  BY CompleteItems
<1>3. attempts[i] = 0
  BY <1>1, <1>2 DEF Inv, AttemptInv
<1>4. k \in Nat
  OBVIOUS
<1>5. i - chunk.first \in Nat /\ i - chunk.first > Before(k)
  BY <1>1, <1>2
<1>6. ~(FirstOp(i) + MutOp <= k)
  <2> DEFINE d == i - chunk.first
  <2>1. d \in Nat /\ d > Before(k) /\ MutOp \in Nat
    BY <1>5
  <2>2. FirstOp(i) = 1 + PerOp * d
    BY DEF FirstOp
  <2> HIDE DEF d
  <2>3. CASE PerOp = 2
    BY <1>4, <2>1, <2>2, <2>3 DEF Before
  <2>4. CASE PerOp = 3
    BY <1>4, <2>1, <2>2, <2>4 DEF Before
  <2>5. CASE PerOp = 4
    BY <1>4, <2>1, <2>2, <2>5 DEF Before
  <2> QED
    BY <2>3, <2>4, <2>5
<1> QED
  BY <1>3, <1>6 DEF Reach

LEMMA InitAccount == Init => AccountInv
<1> SUFFICES ASSUME Init PROVE AccountInv
  OBVIOUS
<1> USE BatchConstants, SizerConstants
<1>1. SizeInv
  BY DEF Init, SizeInv, RefusedSizesAvoided, NewSizer, AtMost, AtLeast1
<1>2. BlameInv
  BY DEF Init, BlameInv
<1>3. AckInv
  BY DEF Init, AckInv, Answered
<1>4. ReportInv
  BY DEF Init, ReportInv, ResultsInOrder, ErrorSplitsBatch, CleanupCoversAcked, Pending
<1> QED
  BY <1>1, <1>2, <1>3, <1>4 DEF AccountInv

LEMMA BuildAccount == Inv /\ AccountInv /\ Build => AccountInv'
<1> SUFFICES ASSUME Inv, AccountInv, Build PROVE AccountInv'
  OBVIOUS
<1> USE BatchConstants, SizerConstants
<1> DEFINE len == AtMost(AtMost(Capacity(sizer), maxItems), N - global)
<1>1. /\ sizer \in Sizer /\ pc = "build" /\ global \in Nat /\ N \in Nat
      /\ maxItems \in Nat \ {0} /\ global < N /\ refused \in Nat
      /\ Len(out) = global /\ result.kind = "pending" /\ Answered = global
      /\ out \in Seq(Items)
  BY DEF Inv, TypeOK, GlobalInv, Build, AccountInv, ReportInv, Answered
<1>2. UNCHANGED <<global, out, sizer, attempts, acked, refused>>
  BY DEF Build, server
<1>3. CASE Capacity(sizer) = 0
  <2>1. pc' = "done" /\ result' = [kind |-> "op", idx |-> 1] /\ cleaned' = out /\ global = 0
    BY <1>1, <1>3, CapacityRoom DEF Build, Return, AccountInv, SizeInv
  <2>2. SizeInv'
    BY <1>2, <2>1 DEF AccountInv, SizeInv, RefusedSizesAvoided
  <2>3. BlameInv' /\ AckInv'
    BY <2>1 DEF BlameInv, AckInv
  <2>4. acked' = 1..0 \/ ReadOnly
    BY <1>1, <1>2, <2>1 DEF AccountInv, AckInv
  <2>5. ReportInv'
    <3>1. ResultsInOrder'
      BY <1>2, <2>1, Zenon DEF AccountInv, ReportInv, ResultsInOrder
    <3>2. ErrorSplitsBatch'
      BY <1>1, <1>2, <2>1 DEF ErrorSplitsBatch, Inv, AttemptInv, Items
    <3>3. CleanupCoversAcked'
      BY <1>1, <2>1, <2>4 DEF CleanupCoversAcked
    <3> QED
      BY <2>1, <3>1, <3>2, <3>3 DEF ReportInv
  <2> QED
    BY <2>2, <2>3, <2>5 DEF AccountInv
<1>4. CASE Capacity(sizer) # 0
  <2>1. Capacity(sizer) \in Nat \ {0} /\ Negotiated > PerOp
    BY <1>1, <1>4, BudgetBound, CapacityRoom
  <2>2. len \in Nat \ {0} /\ len <= Capacity(sizer)
    BY <1>1, <2>1 DEF AtMost
  <2>3. PICK n \in Nat \ {0} :
        /\ n <= Capacity(sizer)
        /\ chunk' = [first |-> global + 1, len |-> n]
        /\ UNCHANGED <<cleaned, result>>
        /\ \/ pc' = "build" /\ UNCHANGED reply
           \/ pc' = "sent" /\ UNCHANGED reply
           \/ /\ pc' = "replied" /\ ~(n > 1)
              /\ reply' = [NoReply EXCEPT !.kind = "toobig"]
    BY <1>1, <1>4, <2>2, Zenon DEF Build
  <2>4. chunk'.len = n /\ (pc' = "replied" => n = 1 /\ reply'.kind = "toobig")
    <3>1. ~(n > 1) => n = 1
      OBVIOUS
    <3> QED
      BY <2>3, <3>1, NoReplyType, Zenon
  <2>5. OpsOf(n) <= Negotiated /\ (OpsOf(n) <= sizer.current \/ n = 1)
    BY <1>1, <2>3, CapacityBelow
  <2>6. SizeInv'
    <3>1. sizer.current <= sizer.ceiling /\ sizer.ceiling < refused
      BY <2>1 DEF AccountInv, SizeInv
    <3>2. OpsOf(n) < refused \/ n = 1
      <4>1. OpsOf(n) \in Nat /\ sizer.current \in Nat /\ sizer.ceiling \in Nat
        BY <1>1, OpsOfType, Zenon DEF Sizer
      <4> QED
        BY <1>1, <2>5, <3>1, <4>1
    <3>3. RefusedSizesAvoided'
      BY <1>2, <2>4, <2>5, <3>2 DEF RefusedSizesAvoided, OpsOf
    <3> QED
      BY <1>2, <2>1, <3>1, <3>3 DEF SizeInv
  <2>7. BlameInv'
    BY <2>3, <2>4 DEF BlameInv
  <2>8. AckInv'
    <3>1. Answered' = global
      BY <1>2, <2>3, <2>4 DEF Answered
    <3> QED
      BY <1>1, <1>2, <3>1 DEF AccountInv, AckInv
  <2>9. ReportInv'
    BY <1>1, <1>2, <2>3 DEF AccountInv, ReportInv, ResultsInOrder, ErrorSplitsBatch,
       CleanupCoversAcked
  <2> QED
    BY <2>6, <2>7, <2>8, <2>9 DEF AccountInv
<1> QED
  BY <1>3, <1>4

\* What the reply to a COMPOUND leaves alone: the call has returned nothing.
LEMMA ServedReport ==
  ASSUME AccountInv, pc = "sent", acked \subseteq acked',
         UNCHANGED <<global, out, cleaned, result>>
  PROVE  ReportInv'
<1>1. result.kind = "pending" /\ Len(out) = global
  BY DEF AccountInv, ReportInv
<1>2. ResultsInOrder'
  BY <1>1 DEF AccountInv, ReportInv, ResultsInOrder
<1> QED
  BY <1>1, <1>2 DEF ReportInv, ErrorSplitsBatch, CleanupCoversAcked

\* The window after a reply stays below every refused size.
LEMMA ServedSize ==
  ASSUME Inv, AccountInv, pc = "sent", pc' = "replied",
         NEW st \in Errors \cup {"OK"},
         sizer' = Observe(sizer, OpsOf(chunk.len), st),
         refused' = IF st = "TOO_MANY_OPS"
                    THEN AtMost(refused, OpsOf(chunk.len)) ELSE refused,
         UNCHANGED <<global, chunk>>
  PROVE  SizeInv'
<1> USE BatchConstants, SizerConstants
<1>1. /\ sizer \in Sizer /\ chunk.len \in Nat \ {0} /\ refused \in Nat
      /\ sizer' \in Sizer
  <2>1. sizer \in Sizer /\ chunk.len \in Nat \ {0} /\ refused \in Nat
    BY DEF Inv, TypeOK, ChunkInv
  <2> QED
    BY <2>1, OpsOfType, ObserveType
<1>2. ~(Negotiated <= PerOp)
  BY DEF AccountInv, SizeInv
<1>3. sizer.current <= sizer.ceiling /\ sizer.ceiling < refused
  BY <1>2 DEF AccountInv, SizeInv
<1>4. OpsOf(chunk.len) \in Nat /\ OpsOf(chunk.len) >= 2
  <2>1. PerOp = 2 \/ PerOp = 3 \/ PerOp = 4
    OBVIOUS
  <2> QED
    BY <1>1, <2>1 DEF OpsOf
<1>5. /\ sizer'.current <= sizer'.ceiling /\ sizer'.ceiling <= sizer.ceiling
      /\ st = "TOO_MANY_OPS" => sizer'.ceiling < OpsOf(chunk.len)
  BY <1>1, <1>3, <1>4, ObserveBelow, Zenon
<1>6. sizer.ceiling \in Nat /\ sizer'.ceiling \in Nat
  BY <1>1 DEF Sizer
<1>7. sizer'.ceiling < refused'
  BY <1>1, <1>3, <1>4, <1>5, <1>6 DEF AtMost
<1> QED
  BY <1>2, <1>5, <1>7 DEF SizeInv, RefusedSizesAvoided

LEMMA ServeOkAccount == Inv /\ AccountInv /\ ServeOk => AccountInv'
<1> SUFFICES ASSUME Inv, AccountInv, ServeOk PROVE AccountInv'
  OBVIOUS
<1> USE BatchConstants
<1>1. /\ pc = "sent" /\ pc' = "replied"
      /\ UNCHANGED <<global, maxItems, chunk, out, cleaned, result, refused>>
      /\ acked' = acked \cup ChunkItems
      /\ sizer' = Observe(sizer, OpsOf(chunk.len), "OK")
  BY DEF ServeOk
<1>2. reply'.kind = "reply" /\ reply'.bad = -1 /\ reply'.status = "OK"
  BY DEF ServeOk
<1>3. /\ chunk.len \in Nat \ {0} /\ global \in Nat
      /\ ChunkItems = (global + 1)..(global + chunk.len)
  <2>1. chunk.len \in Nat \ {0} /\ global \in Nat
    BY <1>1 DEF Inv, TypeOK, ChunkInv
  <2>2. 0 \in 0..(PerOp * chunk.len)
    <3>1. PerOp = 2 \/ PerOp = 3 \/ PerOp = 4
      OBVIOUS
    <3> QED
      BY <2>1, <3>1
  <2> QED
    BY <1>1, <2>1, <2>2, CompleteItems
<1>4. SizeInv'
  BY <1>1, ServedSize
<1>5. BlameInv'
  BY <1>1, <1>2 DEF BlameInv
<1>6. AckInv'
  <2>1. Answered' = global + chunk.len
    BY <1>1, <1>2 DEF Answered, Known
  <2>2. 1..global \subseteq acked /\ (~ReadOnly => acked \subseteq 1..global)
    BY <1>1 DEF AccountInv, AckInv, Answered
  <2>3. 1..(global + chunk.len) = (1..global) \cup ((global + 1)..(global + chunk.len))
    BY <1>3
  <2> QED
    BY <1>1, <1>3, <2>1, <2>2, <2>3 DEF AckInv
<1>7. ReportInv'
  BY <1>1, ServedReport
<1> QED
  BY <1>4, <1>5, <1>6, <1>7 DEF AccountInv

LEMMA ServeFailureAccount == Inv /\ AccountInv /\ ServeFailure => AccountInv'
<1> SUFFICES ASSUME Inv, AccountInv, ServeFailure PROVE AccountInv'
  OBVIOUS
<1> USE BatchConstants
<1> DEFINE complete(k) == {i \in ChunkItems : LastOp(i) < k}
<1>1. /\ pc = "sent" /\ pc' = "replied"
      /\ UNCHANGED <<global, maxItems, chunk, out, cleaned, result>>
  BY DEF ServeFailure
<1>2. PICK k \in 0..(PerOp * chunk.len), status \in Errors, reported \in BOOLEAN :
        /\ \E over \in Oversized(complete(k)) :
             reply' = [kind   |-> "reply",
                       nops   |-> IF reported THEN k + 1 ELSE k,
                       bad    |-> IF reported THEN k ELSE -1,
                       status |-> status,
                       over   |-> over]
        /\ Reach(k)
        /\ acked' = acked \cup complete(k)
        /\ sizer' = Observe(sizer, OpsOf(chunk.len), status)
        /\ refused' = IF status = "TOO_MANY_OPS"
                      THEN AtMost(refused, OpsOf(chunk.len)) ELSE refused
  BY Zenon DEF ServeFailure
<1>3. /\ reply'.kind = "reply" /\ reply'.status = status /\ status # "OK"
      /\ reply'.nops = IF reported THEN k + 1 ELSE k
      /\ reply'.bad = IF reported THEN k ELSE -1
  <2>1. status # "OK"
    BY DEF Errors, Limits
  <2>2. PICK over \in Oversized(complete(k)) :
             reply' = [kind   |-> "reply",
                       nops   |-> IF reported THEN k + 1 ELSE k,
                       bad    |-> IF reported THEN k ELSE -1,
                       status |-> status,
                       over   |-> over]
    BY <1>2, Zenon
  <2> QED
    BY <2>1, <2>2
<1>4. /\ chunk.len \in Nat \ {0} /\ chunk.first = global + 1 /\ global \in Nat /\ k \in Nat
      /\ complete(k) = (global + 1)..(global + Before(k))
      /\ Before(k) \in 0..(chunk.len - 1)
  BY <1>1, CompleteItems DEF Inv, TypeOK, ChunkInv
<1>5. (Before(BlamedOp))' = Before(k)
  BY <1>3, <1>4 DEF BlamedOp, Before
<1>6. SizeInv'
  BY <1>1, <1>2, ServedSize
<1>7. BlameInv'
  <2>1. reply'.bad >= 0 => reply'.nops = reply'.bad + 1
    BY <1>3, <1>4
  <2>2. ASSUME ~ReadOnly, NEW i \in Items, i > chunk.first + Before(k)
        PROVE  attempts'[i] = 0
    BY <1>1, <1>2, <2>2, ReachAfter
  <2> QED
    BY <1>1, <1>3, <1>5, <2>1, <2>2 DEF BlameInv
<1>8. AckInv'
  <2>1. Answered' = global + Before(k)
    BY <1>1, <1>3, <1>5 DEF Answered, Known
  <2>2. 1..global \subseteq acked /\ (~ReadOnly => acked \subseteq 1..global)
    BY <1>1 DEF AccountInv, AckInv, Answered
  <2>3. 1..(global + Before(k)) = (1..global) \cup ((global + 1)..(global + Before(k)))
    BY <1>4
  <2> QED
    BY <1>2, <1>4, <2>1, <2>2, <2>3 DEF AckInv
<1>9. ReportInv'
  BY <1>1, <1>2, ServedReport
<1> QED
  BY <1>6, <1>7, <1>8, <1>9 DEF AccountInv

LEMMA LoseReplyAccount == Inv /\ AccountInv /\ LoseReply => AccountInv'
<1> SUFFICES ASSUME Inv, AccountInv, LoseReply PROVE AccountInv'
  OBVIOUS
<1>1. /\ pc = "sent" /\ pc' = "replied" /\ reply'.kind = "lost"
      /\ UNCHANGED <<global, chunk, sizer, out, cleaned, result, acked, refused>>
  BY NoReplyType DEF LoseReply
<1>2. SizeInv'
  BY <1>1 DEF AccountInv, SizeInv, RefusedSizesAvoided
<1>3. BlameInv'
  BY <1>1 DEF BlameInv
<1>4. AckInv'
  BY <1>1 DEF AccountInv, AckInv, Answered
<1>5. ReportInv'
  BY <1>1, ServedReport
<1> QED
  BY <1>2, <1>3, <1>4, <1>5 DEF AccountInv

LEMMA NextCallAccount == Inv /\ AccountInv /\ NextCall => AccountInv'
<1> SUFFICES ASSUME Inv, AccountInv, NextCall PROVE AccountInv'
  OBVIOUS
<1> USE BatchConstants, SizerConstants
<1>1. /\ pc' = "build" /\ global' = 0 /\ out' = <<>> /\ cleaned' = <<>>
      /\ result' = Pending /\ acked' = {}
      /\ \/ sizer' = NewSizer /\ refused' = Negotiated + 1
         \/ UNCHANGED <<sizer, refused>>
  BY DEF NextCall
<1>2. SizeInv'
  <2>1. Negotiated > 0 => NewSizer.current <= NewSizer.ceiling /\ NewSizer.ceiling < Negotiated + 1
    BY DEF NewSizer, AtMost, AtLeast1
  <2> QED
    BY <1>1, <2>1 DEF AccountInv, SizeInv, RefusedSizesAvoided
<1>3. BlameInv'
  BY <1>1 DEF BlameInv
<1>4. AckInv'
  BY <1>1 DEF AckInv, Answered
<1>5. ReportInv'
  BY <1>1 DEF ReportInv, ResultsInOrder, ErrorSplitsBatch, CleanupCoversAcked, Pending
<1> QED
  BY <1>2, <1>3, <1>4, <1>5 DEF AccountInv

\* What the applied reply had already proved, seen from the answered items.
LEMMA HandleKnown ==
  ASSUME Inv, AccountInv, pc = "replied"
  PROVE  /\ global \in Nat /\ chunk.first = global + 1 /\ chunk.len \in Nat \ {0}
         /\ out \in Seq(Items) /\ out = [i \in 1..Len(out) |-> i] /\ Len(out) = global
         /\ 1..global \subseteq acked /\ result.kind = "pending"
         /\ reply.kind # "reply" /\ ~ReadOnly => acked = 1..global
         /\ reply.kind = "reply" =>
              /\ Known \in 0..chunk.len
              /\ 1..(global + Known) \subseteq acked
              /\ ~ReadOnly => acked = 1..(global + Known)
              /\ reply.status # "OK" => Before(reply.bad) <= Known
<1> USE BatchConstants
<1>1. /\ chunk.first = global + 1 /\ chunk.len \in Nat \ {0} /\ global \in Nat
      /\ reply.bad \in Int
      /\ out \in Seq(Items) /\ out = [i \in 1..Len(out) |-> i] /\ Len(out) = global
      /\ result.kind = "pending"
  BY HandleRange DEF Inv, TypeOK, Replies, AccountInv, ReportInv, ResultsInOrder
<1>2. ASSUME reply.kind = "reply"
      PROVE  /\ Known \in 0..chunk.len
             /\ reply.status # "OK" => Before(reply.bad) <= Known
  <2>1. CASE reply.status = "OK"
    BY <1>1, <2>1 DEF Known
  <2>2. CASE reply.status # "OK"
    <3>1. Known = Before(BlamedOp) /\ Before(BlamedOp) \in 0..(chunk.len - 1)
      BY <1>2, <2>2, HandleRange DEF Known
    <3>2. reply.bad < 0 => Before(reply.bad) = 0
      BY <1>1 DEF Before
    <3>3. reply.bad >= 0 => BlamedOp = reply.bad
      BY DEF BlamedOp
    <3> QED
      BY <1>1, <3>1, <3>2, <3>3
  <2> QED
    BY <2>1, <2>2
<1>3. ASSUME reply.kind = "reply"
      PROVE  1..(global + Known) \subseteq acked /\ (~ReadOnly => acked = 1..(global + Known))
  BY <1>3, Zenon DEF AccountInv, AckInv, Answered
<1>4. ASSUME reply.kind # "reply"
      PROVE  1..global \subseteq acked /\ (~ReadOnly => acked = 1..global)
  BY <1>4, Zenon DEF AccountInv, AckInv, Answered
<1>5. 1..global \subseteq acked
  <2>1. CASE reply.kind = "reply"
    <3>1. Known \in Nat
      BY <1>1, <1>2, <2>1
    <3>2. 1..global \subseteq 1..(global + Known)
      BY <1>1, <3>1
    <3> QED
      BY <1>3, <2>1, <3>2
  <2> QED
    BY <1>4, <2>1
<1> QED
  BY <1>1, <1>2, <1>3, <1>4, <1>5

\* The part of the invariant every alternative of Handle has to establish.
Settled ==
  /\ ReportInv'
  /\ pc' = "build" => 1..global' \subseteq acked /\ (~ReadOnly => acked \subseteq 1..global')

LEMMA NoReplySettled ==
  ASSUME Inv, AccountInv, pc = "replied", HandleNoReply, UNCHANGED <<attempts, acked>>
  PROVE  Settled
<1>1. /\ pc' = "done" /\ cleaned' = out /\ out' = out /\ global' = global
      /\ \/ result' = [kind |-> "transport", idx |-> 0]
         \/ /\ reply.kind = "toobig"
            /\ result' = [kind |-> "op", idx |-> CallerIndex(0)]
  BY DEF HandleNoReply, Return
<1>2. reply.kind # "reply"
  BY DEF HandleNoReply
<1>3. CallerIndex(0) = global + 1
  BY HandleKnown DEF CallerIndex, Before, AtMost
<1>4. ResultsInOrder'
  BY <1>1, HandleKnown DEF ResultsInOrder
<1>5. CleanupCoversAcked'
  BY <1>1, <1>2, HandleKnown DEF CleanupCoversAcked
<1>6. ErrorSplitsBatch'
  <2>1. CASE reply.kind = "toobig" /\ result' = [kind |-> "op", idx |-> CallerIndex(0)]
    <3>1. result'.idx = global + 1 /\ 1..(result'.idx - 1) \subseteq acked
      BY <1>3, <2>1, HandleKnown
    <3>2. chunk.len = 1
      BY <2>1 DEF AccountInv, BlameInv
    <3>3. ASSUME ~ReadOnly, NEW i \in Items, i > global + 1 PROVE attempts[i] = 0
      <4>1. i >= chunk.first + chunk.len
        BY <3>2, <3>3, HandleKnown DEF Items
      <4> QED
        BY <3>3, <4>1 DEF Inv, AttemptInv
    <3> QED
      BY <3>1, <3>3 DEF ErrorSplitsBatch
  <2>2. CASE result'.kind = "transport"
    BY <2>2 DEF ErrorSplitsBatch
  <2> QED
    BY <1>1, <2>1, <2>2
<1> QED
  BY <1>1, <1>4, <1>5, <1>6 DEF Settled, ReportInv

LEMMA BadPayloadSettled ==
  ASSUME Inv, AccountInv, pc = "replied", NEW n, HandleBadPayload(n),
         UNCHANGED <<attempts, acked>>
  PROVE  Settled
<1>1. pc' = "done" /\ result'.kind = "invalid" /\ UNCHANGED <<global, out, cleaned>>
  BY DEF HandleBadPayload, Return
<1>2. ResultsInOrder'
  BY <1>1, HandleKnown DEF ResultsInOrder
<1> QED
  BY <1>1, <1>2 DEF Settled, ReportInv, ErrorSplitsBatch, CleanupCoversAcked

LEMMA RetryWholeSettled ==
  ASSUME Inv, AccountInv, pc = "replied", HandleRetryWhole, UNCHANGED <<attempts, acked>>
  PROVE  Settled
<1>1. /\ pc' = "build" /\ UNCHANGED <<global, out, cleaned, result>>
      /\ reply.kind = "reply" /\ RejectedBeforeMutation(reply)
  BY DEF HandleRetryWhole, CanRetryWhole
<1>2. Known = 0
  <2>1. reply.status # "OK" /\ reply.bad \in Int /\ reply.nops \in Nat
    BY <1>1 DEF RejectedBeforeMutation, Limits, Inv, TypeOK, Replies
  <2>2. reply.bad >= 0 => reply.nops = reply.bad + 1
    BY <1>1 DEF AccountInv, BlameInv
  <2>3. BlamedOp <= 1 /\ BlamedOp \in Int
    BY <1>1, <2>1, <2>2 DEF BlamedOp, RejectedBeforeMutation
  <2>4. Before(BlamedOp) = 0
    BY <2>3, BatchConstants DEF Before
  <2> QED
    BY <2>1, <2>4 DEF Known
<1>3. 1..global \subseteq acked /\ (~ReadOnly => acked = 1..global)
  BY <1>1, <1>2, HandleKnown
<1>4. ReportInv'
  BY <1>1, HandleKnown DEF AccountInv, ReportInv, ResultsInOrder, ErrorSplitsBatch,
     CleanupCoversAcked
<1> QED
  BY <1>1, <1>3, <1>4, Zenon DEF Settled

\* n more answered items join the results.
LEMMA Delivered ==
  ASSUME Inv, AccountInv, pc = "replied", reply.kind = "reply",
         NEW n \in 0..chunk.len, n <= Known,
         out' = out \o Prefix(n), UNCHANGED acked,
         result'.kind = "ok" => global + n = N
  PROVE  Len(out') = global + n /\ ResultsInOrder'
<1>1. /\ Len(out') = global + n /\ out' = [i \in 1..Len(out') |-> i]
  BY HandleKnown, AppendPrefix
<1>2. 1..(global + n) \subseteq acked
  <2>1. global \in Nat /\ chunk.len \in Nat /\ Known \in 0..chunk.len
    BY HandleKnown
  <2>2. 1..(global + n) \subseteq 1..(global + Known)
    BY <2>1
  <2> QED
    BY <2>2, HandleKnown
<1> QED
  BY <1>1, <1>2 DEF ResultsInOrder

LEMMA KeepPrefixSettled ==
  ASSUME Inv, AccountInv, pc = "replied", HandleKeepPrefix, UNCHANGED <<attempts, acked>>
  PROVE  Settled
<1> DEFINE n == Before(reply.bad)
<1>1. /\ reply.kind = "reply" /\ ReadOnly /\ reply.status # "OK"
  BY DEF HandleKeepPrefix, CanKeepPrefix, Limits
<1>2. n \in 0..chunk.len /\ n <= Known /\ n \in Nat /\ global \in Nat
  BY <1>1, HandleRange, HandleKnown
<1>3. CASE HandleBadPayload(n)
  BY <1>3, BadPayloadSettled
<1>4. CASE ~HandleBadPayload(n)
  <2>1. /\ out' = out \o Prefix(n) /\ global' = global + n /\ pc' = "build"
        /\ UNCHANGED <<cleaned, result>>
    BY <1>4 DEF HandleKeepPrefix
  <2>2. result'.kind = "pending"
    BY <2>1, HandleKnown
  <2>3. Len(out') = global' /\ ResultsInOrder'
    BY <1>1, <1>2, <2>1, <2>2, Delivered, Zenon
  <2>4. 1..global' \subseteq acked
    BY <2>3 DEF ResultsInOrder
  <2> QED
    BY <1>1, <2>1, <2>2, <2>3, <2>4 DEF Settled, ReportInv, ErrorSplitsBatch,
       CleanupCoversAcked
<1> QED
  BY <1>3, <1>4

LEMMA FailureSettled ==
  ASSUME Inv, AccountInv, pc = "replied", HandleFailure, UNCHANGED <<attempts, acked>>
  PROVE  Settled
<1> DEFINE n == AtMost(Before(BlamedOp), chunk.len)
<1>1. reply.kind = "reply" /\ reply.status # "OK"
  BY DEF HandleFailure
<1>2. /\ n = Before(BlamedOp) /\ n \in 0..(chunk.len - 1) /\ n = Known
      /\ CallerIndex(BlamedOp) = chunk.first + n
      /\ chunk.first = global + 1 /\ global \in Nat /\ chunk.len \in Nat
  BY <1>1, HandleRange DEF AtMost, Known
<1> HIDE DEF n
<1>3. CASE HandleBadPayload(n)
  BY <1>3, BadPayloadSettled
<1>4. CASE ~HandleBadPayload(n)
  <2>1. /\ out' = out \o Prefix(n) /\ cleaned' = out' /\ global' = global
        /\ pc' = "done" /\ result' = [kind |-> "op", idx |-> CallerIndex(BlamedOp)]
    BY <1>4 DEF HandleFailure, Return, n
  <2>2. Len(out') = global + n /\ ResultsInOrder'
    <3>1. n \in 0..chunk.len /\ n <= Known
      BY <1>2
    <3>2. result'.kind # "ok"
      BY <2>1
    <3> QED
      BY <1>1, <2>1, <3>1, <3>2, Delivered
  <2>3. result'.idx - 1 = global + n /\ result'.idx = chunk.first + n
    <3>1. result'.idx = chunk.first + n
      BY <1>2, <2>1, Zenon
    <3>2. n \in Nat
      BY <1>2
    <3> QED
      BY <1>2, <3>1, <3>2
  <2>4. ErrorSplitsBatch'
    <3>1. 1..(result'.idx - 1) \subseteq acked
      BY <2>2, <2>3 DEF ResultsInOrder
    <3>2. ASSUME ~ReadOnly, NEW i \in Items, i > result'.idx PROVE attempts[i] = 0
      BY <1>1, <1>2, <2>3, <3>2 DEF AccountInv, BlameInv
    <3> QED
      BY <3>1, <3>2 DEF ErrorSplitsBatch
  <2>5. CleanupCoversAcked'
    BY <1>1, <1>2, <2>1, <2>2, HandleKnown DEF CleanupCoversAcked
  <2> QED
    BY <2>1, <2>2, <2>4, <2>5 DEF Settled, ReportInv
<1> QED
  BY <1>3, <1>4

LEMMA SuccessSettled ==
  ASSUME Inv, AccountInv, pc = "replied", HandleSuccess, UNCHANGED <<attempts, acked>>
  PROVE  Settled
<1>1. reply.kind = "reply" /\ Known = chunk.len
  BY DEF HandleSuccess, Known
<1>2. chunk.len \in Nat /\ global \in Nat
  BY HandleKnown
<1>3. CASE HandleBadPayload(chunk.len)
  BY <1>3, BadPayloadSettled
<1>4. CASE ~HandleBadPayload(chunk.len)
  <2>1. /\ out' = out \o Prefix(chunk.len) /\ global' = global + chunk.len
        /\ cleaned' = cleaned
        /\ \/ global' = N /\ pc' = "done" /\ result' = [kind |-> "ok", idx |-> 0]
           \/ global' # N /\ pc' = "build" /\ result' = result
    BY <1>4 DEF HandleSuccess, Return
  <2>2. /\ result'.kind \in {"ok", "pending"}
        /\ result'.kind = "ok" => global' = N
        /\ pc' # "done" => result'.kind = "pending"
    BY <2>1, HandleKnown
  <2>3. Len(out') = global' /\ ResultsInOrder'
    <3>1. chunk.len \in 0..chunk.len /\ chunk.len <= Known
      BY <1>1, <1>2
    <3> QED
      BY <1>1, <2>1, <2>2, <3>1, Delivered, Zenon
  <2>4. 1..global' \subseteq acked /\ (~ReadOnly => acked \subseteq 1..global')
    BY <1>1, <2>1, HandleKnown
  <2> QED
    BY <2>2, <2>3, <2>4 DEF Settled, ReportInv, ErrorSplitsBatch, CleanupCoversAcked
<1> QED
  BY <1>3, <1>4

LEMMA HandleAccount == Inv /\ AccountInv /\ Handle => AccountInv'
<1> SUFFICES ASSUME Inv, AccountInv, Handle PROVE AccountInv'
  OBVIOUS
<1>1. /\ pc = "replied" /\ UNCHANGED <<sizer, attempts, acked, refused>>
      /\ pc' \in {"build", "done"}
  BY HandleHandled DEF Handle, server, Handled
<1>2. Settled
  BY <1>1, NoReplySettled, RetryWholeSettled, KeepPrefixSettled, FailureSettled,
     SuccessSettled, Zenon DEF Handle
<1>3. SizeInv'
  BY <1>1 DEF AccountInv, SizeInv, RefusedSizesAvoided
<1>4. BlameInv'
  BY <1>1 DEF BlameInv
<1>5. AckInv'
  BY <1>1, <1>2 DEF Settled, AckInv, Answered
<1> QED
  BY <1>2, <1>3, <1>4, <1>5 DEF AccountInv, Settled

LEMMA NextAccount == Inv /\ AccountInv /\ [Next]_vars => AccountInv'
<1>1. Inv /\ AccountInv /\ UNCHANGED vars => AccountInv'
  <2> SUFFICES ASSUME AccountInv, UNCHANGED vars PROVE AccountInv'
    OBVIOUS
  <2>1. SizeInv'
    BY DEF vars, AccountInv, SizeInv, RefusedSizesAvoided
  <2>2. BlameInv'
    BY DEF vars, AccountInv, BlameInv, BlamedOp
  <2>3. AckInv'
    BY DEF vars, AccountInv, AckInv, Answered, Known, BlamedOp
  <2>4. ReportInv'
    BY DEF vars, AccountInv, ReportInv, ResultsInOrder, ErrorSplitsBatch,
       CleanupCoversAcked
  <2> QED
    BY <2>1, <2>2, <2>3, <2>4 DEF AccountInv
<1> QED
  BY <1>1, BuildAccount, ServeOkAccount, ServeFailureAccount, LoseReplyAccount,
     HandleAccount, NextCallAccount DEF Next, Step

\* However batch_ops_fallible_with_failure splits, shrinks and resends the
\* items: results are delivered in request order and only for answered items,
\* an error names the first unanswered item and no later item was attempted,
\* on_failure is given exactly the completed items, and a refused size is not
\* sent again.
THEOREM CallsAccounted == Spec => []RepliesAccounted
<1>1. AccountInv => RepliesAccounted
  BY DEF AccountInv, SizeInv, ReportInv, RepliesAccounted
<1>2. Inv /\ Inv' /\ AccountInv /\ [Next]_vars => AccountInv'
  BY NextAccount
<1> QED
  BY <1>1, <1>2, InitAccount, Invariance, PTL DEF Spec

=============================================================================
