---------------------------- MODULE AdaptiveSizer ----------------------------
(***************************************************************************)
(* AdaptiveBatchSizer of crates/vfsi-nfs/src/planner.rs: the soft          *)
(* operation window a session learns for one COMPOUND shape.  A sizer is a *)
(* record; the operators below are the methods of the Rust struct, each    *)
(* returning the record the method leaves behind.                          *)
(***************************************************************************)
EXTENDS Naturals

CONSTANTS
  Negotiated,    \* ca_maxoperations the server confirmed (negotiated_ops)
  Start,         \* starting_ops of the shape
  Slack,         \* 16 in the code: how far below the window counts as full
  Grow,          \* 8 in the code: the additive growth of one probe
  MaxBackoff     \* 5 in the code: cap of the exponential back-off

ASSUME SizerConstants ==
  /\ Negotiated \in Nat /\ Start \in Nat /\ Slack \in Nat
  /\ Grow \in Nat /\ MaxBackoff \in Nat

AtLeast1(n) == IF n < 1 THEN 1 ELSE n
AtMost(n, m) == IF n < m THEN n ELSE m

Sizer == [current: Nat, ceiling: Nat, backoff: Nat, successes: Nat]

NewSizer ==
  [current   |-> AtMost(AtLeast1(Start), AtLeast1(Negotiated)),
   ceiling   |-> AtLeast1(Negotiated),
   backoff   |-> 0,
   successes |-> 0]

\* Successful full-size compounds needed before the next upward probe.
Needed(backoff) == 2 ^ backoff

\* succeeded(attempted, more_work): record() always passes more_work = true.
Succeeded(s, attempted) ==
  IF attempted + Slack < s.current
  THEN s
  ELSE IF s.successes + 1 >= Needed(s.backoff)
       THEN [s EXCEPT !.current = AtMost(s.current + Grow, s.ceiling),
                      !.successes = 0]
       ELSE [s EXCEPT !.successes = s.successes + 1]

ResourceRejected(s, attempted) ==
  [s EXCEPT !.current   = AtMost(s.current, AtLeast1(attempted \div 2)),
            !.backoff   = AtMost(s.backoff + 1, MaxBackoff),
            !.successes = 0]

OpLimitRejected(s, attempted) ==
  IF attempted > 1
  THEN [s EXCEPT !.ceiling   = AtMost(s.ceiling, attempted - 1),
                 !.current   = AtMost(s.current, AtLeast1(attempted \div 2)),
                 !.successes = 0]
  ELSE s
=============================================================================
