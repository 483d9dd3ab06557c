----------------------------- MODULE CfhCursor -----------------------------
(***************************************************************************)
(* CfhCursor of crates/vfsi-nfs/src/client.rs: which operations bring the  *)
(* current filehandle of a compound under construction to a directory.     *)
(* The cursor believes to know what the server will have in its saved and  *)
(* current filehandle when the compound runs.                              *)
(*                                                                         *)
(* A path is a sequence of names; a cursor is [set, dir, at]: dir is the   *)
(* saved directory if set, and at says that the current handle equals it.  *)
(* An operation is [op, name, to].                                         *)
(***************************************************************************)
EXTENDS Integers, SequencesExt

Fresh == [set |-> FALSE, dir |-> <<>>, at |-> FALSE]

Op(op) == [op |-> op, name |-> "", to |-> ""]
OpOn(op, name) == [Op(op) EXCEPT !.name = name]
Lookups(names) == [k \in DOMAIN names |-> OpOn("lookup", names[k])]

Saved(c, dir) == c.set /\ c.dir = dir

\* Length of the common prefix of two paths.
Common(p, q) == Max({k \in 0..Min({Len(p), Len(q)}) : SubSeq(p, 1, k) = SubSeq(q, 1, k)})

\* A walk from the saved directory costs less than one from the root.
Relative(c, dir) ==
  c.set /\ (Len(c.dir) - Common(c.dir, dir)) + (Len(dir) - Common(c.dir, dir)) < 1 + Len(dir)

Restore(c) == IF c.at THEN <<>> ELSE <<Op("restorefh")>>

\* walk_parent: the operations that make dir the current filehandle.
Walk(c, dir) ==
  IF Saved(c, dir) THEN Restore(c)
  ELSE IF Relative(c, dir)
  THEN LET k == Common(c.dir, dir)
       IN  Restore(c) \o [j \in 1..(Len(c.dir) - k) |-> Op("lookupp")]
             \o Lookups(SubSeq(dir, k + 1, Len(dir)))
  ELSE <<Op("putrootfh")>> \o Lookups(dir)

\* set_parent keeps the directory in the saved filehandle.
SetParent(c, dir) == Walk(c, dir) \o (IF Saved(c, dir) THEN <<>> ELSE <<Op("savefh")>>)
ParentSet(dir) == [set |-> TRUE, dir |-> dir, at |-> TRUE]

\* Mutant: an operation that moves the current filehandle goes unnoticed.
DescendedNot(c) == c

Descended(c) == [c EXCEPT !.at = FALSE]
=============================================================================
