----------------------------- MODULE FileBytes -----------------------------
(***************************************************************************)
(* Contents of files, as the servers below the client keep them            *)
(* (external): a sequence of bytes, Hole where nothing was written.  A     *)
(* byte is named by the write it came from and its position in it.         *)
(***************************************************************************)
EXTENDS Integers, Sequences

Hole == <<0, 0>>

\* Bytes from..(from + count - 1) of write w (counted from 0) put at offset off.
Put(file, off, w, from, count) ==
  [k \in 1..(IF count > 0 /\ off + count > Len(file) THEN off + count ELSE Len(file)) |->
     IF off < k /\ k <= off + count THEN <<w, from + k - off - 1>>
     ELSE IF k <= Len(file) THEN file[k] ELSE Hole]

\* A sequence of bytes put at offset off.
PutBytes(file, off, bytes) ==
  [k \in 1..(IF bytes # <<>> /\ off + Len(bytes) > Len(file) THEN off + Len(bytes) ELSE Len(file)) |->
     IF off < k /\ k <= off + Len(bytes) THEN bytes[k - off]
     ELSE IF k <= Len(file) THEN file[k] ELSE Hole]

\* At most count bytes from offset off on.
Slice(file, off, count) == SubSeq(file, off + 1, IF off + count < Len(file) THEN off + count ELSE Len(file))
=============================================================================
