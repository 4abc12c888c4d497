------------------------------- MODULE Chunks -------------------------------
(***************************************************************************)
(* How range_get of src/client.rs cuts `total` bytes into pieces of        *)
(* chunk_size: positions count from 0, piece i is the positions from       *)
(* Start(i) up to, not including, End(i).                                  *)
(***************************************************************************)
EXTENDS Integers

\* Mutant of NPieces: a piece more than needed where the last one is full.
NPiecesFloor(total, cs) == total \div cs + 1
\* total.div_ceil(cs)
NPieces(total, cs) == (total + cs - 1) \div cs

Start(i, cs) == i * cs

\* Mutant of End: the last piece runs past the end of the object.
EndUncapped(i, total, cs) == i * cs + cs
\* std::cmp::min(start + cs, total)
End(i, total, cs) == IF i * cs + cs <= total THEN i * cs + cs ELSE total
=============================================================================
