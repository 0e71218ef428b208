------------------------- MODULE MCWriteBackReader -------------------------
(* Files of distinct bytes, so that every reordering shows.                *)
EXTENDS WriteBackReader
MCContents == {[i \in 1..n |-> i] : n \in 0..5}
=============================================================================
