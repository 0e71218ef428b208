----------------------------- MODULE ByteStream -----------------------------
(***************************************************************************)
(* What a reader of a graph file relies on: bytes arrive in the order they *)
(* are in the file, a read is short only at the end of the file, bytes     *)
(* that are given back are read again before all others, and only a read   *)
(* that reports an error loses bytes, of those it was asked for.           *)
(*                                                                         *)
(* Callers read into buffers of zeros and give back any end of them, with  *)
(* the zeros that the read has not replaced.                               *)
(***************************************************************************)
EXTENDS Integers, Sequences, SequencesExt, FiniteSetsExt

CONSTANTS Contents,   \* what a file may hold
          MaxRead     \* the longest read

VARIABLES stream,     \* what is still to be read
          got,        \* the caller's buffer
          result      \* how many of its bytes the last read has filled
vars == <<stream, got, result>>

Failed == -1        \* the result of a read that reports an error

First(s, n) == SubSeq(s, 1, Min({n, Len(s)}))
Rest(s, n) == SubSeq(s, n + 1, Len(s))
Padded(s, n) == [i \in 1..n |-> IF i <= Len(s) THEN s[i] ELSE 0]

Init == stream \in Contents /\ got = <<>> /\ result = 0

Read(n) ==
    /\ got' = Padded(stream, n)
    /\ result' = Min({n, Len(stream)})
    /\ stream' = Rest(stream, n)

\* The caller does not use a buffer after an error.
Fail(n) ==
    /\ got' = <<>> /\ result' = Failed
    /\ \E k \in 0..n : stream' = Rest(stream, k)

\* Give back the caller's buffer beyond its first n bytes.
GiveBack(n) ==
    /\ stream' = Rest(got, n) \o stream
    /\ got' = First(got, n)
    /\ UNCHANGED result

Next == \/ \E n \in 0..MaxRead : Read(n)
        \/ \E n \in 0..MaxRead : Fail(n)
        \/ \E n \in 0..MaxRead : GiveBack(n)

Spec == Init /\ [][Next]_vars
=============================================================================
