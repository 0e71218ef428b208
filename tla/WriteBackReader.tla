--------------------------- MODULE WriteBackReader ---------------------------
(***************************************************************************)
(* WriteBackReader (src/src/storage.rs:251-307): a reader that takes bytes *)
(* back.  The bytes given back are kept in reverse, so that they are taken *)
(* from the end of a vector; the underlying reader may return fewer bytes  *)
(* than it is asked for, and may fail.                                     *)
(***************************************************************************)
EXTENDS Integers, Sequences, SequencesExt, FiniteSetsExt

CONSTANTS Contents,   \* what the underlying reader may hold
          MaxRead     \* the longest read

ASSUME ReaderAssumption == MaxRead \in Nat /\ Contents \subseteq Seq(Nat)

VARIABLES reader,     \* what the underlying reader still holds
          buffer,     \* the bytes given back, last one first
          buf,        \* the bytes the read under way has put in place
          want,       \* how many bytes it asks for; 0 when there is none
          got,        \* the caller's buffer, of zeros before the read
          result      \* what the last read returned: a number, or Failed
vars == <<reader, buffer, buf, want, got, result>>

Failed == -1
Padded(s, n) == [i \in 1..n |-> IF i <= Len(s) THEN s[i] ELSE 0]

Init ==
    /\ reader \in Contents
    /\ buffer = <<>> /\ buf = <<>> /\ want = 0 /\ got = <<>> /\ result = 0

\* A read of no bytes.
ReadNothing ==
    /\ want = 0
    /\ got' = <<>> /\ result' = 0
    /\ UNCHANGED <<reader, buffer, buf, want>>

\* The last n bytes of the buffer, in reading order.
\* A variant for the mutation runs: in the order they are kept in.
TakenInOrder(s, n) == SubSeq(s, Len(s) - n + 1, Len(s))
Taken(s, n) == Reverse(SubSeq(s, Len(s) - n + 1, Len(s)))

\* read takes what it can from the buffer...
Start(n) ==
    /\ want = 0
    /\ want' = n
    /\ LET k == Min({n, Len(buffer)})
       IN  /\ buf' = Taken(buffer, k)
           /\ buffer' = SubSeq(buffer, 1, Len(buffer) - k)
    /\ UNCHANGED <<reader, got, result>>

\* A variant for the mutation runs: the reader may fill more than was asked.
FillBeyond(m) ==
    /\ want > Len(buf) /\ m <= Len(reader)
    /\ buf' = buf \o SubSeq(reader, 1, m)
    /\ reader' = SubSeq(reader, m + 1, Len(reader))
    /\ UNCHANGED <<buffer, want, got, result>>

\* ...then asks the underlying reader until it has all, ...
Fill(m) ==
    /\ want > Len(buf) /\ m <= want - Len(buf) /\ m <= Len(reader)
    /\ buf' = buf \o SubSeq(reader, 1, m)
    /\ reader' = SubSeq(reader, m + 1, Len(reader))
    /\ UNCHANGED <<buffer, want, got, result>>

Return(g, r) ==
    /\ got' = g /\ result' = r
    /\ buf' = <<>> /\ want' = 0
    /\ UNCHANGED <<reader, buffer>>

\* A variant for the mutation runs: a read goes on at the end of the file.
FinishFull ==
    /\ want > 0 /\ Len(buf) = want
    /\ Return(Padded(buf, want), Len(buf))

\* ...or until there is no more.
Finish ==
    /\ want > 0 /\ (Len(buf) = want \/ reader = <<>>)
    /\ Return(Padded(buf, want), Len(buf))

\* An error of the underlying reader is passed on, and what the read has
\* taken is dropped.
Fail ==
    /\ want > Len(buf)
    /\ Return(<<>>, Failed)

\* write keeps the bytes of the caller's buffer beyond the first n.
Write(n) ==
    /\ want = 0 /\ n <= Len(got)
    /\ buffer' = buffer \o Reverse(SubSeq(got, n + 1, Len(got)))
    /\ got' = SubSeq(got, 1, n)
    /\ UNCHANGED <<reader, buf, want, result>>

Next == \/ ReadNothing
        \/ \E n \in 1..MaxRead : Start(n)
        \/ \E m \in 1..MaxRead : Fill(m)
        \/ Finish \/ Fail
        \/ \E n \in 0..MaxRead : Write(n)

\* A read that has begun goes on: it is a loop in one call.
Spec == /\ Init /\ [][Next]_vars
        /\ WF_vars(Finish) /\ WF_vars(\E m \in 1..MaxRead : Fill(m))

-----------------------------------------------------------------------------
\* The bytes in the buffers are bytes of the file, or zeros.  A read under way
\* has no more than it was asked for, and has used up what was given back
\* before it asks the underlying reader; between reads it has nothing.
TypeOK ==
    /\ reader \in Seq(Nat) /\ buffer \in Seq(Nat)
    /\ buf \in Seq(Nat) /\ got \in Seq(Nat)
    /\ want \in 0..MaxRead /\ Len(buf) <= want /\ Len(got) <= MaxRead
    /\ result \in Nat \cup {Failed}
    /\ Len(buf) < want => buffer = <<>>

\* However short the reads of the underlying reader are and whatever is given
\* back, the reader is a byte stream: nothing is doubled or reordered, a read
\* is short only at the end, and bytes are lost only if it reports an error.
Stream == INSTANCE ByteStream WITH
              stream <- buf \o Reverse(buffer) \o reader
IsByteStream == Stream!Spec

\* Every read returns.
ReadsReturn == want > 0 ~> want = 0
=============================================================================
