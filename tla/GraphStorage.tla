---------------------------- MODULE GraphStorage ----------------------------
(***************************************************************************)
(* The graph file (src/src/storage.rs): build-circuit writes it, in place  *)
(* of the one that was there, and may stop at any byte; calc-witness reads *)
(* it whenever it is started.                                              *)
(*                                                                         *)
(*   magic | count | (length node)* | length metadata | offset             *)
(*                                                                         *)
(* A byte is a number below 2 * Radix whose top bit marks that a length    *)
(* goes on; the code has Radix = 128.  A message is a sequence of values,  *)
(* encoded as tags and values; the empty message is one without fields.    *)
(***************************************************************************)
EXTENDS Integers, Sequences, SequencesExt, FiniteSetsExt

CONSTANTS Graphs,      \* records [nodes, meta]: the messages of a graph
          Radix,
          MaxVarint,   \* MAX_VARINT_LENGTH (10 in the code)
          Magic,       \* WITNESSCALC_GRAPH_MAGIC
          CountBytes   \* bytes of the count and of the offset (8 in the code)

Byte == 2 * Radix
Bytes == 0..Byte - 1
\* What is left of n without its last i digits, for i up to e.
Left(base, n, e) ==
    LET left[i \in 0..e] == IF i = 0 THEN n ELSE left[i - 1] \div base
    IN  left
\* Numbers of at most e digits.
Fits(base, n, e) == Left(base, n, e)[e] = 0

\* A node is one of the variants of its message, never the empty message.
\* Lengths and numbers of nodes are usize, which has 64 bits.
ASSUME StorageAssumption ==
    /\ Radix \in Nat \ {0, 1} /\ MaxVarint \in Nat \ {0} /\ CountBytes \in Nat \ {0}
    /\ Magic \in Seq(Bytes)
    /\ \A g \in Graphs :
           /\ g.nodes \in Seq(Seq(Bytes) \ {<<>>}) /\ g.meta \in Seq(Bytes)
           /\ Fits(Byte, Len(g.nodes), CountBytes)
           /\ Fits(Radix, 2 * Len(g.meta), MaxVarint)
           /\ \A k \in DOMAIN g.nodes : Fits(Radix, 2 * Len(g.nodes[k]), MaxVarint)

VARIABLES old,         \* the graph of the file that is there at first
          graph,       \* the graph build-circuit writes
          file,        \* the bytes of the file
          ptr,         \* bytes written, as serialize counts them
          written,     \* how many chunks it has written
          writer,      \* "idle", "writing", "done" or "crashed"
          stream,      \* what calc-witness has still to read
          snapshot,    \* what it found when it opened the file
          reading,     \* what it reads next, or how it ended
          length,      \* the length of the message to be read
          count,       \* how many nodes it still expects
          nodes, meta  \* what it has read
fileVars == <<old, graph, file, ptr, written, writer,
              stream, snapshot, reading, length, count, nodes, meta>>
writerVars == <<file, ptr, written, writer>>
readVars == <<stream, snapshot, reading, length, count, nodes, meta>>

-----------------------------------------------------------------------------
\* Encodings

\* The digits of n, the least significant first; the number with the digits d.
Digits(base, n, e) == [i \in 1..e |-> Left(base, n, e)[i - 1] % base]
Number(base, d) ==
    LET last[i \in 0..Len(d)] ==
            IF i = 0 THEN 0 ELSE d[Len(d) - i + 1] + base * last[i - 1]
    IN  last[Len(d)]

\* How many bytes n takes.
VarintLen(n) == Min({l \in 1..MaxVarint : Left(Radix, n, MaxVarint)[l] = 0})
\* A variant for the mutation runs: all of what is left, not only a digit.
VarintNotReduced(n) ==
    [i \in 1..VarintLen(n) |-> Left(Radix, n, MaxVarint)[i - 1]
                                   + (IF i < VarintLen(n) THEN Radix ELSE 0)]
\* A varint: the digits of n, each but the last marked.
Varint(n) ==
    [i \in 1..VarintLen(n) |-> Digits(Radix, n, MaxVarint)[i]
                                   + (IF i < VarintLen(n) THEN Radix ELSE 0)]
\* The number a varint at the start of buf stands for; -1 when there is none.
DecodeVarint(buf) ==
    LET ends == {i \in DOMAIN buf : buf[i] < Radix}
    IN  IF ends = {} THEN -1
        ELSE Number(Radix, [i \in 1..Min(ends) |-> buf[i] % Radix])

LittleEndian(n) == Digits(Byte, n, CountBytes)
FromLittleEndian(s) == Number(Byte, s)

\* Each value of a message comes behind a tag, which is never 0.
Tag == 1
Encode(m) == [i \in 1..2 * Len(m) |-> IF i % 2 = 1 THEN Tag ELSE m[i \div 2]]
Decodable(b) == Len(b) % 2 = 0 /\ \A i \in DOMAIN b : i % 2 = 1 => b[i] # 0
Decode(b) == [k \in 1..Len(b) \div 2 |-> b[2 * k]]

Delimited(m) == Varint(Len(Encode(m))) \o Encode(m)

-----------------------------------------------------------------------------
\* serialize_witnesscalc_graph.  Each chunk is one write to the file.

Chunks(g) == 4 + Len(g.nodes)
Chunk(g, k, p) ==
    LET n == Len(g.nodes)
    IN  CASE k = 1 -> Magic
          [] k = 2 -> LittleEndian(n)
          [] k > 2 /\ k <= 2 + n -> Delimited(g.nodes[k - 2])
          [] k = 3 + n -> Delimited(g.meta)
          [] k = 4 + n -> LittleEndian(p)
\* ptr is advanced up to the metadata and not past it.
\* A variant for the mutation runs: past it too.
AdvanceAll(g, k, p) == p + Len(Chunk(g, k, p))
Advance(g, k, p) == IF k <= 2 + Len(g.nodes) THEN p + Len(Chunk(g, k, p)) ELSE p

\* The file after each chunk, with p as the offset at its end; the whole file.
UpTo(g, p) ==
    LET upTo[k \in 0..Chunks(g)] ==
            IF k = 0 THEN <<>> ELSE upTo[k - 1] \o Chunk(g, k, p)
    IN  upTo
Offset(g) == Len(UpTo(g, 0)[2 + Len(g.nodes)])
Written(g) == UpTo(g, Offset(g))[Chunks(g)]

\* The offset has 64 bits as well.
ASSUME OffsetAssumption == \A g \in Graphs : Fits(Byte, Offset(g), CountBytes)

FileInit ==
    /\ old \in Graphs /\ graph \in Graphs
    /\ file = Written(old) /\ ptr = 0 /\ written = 0 /\ writer = "idle"
    /\ stream = <<>> /\ snapshot = <<>> /\ reading = "idle"
    /\ length = 0 /\ count = 0 /\ nodes = <<>> /\ meta = <<>>

\* File::create empties the file.
Create ==
    /\ writer = "idle"
    /\ writer' = "writing" /\ file' = <<>>
    /\ UNCHANGED <<old, graph, ptr, written, readVars>>

WriteChunk ==
    /\ writer = "writing"
    /\ file' = file \o Chunk(graph, written + 1, ptr)
    /\ ptr' = Advance(graph, written + 1, ptr)
    /\ written' = written + 1
    /\ writer' = IF written' = Chunks(graph) THEN "done" ELSE "writing"
    /\ UNCHANGED <<old, graph, readVars>>

\* The process stops, or a write fails, within a chunk.
Crash ==
    /\ writer = "writing"
    /\ \E n \in 0..Len(Chunk(graph, written + 1, ptr)) - 1 :
           file' = file \o SubSeq(Chunk(graph, written + 1, ptr), 1, n)
    /\ writer' = "crashed"
    /\ UNCHANGED <<old, graph, ptr, written, readVars>>

-----------------------------------------------------------------------------
\* deserialize_witnesscalc_graph, from a byte stream (ByteStream).

First(s, n) == SubSeq(s, 1, Min({n, Len(s)}))
Rest(s, n) == SubSeq(s, n + 1, Len(s))
\* A buffer of n zero bytes into which a read puts what there is.
Buffer(s, n) == [i \in 1..n |-> IF i <= Len(s) THEN s[i] ELSE 0]

\* std::fs::read takes the whole file into memory.
Open ==
    /\ reading = "idle"
    /\ stream' = file /\ snapshot' = file
    /\ reading' = "magic"
    /\ UNCHANGED <<old, graph, writerVars, length, count, nodes, meta>>

\* read_exact fails when the file ends.
ReadMagic ==
    /\ reading = "magic"
    /\ reading' = IF First(stream, Len(Magic)) = Magic THEN "count" ELSE "error"
    /\ stream' = Rest(stream, Len(Magic))
    /\ UNCHANGED <<old, graph, writerVars, snapshot, length, count, nodes, meta>>

ReadCount ==
    /\ reading = "count"
    /\ LET s == First(stream, CountBytes)
       IN  IF Len(s) < CountBytes
           THEN reading' = "error" /\ count' = count
           ELSE reading' = "length" /\ count' = FromLittleEndian(s)
    /\ stream' = Rest(stream, CountBytes)
    /\ UNCHANGED <<old, graph, writerVars, snapshot, length, nodes, meta>>

\* A variant for the mutation runs: the length is one byte long.
ReadLengthOneByte ==
    /\ reading = "length"
    /\ LET buf == Buffer(stream, MaxVarint)
           n == DecodeVarint(buf)
       IN  IF n = -1
           THEN reading' = "error" /\ UNCHANGED <<length, stream>>
           ELSE /\ reading' = "message" /\ length' = n
                /\ stream' = Rest(buf, 1) \o Rest(stream, MaxVarint)
    /\ UNCHANGED <<old, graph, writerVars, snapshot, count, nodes, meta>>

\* read_message_length takes as many bytes as a length may have, and gives
\* back those behind the length: all of its buffer, the bytes that the read
\* did not fill among them.
ReadLength ==
    /\ reading = "length"
    /\ LET buf == Buffer(stream, MaxVarint)
           n == DecodeVarint(buf)
       IN  IF n = -1
           THEN reading' = "error" /\ UNCHANGED <<length, stream>>
           ELSE /\ reading' = "message" /\ length' = n
                /\ stream' = Rest(buf, VarintLen(n)) \o Rest(stream, MaxVarint)
    /\ UNCHANGED <<old, graph, writerVars, snapshot, count, nodes, meta>>

\* A variant for the mutation runs: a node without fields is accepted.
ReadMessageEmptyNode ==
    /\ reading = "message"
    /\ LET b == First(stream, length)
           whole == Len(b) = length /\ Decodable(b)
       IN  /\ reading' = CASE ~whole -> "error"
                          [] whole /\ count > 0 -> "length"
                          [] whole /\ count = 0 -> "ok"
           /\ nodes' = IF whole /\ count > 0 THEN Append(nodes, Decode(b)) ELSE nodes
           /\ meta' = IF whole /\ count = 0 THEN Decode(b) ELSE meta
    /\ count' = IF count = 0 THEN 0 ELSE count - 1
    /\ stream' = Rest(stream, length)
    /\ UNCHANGED <<old, graph, writerVars, snapshot, length>>

\* read_message.  A node without fields panics (value.node.unwrap()); the
\* metadata may be empty.
ReadMessage ==
    /\ reading = "message"
    /\ LET b == First(stream, length)
           whole == Len(b) = length /\ Decodable(b)
       IN  /\ reading' = CASE ~whole -> "error"
                          [] whole /\ count > 0 /\ b = <<>> -> "panic"
                          [] whole /\ count > 0 /\ b # <<>> -> "length"
                          [] whole /\ count = 0 -> "ok"
           /\ nodes' = IF whole /\ count > 0 THEN Append(nodes, Decode(b)) ELSE nodes
           /\ meta' = IF whole /\ count = 0 THEN Decode(b) ELSE meta
    /\ count' = IF count = 0 THEN 0 ELSE count - 1
    /\ stream' = Rest(stream, length)
    /\ UNCHANGED <<old, graph, writerVars, snapshot, length>>

FileNext == \/ Create \/ WriteChunk \/ Crash
            \/ Open \/ ReadMagic \/ ReadCount \/ ReadLength \/ ReadMessage
FileSpec == FileInit /\ [][FileNext]_fileVars

-----------------------------------------------------------------------------
\* What is written and read are bytes, and an interrupted writer has written
\* no more than its graph.
FileTypeOK ==
    /\ {old, graph} \subseteq Graphs
    /\ {file, stream, snapshot} \subseteq Seq(Bytes)
    /\ written \in 0..Chunks(graph) /\ ptr \in Nat
    /\ writer \in {"idle", "writing", "done", "crashed"}
    /\ reading \in {"idle", "magic", "count", "length", "message",
                   "ok", "error", "panic"}
    /\ length \in Nat /\ count \in Nat
    /\ nodes \in Seq(Seq(Bytes)) /\ meta \in Seq(Bytes)

Ended == reading \in {"ok", "error", "panic"}
Whole(g) == Written(g) = snapshot

\* A graph that was written to its end is read back as it was written: the
\* bytes each length takes from the next message are all given back.
RoundTrip ==
    \A g \in {old, graph} : Ended /\ Whole(g) =>
        reading = "ok" /\ nodes = g.nodes /\ meta = g.meta

\* The last bytes of a finished file say where its metadata begins
\* (test_deserialize_inputs reads the metadata from there).
OffsetOfMetadata ==
    writer = "done" =>
        LET offset == FromLittleEndian(SubSeq(file, Len(file) - CountBytes + 1,
                                              Len(file)))
        IN  IsPrefix(Delimited(graph.meta), Rest(file, offset))

\* Reading while the file is written, or after its writer has stopped, may
\* only lose the last node and the metadata: every other node is as written.
OnlyTheEndIsLost ==
    reading = "ok" /\ ~Whole(old) =>
        /\ Len(nodes) = Len(graph.nodes)
        /\ \A k \in 1..Len(nodes) - 1 : nodes[k] = graph.nodes[k]

\* A file that ends before its metadata does is refused: "Unexpected EOF"
\* (src/src/storage.rs:204-207).
TruncatedIsRefused ==
    reading = "ok" => \E g \in {old, graph} :
        nodes = g.nodes /\ meta = g.meta
=============================================================================
