---------------------------- MODULE ResponseBuffer ----------------------------
(***************************************************************************)
(* The response buffer of httpRequest, translated from writeCallback in   *)
(*   src/lib/orionld/http/httpRequest.cpp                                 *)
(* curl hands the body over in chunks; each call of writeCallback grows   *)
(* the buffer when the chunk and the terminating NUL do not fit, copies  *)
(* the chunk and writes the NUL at buf[used]. The buffer starts zeroed    *)
(* (bzero(&rBuf), line 238): buf NULL, size 0, used 0. Bytes are counted, *)
(* not modelled one by one.                                               *)
(***************************************************************************)
EXTENDS Integers, Sequences

CONSTANTS
  ChunkSizes,   \* sizes of the chunks curl may deliver
  MaxChunks     \* bound on the number of chunks of one response

xtraBytes == 512

VARIABLES
  buf,          \* "NULL" or "heap" (rBufP->buf)
  size,         \* rBufP->size
  used,         \* rBufP->used
  received,     \* bytes curl delivered so far
  writes        \* history of the buffer writes: [from, to, size] per call

vars == <<buf, size, used, received, writes>>

\* buf is NULL only while nothing has been written: line 99 writes the NUL
\* through buf even for an empty chunk.
TypeOK ==
  /\ buf \in {"NULL", "heap"}
  /\ writes # << >> => buf = "heap"
  /\ size \in Nat /\ used \in Nat /\ received \in Nat
  /\ writes \in Seq([from : Nat, to : Nat, size : Nat])

Init ==
  /\ buf = "NULL" /\ size = 0 /\ used = 0
  /\ received = 0
  /\ writes = << >>

\* MUTANT: the growth test misses the byte of the terminating NUL
MustGrow_noNul(bytesToCopy, rUsed, rSize) == bytesToCopy + rUsed > rSize

\* line 65
MustGrow(bytesToCopy, rUsed, rSize) == bytesToCopy + rUsed >= rSize

\* One call of writeCallback (lines 57-102). Both growth branches (malloc
\* from the internal buffer, realloc otherwise) give a heap buffer of
\* size + bytesToCopy + xtraBytes; malloc failing exits the process.
writeCallback(bytesToCopy) ==
  LET grow    == MustGrow(bytesToCopy, used, size)
      newSize == IF grow THEN size + bytesToCopy + xtraBytes ELSE size
  IN  /\ Len(writes) < MaxChunks
      /\ buf'  = IF grow THEN "heap" ELSE buf
      /\ size' = newSize
      /\ used' = used + bytesToCopy
      /\ received' = received + bytesToCopy
      \* memcpy to buf[used .. used + bytesToCopy - 1], then buf[used'] = 0
      /\ writes' = Append(writes, [from |-> used, to |-> used + bytesToCopy, size |-> newSize])

Done ==
  /\ Len(writes) = MaxChunks
  /\ UNCHANGED vars

Next == (\E n \in ChunkSizes : writeCallback(n)) \/ Done

Spec == Init /\ [][Next]_vars

-----------------------------------------------------------------------------
\* Every write of writeCallback stays inside the buffer it has: the chunk
\* and the NUL written at buf[used] after it (line 99) fit in size bytes,
\* whatever the sequence of chunk sizes, including a chunk that exactly
\* fills the room left; and the buffer holds every byte received, in order.
WritesInBounds ==
  /\ \A i \in 1..Len(writes) : writes[i].to < writes[i].size
  /\ \A i \in 1..Len(writes) - 1 : writes[i + 1].from = writes[i].to
  /\ used = received

=============================================================================
