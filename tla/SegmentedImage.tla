--------------------------- MODULE SegmentedImage ---------------------------
(***************************************************************************)
(* What the binary builder promises: a memory of two segments, each        *)
(* written without a hole from its first address, and a cursor.  A write   *)
(* puts its bytes at the cursor and moves the cursor behind them; moving   *)
(* the cursor past the end of a segment fills the gap with zero bytes;     *)
(* nothing else in memory ever changes.                                    *)
(***************************************************************************)
EXTENDS Common

CONSTANTS
  Words,        \* the words a client writes
  Strings       \* the byte strings a client writes

VARIABLES
  cursor,   \* the address the next byte is written to
  memory    \* a function from the written addresses to bytes

vars == <<cursor, memory>>

Init == cursor = 0 /\ memory = [a \in {} |-> ZeroByte]

\* e is the first unwritten address of the segment that begins at base.
FirstUnwritten(e, base) ==
  /\ e >= base
  /\ e \notin DOMAIN memory
  /\ \A a \in base .. (e - 1) : a \in DOMAIN memory

SegmentBase(address) ==
  IF address < DATA_SEGMENT_OFFSET THEN 0 ELSE DATA_SEGMENT_OFFSET

\* bytes are put at the cursor.
WriteBytes(bytes) ==
  /\ cursor' = cursor + Len(bytes)
  /\ memory' = [a \in DOMAIN memory \cup cursor .. (cursor + Len(bytes) - 1) |->
                  IF a \in cursor .. (cursor + Len(bytes) - 1)
                  THEN bytes[a - cursor + 1] ELSE memory[a]]

\* The cursor moves, and the unwritten addresses below it become zero bytes.
Move ==
  /\ cursor' \in Nat
  /\ memory' = [a \in DOMAIN memory \cup SegmentBase(cursor') .. (cursor' - 1) |->
                  IF a \in DOMAIN memory THEN memory[a] ELSE ZeroByte]

\* README: ".text  Move the cursor to the first unwritten byte of the text
\* segment", and .data likewise.
ToSegment ==
  /\ \/ FirstUnwritten(cursor', 0)
     \/ FirstUnwritten(cursor', DATA_SEGMENT_OFFSET)
  /\ UNCHANGED memory

Next ==
  \/ \E w \in Words : WriteBytes(WordBytes(w))
  \/ \E s \in Strings : WriteBytes(s)
  \/ Move
  \/ ToSegment

Spec == Init /\ [][Next]_vars

=============================================================================
