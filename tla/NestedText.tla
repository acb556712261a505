----------------------------- MODULE NestedText -----------------------------
(***************************************************************************)
(* What the input stream promises its reader: one text, read from front to *)
(* back, into which texts are inserted where it is read.  The text of a    *)
(* macro call is followed by a mark, and reading past the mark ends the    *)
(* call, which is then the innermost one.                                  *)
(***************************************************************************)
EXTENDS Integers, Sequences, SequencesExt

VARIABLES
  rest,   \* what is left to read: <<character, 0>>, and <<"end of call", uid>>
  calls   \* the uids of the calls whose text is being read, innermost last

Init == calls = <<>>

Marks(text) == SelectSeq(text, LAMBDA element : element[2] # 0)
Uids(text) == [i \in DOMAIN Marks(text) |-> Marks(text)[i][2]]

\* Reading the first elements of the text ends the calls whose marks are among
\* them, innermost first.
InnermostFirst(read) ==
  LET ended == Uids(read)
  IN  /\ Len(ended) <= Len(calls)
      /\ ended = SubSeq(Reverse(calls), 1, Len(ended))

CallsAfter(read) == SubSeq(calls, 1, Len(calls) - Len(Marks(read)))

\* Reads, and leaves a text that relates to what followed.
Reading(Leaves(_, _, _)) ==
  \E old \in {rest}, new \in {rest'} : \E n \in 0 .. Len(old) :
    LET after == SubSeq(old, n + 1, Len(old))
        read == SubSeq(old, 1, n)
    IN  /\ IsSuffix(after, new)
        /\ InnermostFirst(read)
        /\ Leaves(SubSeq(new, 1, Len(new) - Len(after)), CallsAfter(read), calls')

Read ==
  LET Nothing(inserted, left, now) == inserted = <<>> /\ now = left
  IN  Reading(Nothing)

\* Text is inserted where it is read.
Insert ==
  LET Text(inserted, left, now) == Marks(inserted) = <<>> /\ now = left
  IN  Reading(Text)

\* The text of a macro call is.
Call ==
  LET TextOfCall(inserted, left, now) ==
        /\ inserted # <<>>
        /\ Len(now) = Len(left) + 1
        /\ Front(now) = left
        /\ Last(now) \notin Range(calls)
        /\ Last(inserted) = <<"end of call", Last(now)>>
        /\ Marks(inserted) = <<Last(inserted)>>
  IN  Reading(TextOfCall)

Next == Read \/ Insert \/ Call

Spec == Init /\ [][Next]_<<rest, calls>>

=============================================================================
