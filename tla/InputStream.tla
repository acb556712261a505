---------------------------- MODULE InputStream ----------------------------
(***************************************************************************)
(* kasm::CompoundInputFileStream: one input made of pieces of many.        *)
(*                                                                         *)
(* A text is a sequence of characters.  The input is a list of entries,    *)
(* each the part of a file that occupies the positions start .. end - 1 of *)
(* the whole.  Inserting a text at the current position cuts the current   *)
(* entry in two and puts an entry of its own between the halves.  An entry *)
(* pushed with a uid runs the callback when it has been read; a stub, an   *)
(* entry without a file, keeps a uid whose text has been read and whose    *)
(* callback has not run.                                                   *)
(*                                                                         *)
(* A file and a pushed string are kept in one table, under the file's name *)
(* and the string itself.  NULL is no file, or no stream; a file is <<key>> *)
(* otherwise.  The streams' own positions are lost at every change of      *)
(* entry, which seeks: only the current one, pos, is kept.                 *)
(***************************************************************************)
EXTENDS Integers, Sequences, SequencesExt, FiniteSets

Texts == Seq(STRING)

NULL == <<>>

\* ended: the uids the callback was run with, which the client takes.
NewStream == [files |-> [key \in {} |-> <<>>], entries |-> <<>>, it |-> 1, in |-> NULL,
              pos |-> 0, uid |-> 0, ended |-> <<>>]

Text(s, file) == s.files[file[1]]

\* tellgInternal.
TellInternal(s) ==
  IF s.entries = <<>> THEN 0 ELSE s.entries[s.it].start + s.pos - s.entries[s.it].offset

AtEnd(s) == s.in = NULL \/ s.it > Len(s.entries)

-----------------------------------------------------------------------------
(***************************************************************************)
(* eof.                                                                    *)
(***************************************************************************)

\* The position entry i is read from: the current one from pos, the others
\* from their offset.
ReadPos(s, i) == IF i = s.it THEN s.pos ELSE s.entries[i].offset

Spent(s, i) ==
  LET e == s.entries[i]
  IN  \/ e.file = NULL
      \/ ReadPos(s, i) >= Len(Text(s, e.file))
      \/ e.start + ReadPos(s, i) - e.offset >= e.end

\* The uids of the entries stepped over on the way to entry i.
Announced(s, i) ==
  LET announced[n \in 0 .. i - s.it] ==
        IF n = 0 THEN <<>>
        ELSE LET uid == s.entries[s.it + n - 1].uid
             IN  announced[n - 1] \o (IF uid = 0 THEN <<>> ELSE <<uid>>)
  IN  announced[i - s.it]

\* it steps to entry i, and the callback runs for every entry stepped over.
MoveTo(s, i) ==
  [s EXCEPT !.it = i,
            !.in = IF i > Len(s.entries) THEN NULL
                   ELSE IF s.entries[i].file = NULL THEN s.in ELSE s.entries[i].file,
            !.pos = IF i > Len(s.entries) \/ s.entries[i].file = NULL
                    THEN s.pos ELSE s.entries[i].offset,
            !.ended = @ \o Announced(s, i)]

\* The first of a set of entries, or one past the last if it is empty.
First(s, found) ==
  IF found = {} THEN Len(s.entries) + 1 ELSE CHOOSE i \in found : \A j \in found : i <= j

\* Mutant of Settled: the lexer's look ahead forgets the callback of the first
\* entry it leaves.
SettledSilently(s) ==
  IF AtEnd(s) \/ ~Spent(s, s.it) THEN s
  ELSE [MoveTo(s, First(s, {i \in s.it .. Len(s.entries) : ~Spent(s, i)})) EXCEPT !.ended = s.ended]

\* The stream after eof(): at the next character, if there is one.
Settled(s) ==
  IF AtEnd(s) \/ ~Spent(s, s.it) THEN s
  ELSE MoveTo(s, First(s, {i \in s.it .. Len(s.entries) : ~Spent(s, i)}))

Eof(s) == AtEnd(Settled(s))

\* eof(true): it stops before a callback whose text has been read here, leaving
\* a stub to run it later, and at a stub it comes to.
SettledAtStub(s) ==
  IF AtEnd(s) \/ ~Spent(s, s.it) THEN s
  ELSE LET i == First(s, {j \in s.it .. Len(s.entries) :
                            \/ ~Spent(s, j)
                            \/ s.entries[j].file = NULL /\ j # s.it
                            \/ s.entries[j].file # NULL /\ s.entries[j].uid # 0})
           there == IF i = s.it THEN s ELSE MoveTo(s, i)
           e == s.entries[i]
           stub == [file |-> NULL, start |-> 0, end |-> 0, offset |-> 0, uid |-> e.uid]
       IN  IF i > Len(s.entries) \/ ~Spent(s, i) \/ e.file = NULL THEN there
           ELSE [there EXCEPT !.entries = InsertAt([s.entries EXCEPT ![i].uid = 0], i + 1, stub),
                              !.it = i + 1,
                              !.in = e.file]

-----------------------------------------------------------------------------
(***************************************************************************)
(* Reading.                                                                *)
(***************************************************************************)

\* tellg, of a stream that is not at its end.
Tell(s) == TellInternal(Settled(s))

\* get, and ignore: one character further.
Get(s) == LET t == Settled(s) IN IF AtEnd(t) THEN t ELSE [t EXCEPT !.pos = @ + 1]

\* What is left to read of entry i.
Unread(s, i) ==
  LET e == s.entries[i]
  IN  IF Spent(s, i) THEN <<>>
      ELSE SubSeq(Text(s, e.file), ReadPos(s, i) + 1, e.offset + (e.end - e.start))

\* What is left to read: of the last entry, of the last two, and so on.
Rest(s) ==
  LET rest[n \in 0 .. Len(s.entries)] ==
        IF n = 0 THEN <<>> ELSE Unread(s, Len(s.entries) + 1 - n) \o rest[n - 1]
  IN  IF AtEnd(s) THEN <<>> ELSE rest[Len(s.entries) + 1 - s.it]

SeekFails(s, position) ==
  s.entries = <<>> \/ position >= s.entries[Len(s.entries)].end

\* Mutant of Seek: as if every entry were the beginning of its file.
SeekFromStart(s, position) ==
  LET i == First(s, {j \in 1 .. Len(s.entries) :
                       /\ s.entries[j].start <= position /\ position < s.entries[j].end
                       /\ s.entries[j].file # NULL})
  IN  IF i > Len(s.entries) THEN s
      ELSE [s EXCEPT !.it = i, !.in = s.entries[i].file, !.pos = position - s.entries[i].start]

\* seekg: to the first entry that holds the position.
Seek(s, position) ==
  LET i == First(s, {j \in 1 .. Len(s.entries) :
                       /\ s.entries[j].start <= position /\ position < s.entries[j].end
                       /\ s.entries[j].file # NULL})
  IN  IF i > Len(s.entries) THEN s
      ELSE [s EXCEPT !.it = i, !.in = s.entries[i].file,
                     !.pos = position - s.entries[i].start + s.entries[i].offset]

\* Whether size characters can be read here: the current file holds them.
ReadFails(s, size) ==
  LET t == Settled(s) IN ~AtEnd(t) /\ (size < 0 \/ t.pos + size > Len(Text(t, t.in)))

\* read: the characters of the current file, past the entry's end if need be.
ReadText(s, size) == LET t == Settled(s) IN SubSeq(Text(t, t.in), t.pos + 1, t.pos + size)
Read(s, size) == LET t == Settled(s) IN [t EXCEPT !.pos = @ + size]

-----------------------------------------------------------------------------
(***************************************************************************)
(* Inserting.                                                              *)
(***************************************************************************)

\* Mutant of Shift: the end of what is moved back is left where it was.
ShiftStart(entry, length) == [entry EXCEPT !.start = @ + length]

\* An entry behind an insertion of that length.
Shift(entry, length) == [entry EXCEPT !.start = @ + length, !.end = @ + length]

\* pushEntry.  After the last entry "it->end" reads past the list: garbage.
PushEntry(s, key, setUid, garbage) ==
  LET t == SettledAtStub(s)
      length == Len(s.files[key])
      Entry(start) == [file |-> <<key>>, start |-> start, end |-> start + length,
                       offset |-> 0, uid |-> IF setUid THEN s.uid + 1 ELSE 0]
      e == t.entries[t.it]
      cut == TellInternal(t)
      rest == [e EXCEPT !.start = cut, !.offset = cut - e.start + e.offset,
                        !.end = cut + Len(Text(t, e.file)) - (cut - e.start + e.offset)]
      Reading(entries, it) == [t EXCEPT !.entries = entries, !.it = it, !.in = <<key>>,
                                        !.pos = 0, !.uid = IF setUid THEN @ + 1 ELSE @]
  IN  IF s.entries = <<>> THEN Reading(<<Entry(0)>>, 1)
      ELSE IF AtEnd(t) THEN Reading(Append(t.entries, Entry(garbage)), Len(t.entries) + 1)
      ELSE IF e.file = NULL THEN Reading(InsertAt(t.entries, t.it, Entry(e.end)), t.it)
      ELSE Reading(SubSeq(t.entries, 1, t.it - 1)
                   \o <<[e EXCEPT !.end = cut, !.uid = 0], Entry(cut), Shift(rest, length)>>
                   \o [i \in 1 .. Len(t.entries) - t.it |-> Shift(t.entries[t.it + i], length)],
                   t.it + 1)

\* Whether a text inserted now gets its position from what has none, the end of
\* the list or a stub.
Strays(s) ==
  LET t == SettledAtStub(s)
  IN  s.entries # <<>> /\ (AtEnd(t) \/ t.entries[t.it].file = NULL)

\* A key that the table holds already keeps the text it has.
AddFile(s, key, text) ==
  IF key \in DOMAIN s.files THEN s
  ELSE [s EXCEPT !.files = [k \in DOMAIN s.files \cup {key} |->
                              IF k = key THEN text ELSE s.files[k]]]

PushString(s, text, setUid, garbage) ==
  PushEntry(AddFile(s, text, text), text, setUid, garbage)

\* include, of a file that exists; open is an include into an empty stream.
Include(s, name, text, garbage) == PushEntry(AddFile(s, name, text), name, FALSE, garbage)

=============================================================================
