------------------------ MODULE MacroExpansionProofs ------------------------
(***************************************************************************)
(* What the input stream does under the lexer, for every source.           *)
(*                                                                         *)
(* A text that is inserted cuts the entry it is put into in two, and moves *)
(* the start and end of every entry behind.  What makes seekg, which knows *)
(* a position and no entry, find its way back is that no two entries claim *)
(* a position: each begins where the one before it ends (Adjoining).  That *)
(* the halves of what was cut are still the same text needs more: only     *)
(* what has been read may be missing of an entry (Ahead).  An insertion at *)
(* the end of the list, or into a stub, has no position to adjoin to; from *)
(* then on (astray) nothing is claimed.                                    *)
(***************************************************************************)
EXTENDS MacroExpansion, RecursiveFunctions

-----------------------------------------------------------------------------
(***************************************************************************)
(* Streams whose entries adjoin.                                           *)
(***************************************************************************)

FileRef == {<<key>> : key \in Texts}
EntryType == [file : FileRef, start : Int, end : Int, offset : Nat, uid : Nat]
\* The functions from texts to S.
Maps(S) == UNION {[keys -> S] : keys \in SUBSET Texts}
Files == Maps(Texts)

StreamType ==
  [files : Files, entries : Seq(EntryType), it : Nat, in : FileRef \cup {NULL}, pos : Nat,
   uid : Nat, ended : Seq(Nat)]

\* The length of the file that entry i is a piece of.
Size(s, i) == Len(Text(s, s.entries[i].file))

\* Every entry is a piece of its file.
Pieces(s) ==
  \A i \in 1 .. Len(s.entries) :
    LET e == s.entries[i]
    IN  /\ e.file[1] \in DOMAIN s.files
        /\ e.start <= e.end
        /\ e.offset + (e.end - e.start) <= Size(s, i)

\* Each begins where the one before it ends.
Adjoining(s) ==
  /\ \A i \in 1 .. Len(s.entries) - 1 : s.entries[i + 1].start = s.entries[i].end
  /\ \A i, j \in 1 .. Len(s.entries) : i < j => s.entries[i].end <= s.entries[j].start

\* The current position is in the current entry's file.
Placed(s) ==
  \/ s.it = Len(s.entries) + 1 /\ s.in = NULL
  \/ /\ s.it \in 1 .. Len(s.entries)
     /\ s.in = s.entries[s.it].file
     /\ s.entries[s.it].offset <= s.pos /\ s.pos <= Size(s, s.it)

\* Nothing but what has been read already was cut off an entry: what follows
\* runs to the end of its file.
Ahead(s) ==
  \A i \in s.it .. Len(s.entries) :
    s.entries[i].offset + (s.entries[i].end - s.entries[i].start) = Size(s, i)

Formed(s) ==
  s \in StreamType /\ s.entries # <<>> /\ Pieces(s) /\ Adjoining(s) /\ Placed(s)

\* The streams that differ from s in what has been read, and no more.
Readings(s) ==
  [files : {s.files}, entries : {s.entries}, it : Nat, in : FileRef \cup {NULL}, pos : Nat,
   uid : {s.uid}, ended : Seq(Nat)]

-----------------------------------------------------------------------------
LEMMA LeastNumber ==
  ASSUME NEW S, S \subseteq Nat, S # {}
  PROVE  \E n \in S : \A m \in S : n <= m
<1> DEFINE Less == OpToRel(<, Nat)
<1>1. IsWellFoundedOn(Less, Nat)
  BY NatLessThanWellFounded
<1>2. \A x, y \in Nat : y < x => <<y, x>> \in Less
  BY DEF OpToRel
<1> HIDE DEF Less
<1>3. PICK x \in S : \A y \in S : <<y, x>> \notin Less
  BY <1>1, WFMin
<1>4. ASSUME NEW m \in S PROVE x <= m
  <2>1. ~(m < x)
    BY <1>2, <1>3
  <2> QED BY <2>1
<1> QED BY <1>4

\* The first of a set of entries.
LEMMA FirstIsFirst ==
  ASSUME NEW s, Len(s.entries) \in Nat, NEW found, found \subseteq 1 .. Len(s.entries)
  PROVE  \/ found = {} /\ First(s, found) = Len(s.entries) + 1
         \/ First(s, found) \in found /\ \A j \in found : First(s, found) <= j
<1>1. CASE found = {}
  BY <1>1 DEF First
<1>2. CASE found # {}
  <2>1. found \subseteq Nat
    OBVIOUS
  <2> HIDE DEF First
  <2>2. \E i \in found : \A j \in found : i <= j
    BY <1>2, <2>1, LeastNumber
  <2> QED BY <1>2, <2>2 DEF First
<1> QED BY <1>1, <1>2

LEMMA FileOfEntry ==
  ASSUME NEW s, Formed(s), NEW i \in 1 .. Len(s.entries)
  PROVE  /\ s.entries[i] \in EntryType /\ s.entries[i].file \in FileRef
         /\ s.entries[i].file # NULL
         /\ Text(s, s.entries[i].file) \in Texts /\ Size(s, i) \in Nat
         /\ s.entries[i].start \in Int /\ s.entries[i].end \in Int
         /\ s.entries[i].offset \in Nat /\ s.entries[i].uid \in Nat
<1>1. s.entries \in Seq(EntryType) /\ s.files \in Files
  BY DEF Formed, StreamType
<1>2. s.entries[i] \in EntryType
  BY <1>1
<1>3. s.entries[i].file \in FileRef
  BY <1>2 DEF EntryType
<1>7. s.entries[i].file # NULL
  BY <1>3 DEF FileRef, NULL
<1>4. s.entries[i].file[1] \in DOMAIN s.files
  BY DEF Formed, Pieces
<1>5. Text(s, s.entries[i].file) \in Texts
  BY <1>1, <1>4 DEF Files, Maps, Text
<1>6. Size(s, i) \in Nat
  BY <1>5 DEF Size, Texts
<1> QED BY <1>2, <1>3, <1>5, <1>6, <1>7 DEF EntryType

-----------------------------------------------------------------------------
(***************************************************************************)
(* Functions computed along the entries.                                   *)
(***************************************************************************)

\* A function defined by recursion over the numbers up to N.
LEMMA BoundedRecursion ==
  ASSUME NEW S, NEW c \in S, NEW N \in Nat, NEW step \in [(1 .. N) \X S -> S]
  PROVE  \E f \in [0 .. N -> S] : Begins(f, N, c, step)
<1> DEFINE further == [x \in Nat \X S |-> IF x[1] \in 1 .. N THEN step[<<x[1], x[2]>>] ELSE c]
<1>1. further \in [Nat \X S -> S]
  OBVIOUS
<1>2. PICK f \in [Nat -> S] : Computes(f, c, further)
  <2> HIDE DEF further
  <2> QED BY <1>1, PrimitiveRecursion
<1> DEFINE g == [n \in 0 .. N |-> f[n]]
<1>3. g \in [0 .. N -> S] /\ g[0] = c
  BY <1>2 DEF Computes
<1>4. ASSUME NEW n \in 1 .. N PROVE g[n] = step[<<n, g[n - 1]>>]
  <2>1. n \in Nat \ {0} /\ n - 1 \in 0 .. N /\ f[n - 1] \in S
    OBVIOUS
  <2>2. f[n] = further[<<n, f[n - 1]>>]
    BY <1>2, <2>1 DEF Computes
  <2> QED BY <2>1, <2>2
<1> HIDE DEF g
<1> QED BY <1>3, <1>4 DEF Begins

\* The uids of the entries stepped over are numbers.
LEMMA AnnouncedTyped ==
  ASSUME NEW s, Formed(s), NEW i \in s.it .. Len(s.entries) + 1
  PROVE  Announced(s, i) \in Seq(Nat)
<1> DEFINE N == i - s.it
           Uid(n) == s.entries[s.it + n - 1].uid
           Of(n) == IF Uid(n) = 0 THEN <<>> ELSE <<Uid(n)>>
           S == Seq(Nat)
           c == <<>>
           step == [x \in (1 .. N) \X S |-> x[2] \o Of(x[1])]
           Is(f) == f = [n \in 0 .. N |->
                           IF n = 0 THEN <<>>
                           ELSE LET uid == s.entries[s.it + n - 1].uid
                                IN  f[n - 1] \o (IF uid = 0 THEN <<>> ELSE <<uid>>)]
<1>1. s.it \in 1 .. Len(s.entries) + 1 /\ Len(s.entries) \in Nat /\ N \in Nat
  BY DEF Formed, StreamType, Placed
<1>2. ASSUME NEW n \in 1 .. N PROVE Uid(n) \in Nat /\ Of(n) \in S
  <2>1. Uid(n) \in Nat
    BY SMTT(30), <1>1, FileOfEntry
  <2> HIDE DEF Uid
  <2> QED BY <2>1
<1>3. c \in S
  OBVIOUS
<1>4. \A a, b \in S : a \o b \in S
  OBVIOUS
<1> HIDE DEF S, N
<1>5. ASSUME NEW g, Is(g)
      PROVE  /\ g = [n \in 0 .. N |-> g[n]] /\ g[0] = c
             /\ \A n \in 1 .. N : g[n] = g[n - 1] \o Of(n)
  <2>1. g = [n \in 0 .. N |-> g[n]]
    BY <1>5
  <2>2. 0 \in 0 .. N /\ \A n \in 1 .. N : n \in 0 .. N /\ n # 0
    BY <1>1
  <2>3. ASSUME NEW n \in 0 .. N
        PROVE  g[n] = IF n = 0 THEN <<>>
                      ELSE LET uid == s.entries[s.it + n - 1].uid
                           IN  g[n - 1] \o (IF uid = 0 THEN <<>> ELSE <<uid>>)
    BY <1>5, Zenon
  <2> QED BY <2>1, <2>2, <2>3, Zenon
<1>6. ASSUME NEW g, g = [n \in 0 .. N |-> g[n]], g[0] = c,
             \A n \in 1 .. N : g[n] = g[n - 1] \o Of(n)
      PROVE  Is(g)
  <2>1. ASSUME NEW n \in 0 .. N PROVE n = 0 \/ n \in 1 .. N
    BY <1>1
  <2> QED BY <1>6, <2>1, Zenon
<1> HIDE DEF Is, Of, c
<1>7. \E f : Is(f)
  <2>1. step \in [(1 .. N) \X S -> S]
    BY <1>2, <1>4
  <2>2. PICK f \in [0 .. N -> S] : Begins(f, N, c, step)
    <3> HIDE DEF step
    <3>1. N \in Nat /\ c \in S /\ step \in [(1 .. N) \X S -> S]
      BY <1>1, <1>3, <2>1
    <3> QED BY <3>1, BoundedRecursion
  <2>3. ASSUME NEW n \in 1 .. N PROVE f[n] = f[n - 1] \o Of(n)
    <3>1. f[n - 1] \in S
      BY <1>1
    <3> QED BY <2>2, <3>1 DEF Begins
  <2> QED BY <1>6, <2>2, <2>3 DEF Begins
<1>8. ASSUME NEW g, Is(g) PROVE g[N] \in S
  <2> DEFINE Typed == {n \in Nat : n <= N => g[n] \in S}
  <2>1. 0 \in Typed
    BY <1>3, <1>5, <1>8
  <2>2. ASSUME NEW n \in Nat, n \in Typed PROVE n + 1 \in Typed
    <3> SUFFICES ASSUME n + 1 <= N PROVE g[n + 1] \in S
      OBVIOUS
    <3>1. n + 1 \in 1 .. N /\ (n + 1) - 1 = n
      BY <1>1
    <3>2. g[n + 1] = g[n] \o Of(n + 1)
      BY <1>5, <1>8, <3>1
    <3>3. g[n] \in S
      BY <1>1, <2>2
    <3> QED BY <1>2, <1>4, <3>1, <3>2, <3>3
  <2> HIDE DEF Typed
  <2>3. Nat \subseteq Typed
    BY <2>1, <2>2, Induction
  <2> QED BY <1>1, <2>3 DEF Typed
<1>9. Announced(s, i) = (CHOOSE g : Is(g))[N]
  BY DEF Announced, Is, N
<1> QED BY <1>7, <1>8, <1>9 DEF S

-----------------------------------------------------------------------------
(***************************************************************************)
(* What is left to read.                                                   *)
(***************************************************************************)

LEMMA UnreadTyped ==
  ASSUME NEW s, Formed(s), NEW i \in 1 .. Len(s.entries)
  PROVE  Unread(s, i) \in Texts
<1> DEFINE e == s.entries[i]
           text == Text(s, e.file)
<1>1. /\ text \in Seq(STRING) /\ e.offset \in Nat /\ e.start \in Int /\ e.end \in Int
      /\ s.pos \in Nat /\ s.it \in Nat /\ Len(text) \in Nat
  BY FileOfEntry DEF Formed, StreamType, Texts
<1>2. e.offset + (e.end - e.start) <= Len(text)
  BY DEF Formed, Pieces, Size
<1>3. ReadPos(s, i) \in Nat
  BY <1>1 DEF ReadPos
<1> HIDE DEF text, e
<1>4. SubSeq(text, ReadPos(s, i) + 1, e.offset + (e.end - e.start)) \in Seq(STRING)
  BY <1>1, <1>2, <1>3
<1>5. <<>> \in Seq(STRING)
  OBVIOUS
<1> QED BY <1>4, <1>5 DEF Unread, Texts, text, e

\* f[n] is what is left to read of the last n entries.
Remains(f, s) ==
  /\ f \in [0 .. Len(s.entries) -> Texts]
  /\ f[0] = <<>>
  /\ \A n \in 1 .. Len(s.entries) : f[n] = Unread(s, Len(s.entries) + 1 - n) \o f[n - 1]

LEMMA TextsJoin ==
  /\ <<>> \in Texts
  /\ \A a, b \in Texts : a \o b \in Texts /\ Len(a) \in Nat
BY DEF Texts

LEMMA RestRemains ==
  ASSUME NEW s, Formed(s)
  PROVE  \E f : /\ Remains(f, s)
                /\ Rest(s) = IF AtEnd(s) THEN <<>> ELSE f[Len(s.entries) + 1 - s.it]
<1> DEFINE N == Len(s.entries)
           U(n) == Unread(s, N + 1 - n)
           c == <<>>
           step == [x \in (1 .. N) \X Texts |-> U(x[1]) \o x[2]]
           Is(f) == f = [n \in 0 .. N |->
                           IF n = 0 THEN <<>> ELSE Unread(s, Len(s.entries) + 1 - n) \o f[n - 1]]
<1>1. N \in Nat
  BY DEF Formed, StreamType
<1>2. ASSUME NEW n \in 1 .. N PROVE U(n) \in Texts
  <2>1. N + 1 - n \in 1 .. N
    BY <1>1
  <2> QED BY <2>1, UnreadTyped
<1>3. c \in Texts
  BY TextsJoin
<1> HIDE DEF N, U
<1>4. ASSUME NEW g, Is(g)
      PROVE  /\ g = [n \in 0 .. N |-> g[n]] /\ g[0] = c
             /\ \A n \in 1 .. N : g[n] = U(n) \o g[n - 1]
  <2>1. g = [n \in 0 .. N |-> g[n]]
    BY <1>4
  <2>2. 0 \in 0 .. N /\ \A n \in 1 .. N : n \in 0 .. N /\ n # 0
    BY <1>1
  <2>3. ASSUME NEW n \in 0 .. N
        PROVE  g[n] = IF n = 0 THEN <<>> ELSE Unread(s, Len(s.entries) + 1 - n) \o g[n - 1]
    BY <1>4, Zenon
  <2> QED BY <2>1, <2>2, <2>3, Zenon DEF U, N
<1>5. ASSUME NEW g, g = [n \in 0 .. N |-> g[n]], g[0] = c,
             \A n \in 1 .. N : g[n] = U(n) \o g[n - 1]
      PROVE  Is(g)
  <2>1. ASSUME NEW n \in 0 .. N PROVE n = 0 \/ n \in 1 .. N
    BY <1>1
  <2> QED BY <1>5, <2>1, Zenon DEF U, N
<1> HIDE DEF Is, c
<1>6. \E f : Is(f)
  <2>1. step \in [(1 .. N) \X Texts -> Texts]
    BY <1>2, TextsJoin
  <2>2. PICK f \in [0 .. N -> Texts] : Begins(f, N, c, step)
    <3> HIDE DEF step
    <3> QED BY <1>1, <1>3, <2>1, BoundedRecursion
  <2>3. ASSUME NEW n \in 1 .. N PROVE f[n] = U(n) \o f[n - 1]
    <3>1. f[n - 1] \in Texts
      BY <1>1
    <3> QED BY <2>2, <3>1 DEF Begins
  <2> QED BY <1>5, <2>2, <2>3 DEF Begins
<1>7. ASSUME NEW g, Is(g) PROVE g \in [0 .. N -> Texts]
  <2> DEFINE Typed == {n \in Nat : n <= N => g[n] \in Texts}
  <2>1. 0 \in Typed
    BY <1>3, <1>4, <1>7
  <2>2. ASSUME NEW n \in Nat, n \in Typed PROVE n + 1 \in Typed
    <3> SUFFICES ASSUME n + 1 <= N PROVE g[n + 1] \in Texts
      OBVIOUS
    <3>1. n + 1 \in 1 .. N /\ (n + 1) - 1 = n
      BY <1>1
    <3>2. g[n + 1] = U(n + 1) \o g[n]
      BY <1>4, <1>7, <3>1
    <3>3. g[n] \in Texts
      BY <1>1, <2>2
    <3> QED BY <1>2, TextsJoin, <3>1, <3>2, <3>3
  <2> HIDE DEF Typed
  <2>3. Nat \subseteq Typed
    BY <2>1, <2>2, Induction
  <2>4. \A n \in 0 .. N : g[n] \in Texts
    BY <1>1, <2>3 DEF Typed
  <2>5. g = [n \in 0 .. N |-> g[n]]
    BY <1>4, <1>7
  <2> QED BY <2>4, <2>5
<1>8. Rest(s) = IF AtEnd(s) THEN <<>> ELSE (CHOOSE g : Is(g))[N + 1 - s.it]
  BY DEF Rest, Is, N
<1>9. Is(CHOOSE g : Is(g))
  BY <1>6
<1> DEFINE f == CHOOSE g : Is(g)
<1>10. Remains(f, s)
  <2> HIDE DEF f
  <2>1. Is(f)
    BY <1>9 DEF f
  <2> QED BY <1>4, <1>7, <2>1 DEF Remains, c, U, N
<1> QED BY <1>8, <1>10 DEF N

\* Of each of the last m entries of two streams the same is left.
EndAlike(r, s, m) ==
  \A n \in 1 .. m : Unread(r, Len(r.entries) + 1 - n) = Unread(s, Len(s.entries) + 1 - n)

\* What is left of the last m entries depends on what is left of each.
LEMMA RemainsAlike ==
  ASSUME NEW r, Formed(r), NEW s, Formed(s), NEW f, NEW g, Remains(f, r), Remains(g, s),
         NEW m \in Nat, m <= Len(r.entries), m <= Len(s.entries), EndAlike(r, s, m)
  PROVE  f[m] = g[m]
<1> DEFINE Alike == {n \in Nat : n <= m => f[n] = g[n]}
<1>1. 0 \in Alike
  BY DEF Remains
<1>2. ASSUME NEW n \in Nat, n \in Alike PROVE n + 1 \in Alike
  <2> SUFFICES ASSUME n + 1 <= m PROVE f[n + 1] = g[n + 1]
    OBVIOUS
  <2>1. /\ n + 1 \in 1 .. Len(r.entries) /\ n + 1 \in 1 .. Len(s.entries) /\ (n + 1) - 1 = n
        /\ n + 1 \in 1 .. m
    <3>1. Len(r.entries) \in Nat /\ Len(s.entries) \in Nat
      BY DEF Formed, StreamType
    <3> QED BY <3>1
  <2>2. f[n] = g[n]
    BY <1>2
  <2>3. /\ f[n + 1] = Unread(r, Len(r.entries) + 1 - (n + 1)) \o f[(n + 1) - 1]
        /\ g[n + 1] = Unread(s, Len(s.entries) + 1 - (n + 1)) \o g[(n + 1) - 1]
    BY <2>1 DEF Remains
  <2> QED BY <2>1, <2>2, <2>3 DEF EndAlike
<1> HIDE DEF Alike
<1>3. Nat \subseteq Alike
  BY <1>1, <1>2, Induction
<1> QED BY <1>3 DEF Alike

\* Entries of which nothing is left add nothing.
LEMMA RemainsBeyond ==
  ASSUME NEW s, Formed(s), NEW f, Remains(f, s), NEW k \in Nat, NEW m \in Nat,
         k <= m, m <= Len(s.entries),
         \A n \in k + 1 .. m : Unread(s, Len(s.entries) + 1 - n) = <<>>
  PROVE  f[m] = f[k]
<1> DEFINE Alike == {n \in Nat : k + n <= m => f[k + n] = f[k]}
<1>0. Len(s.entries) \in Nat
  BY DEF Formed, StreamType
<1>1. 0 \in Alike
  OBVIOUS
<1>2. ASSUME NEW n \in Nat, n \in Alike PROVE n + 1 \in Alike
  <2> SUFFICES ASSUME k + (n + 1) <= m PROVE f[k + (n + 1)] = f[k]
    OBVIOUS
  <2>1. /\ k + (n + 1) \in 1 .. Len(s.entries) /\ (k + (n + 1)) - 1 = k + n
        /\ k + (n + 1) \in k + 1 .. m /\ k + n \in 0 .. Len(s.entries)
    BY <1>0
  <2>2. f[k + n] = f[k]
    BY <1>2
  <2>3. f[k + (n + 1)] = <<>> \o f[k + n]
    BY <2>1 DEF Remains
  <2>4. f[k + n] \in Texts
    BY <2>1 DEF Remains
  <2>5. <<>> \o f[k + n] = f[k + n]
    BY <2>4 DEF Texts
  <2> QED BY <2>2, <2>3, <2>5
<1> HIDE DEF Alike
<1>3. Nat \subseteq Alike
  BY <1>1, <1>2, Induction
<1>4. m - k \in Nat /\ k + (m - k) = m
  OBVIOUS
<1>5. m - k \in Alike
  BY <1>3, <1>4
<1> QED BY <1>4, <1>5 DEF Alike

-----------------------------------------------------------------------------
(***************************************************************************)
(* Moving.                                                                 *)
(***************************************************************************)

\* A stream at its end has no file, another has its entry's.
LEMMA EndOrEntry ==
  ASSUME NEW s, Formed(s)
  PROVE  /\ Len(s.entries) \in Nat \ {0} /\ s.it \in 1 .. Len(s.entries) + 1
         /\ AtEnd(s) <=> s.it = Len(s.entries) + 1
         /\ ~AtEnd(s) => /\ s.it \in 1 .. Len(s.entries)
                         /\ s.in = s.entries[s.it].file
                         /\ s.entries[s.it].offset <= s.pos /\ s.pos <= Size(s, s.it)
<1>1. Len(s.entries) \in Nat \ {0}
  BY DEF Formed, StreamType
<1>2. Placed(s)
  BY DEF Formed
<1>3. CASE s.it = Len(s.entries) + 1 /\ s.in = NULL
  BY <1>1, <1>3 DEF AtEnd
<1>4. CASE /\ s.it \in 1 .. Len(s.entries)
           /\ s.in = s.entries[s.it].file
           /\ s.entries[s.it].offset <= s.pos /\ s.pos <= Size(s, s.it)
  <2>1. s.in # NULL
    BY <1>4, FileOfEntry
  <2> QED BY <1>1, <1>4, <2>1 DEF AtEnd
<1> QED BY <1>2, <1>3, <1>4 DEF Placed

\* Where a reading is well placed, it is formed as the stream is.
LEMMA ReadingFormed ==
  ASSUME NEW s, Formed(s), NEW t \in Readings(s), Placed(t)
  PROVE  /\ Formed(t) /\ Readings(t) = Readings(s)
         /\ t.files = s.files /\ t.entries = s.entries /\ t.uid = s.uid
         /\ \A i : Size(t, i) = Size(s, i)
<1>1. t.files = s.files /\ t.entries = s.entries /\ t.uid = s.uid
  BY DEF Readings
<1>2. \A i : Size(t, i) = Size(s, i)
  BY <1>1 DEF Size, Text
<1>3. t \in StreamType
  BY DEF Formed, StreamType, Readings
<1>4. t.entries # <<>> /\ Pieces(t) /\ Adjoining(t)
  BY <1>1, <1>2 DEF Formed, Pieces, Adjoining
<1>5. Readings(t) = Readings(s)
  BY <1>1 DEF Readings
<1> QED BY <1>1, <1>2, <1>3, <1>4, <1>5 DEF Formed

LEMMA ItselfAReading ==
  ASSUME NEW s, Formed(s)
  PROVE  s \in Readings(s)
BY DEF Formed, StreamType, Readings

LEMMA MoveToForms ==
  ASSUME NEW s, Formed(s), NEW i \in s.it .. Len(s.entries) + 1
  PROVE  LET t == MoveTo(s, i) IN
         /\ t \in Readings(s) /\ Formed(t) /\ t.it = i
         /\ i <= Len(s.entries) => t.pos = s.entries[i].offset
         /\ AtEnd(t) <=> i = Len(s.entries) + 1
<1> DEFINE t == MoveTo(s, i)
           ended == s.ended \o Announced(s, i)
           in == IF i > Len(s.entries) THEN NULL ELSE s.entries[i].file
           pos == IF i > Len(s.entries) THEN s.pos ELSE s.entries[i].offset
<1>1. s \in StreamType /\ Len(s.entries) \in Nat \ {0} /\ i \in 1 .. Len(s.entries) + 1
  BY EndOrEntry DEF Formed
<1>2. ended \in Seq(Nat)
  <2>1. s.ended \in Seq(Nat) /\ Announced(s, i) \in Seq(Nat)
    BY <1>1, AnnouncedTyped DEF StreamType
  <2> HIDE DEF Announced
  <2> QED BY <2>1
<1>3. i <= Len(s.entries) =>
        /\ s.entries[i].file \in FileRef /\ s.entries[i].file # NULL
        /\ s.entries[i].offset \in Nat /\ Size(s, i) \in Nat
        /\ s.entries[i].offset <= Size(s, i)
  <2> SUFFICES ASSUME i <= Len(s.entries)
               PROVE  /\ s.entries[i].file \in FileRef /\ s.entries[i].file # NULL
                      /\ s.entries[i].offset \in Nat /\ Size(s, i) \in Nat
                      /\ s.entries[i].offset <= Size(s, i)
    OBVIOUS
  <2>1. i \in 1 .. Len(s.entries)
    BY <1>1
  <2>2. /\ s.entries[i].start <= s.entries[i].end
        /\ s.entries[i].offset + (s.entries[i].end - s.entries[i].start) <= Size(s, i)
    BY <2>1 DEF Formed, Pieces
  <2> QED BY SMTT(30), <2>1, <2>2, FileOfEntry
<1>4. in \in FileRef \cup {NULL} /\ pos \in Nat
  BY <1>1, <1>3 DEF StreamType
<1>5. t = [s EXCEPT !.it = i, !.in = in, !.pos = pos, !.ended = ended]
  <2>1. in = (IF i > Len(s.entries) THEN NULL
              ELSE IF s.entries[i].file = NULL THEN s.in ELSE s.entries[i].file)
    BY <1>1, <1>3
  <2>2. pos = (IF i > Len(s.entries) \/ s.entries[i].file = NULL
               THEN s.pos ELSE s.entries[i].offset)
    BY <1>1, <1>3
  <2> HIDE DEF in, pos
  <2> QED BY <2>1, <2>2 DEF MoveTo
<1> HIDE DEF t, in, pos, ended
<1>6. /\ t \in Readings(s) /\ t.it = i /\ t.in = in /\ t.pos = pos
      /\ t.entries = s.entries /\ t.files = s.files
  <2>1. i \in Nat
    BY <1>1
  <2>2. /\ t.files = s.files /\ t.entries = s.entries /\ t.it = i /\ t.in = in /\ t.pos = pos
        /\ t.uid = s.uid /\ t.ended = ended
    BY <1>1, <1>5 DEF StreamType
  <2>3. t = [files |-> t.files, entries |-> t.entries, it |-> t.it, in |-> t.in, pos |-> t.pos,
             uid |-> t.uid, ended |-> t.ended]
    BY <1>1, <1>5 DEF StreamType
  <2> QED BY <1>2, <1>4, <2>1, <2>2, <2>3 DEF Readings
<1>7. Placed(t)
  <2>1. Size(t, i) = Size(s, i)
    BY <1>6 DEF Size, Text
  <2> QED BY <1>1, <1>3, <1>6, <2>1 DEF Placed, in, pos
<1>8. Formed(t)
  BY <1>6, <1>7, ReadingFormed
<1> QED BY <1>6, <1>8, EndOrEntry, <1>1 DEF t, pos

LEMMA AheadOfReading ==
  ASSUME NEW s, Formed(s), Ahead(s), NEW t \in Readings(s), s.it <= t.it
  PROVE  Ahead(t)
<1>1. t.entries = s.entries /\ t.files = s.files /\ s.it \in Nat /\ t.it \in Nat
      /\ Len(s.entries) \in Nat
  BY DEF Readings, Formed, StreamType
<1>2. \A i : Size(t, i) = Size(s, i)
  BY <1>1 DEF Size, Text
<1> QED BY <1>1, <1>2 DEF Ahead

\* Stepping over entries that have been read loses nothing.
LEMMA MoveToKeepsRest ==
  ASSUME NEW s, Formed(s), NEW i \in s.it + 1 .. Len(s.entries) + 1,
         \A k \in s.it .. i - 1 : Spent(s, k)
  PROVE  Rest(MoveTo(s, i)) = Rest(s)
<1> DEFINE t == MoveTo(s, i)
           N == Len(s.entries)
<1>1. N \in Nat \ {0} /\ s.it \in 1 .. N /\ i \in s.it .. N + 1 /\ ~AtEnd(s)
  BY EndOrEntry
<1>2. /\ t \in Readings(s) /\ Formed(t) /\ t.it = i
      /\ i <= N => t.pos = s.entries[i].offset
      /\ AtEnd(t) <=> i = N + 1
  BY <1>1, MoveToForms
<1>3. t.entries = s.entries /\ t.files = s.files
  BY <1>2 DEF Readings
<1> HIDE DEF t
<1>4. ASSUME NEW k \in i .. N PROVE Unread(t, k) = Unread(s, k)
  <2>1. ReadPos(t, k) = ReadPos(s, k)
    BY <1>1, <1>2, <1>3 DEF ReadPos
  <2>2. Spent(t, k) = Spent(s, k)
    BY <1>3, <2>1 DEF Spent, Text
  <2> QED BY <1>3, <2>1, <2>2 DEF Unread, Text
<1>5. PICK f : Remains(f, s) /\ Rest(s) = f[N + 1 - s.it]
  BY <1>1, RestRemains
<1>6. PICK g : Remains(g, t) /\ Rest(t) = IF AtEnd(t) THEN <<>> ELSE g[N + 1 - i]
  BY <1>2, <1>3, RestRemains
<1> DEFINE m == N + 1 - i
           l == N + 1 - s.it
<1>7. m \in Nat /\ l \in Nat /\ m <= l /\ l <= N
  BY <1>1
<1>8. f[m] = g[m]
  <2>1. ASSUME NEW n \in 1 .. m PROVE Unread(t, N + 1 - n) = Unread(s, N + 1 - n)
    BY <1>1, <1>4
  <2>2. EndAlike(s, t, m)
    BY <1>3, <2>1 DEF EndAlike
  <2> HIDE DEF m
  <2>3. m <= Len(t.entries) /\ m <= Len(s.entries)
    BY <1>1, <1>3, <1>7
  <2> QED BY <1>2, <1>5, <1>6, <1>7, <2>2, <2>3, RemainsAlike
<1>9. f[l] = f[m]
  <2>1. ASSUME NEW n \in m + 1 .. l PROVE Unread(s, N + 1 - n) = <<>>
    <3>1. N + 1 - n \in s.it .. i - 1
      BY <1>1
    <3> QED BY <3>1 DEF Unread
  <2> HIDE DEF m, l
  <2> QED BY <1>5, <1>7, <2>1, RemainsBeyond
<1>10. AtEnd(t) => g[m] = <<>>
  <2>1. AtEnd(t) => m = 0
    BY <1>1, <1>2
  <2> QED BY <1>6, <2>1 DEF Remains
<1> QED BY <1>5, <1>6, <1>8, <1>9, <1>10 DEF t

\* eof(): on to the next character, or to the end.
LEMMA SettledMoves ==
  ASSUME NEW s, Formed(s)
  PROVE  LET t == Settled(s) IN
         /\ t \in Readings(s) /\ Formed(t) /\ s.it <= t.it /\ Rest(t) = Rest(s)
         /\ ~AtEnd(t) => ~Spent(t, t.it)
         /\ Settled(t) = t
<1> DEFINE t == Settled(s)
           N == Len(s.entries)
           found == {k \in s.it .. N : ~Spent(s, k)}
           i == First(s, found)
<1>0. /\ N \in Nat \ {0} /\ s.it \in 1 .. N + 1
      /\ ~AtEnd(s) => s.it \in 1 .. N
  BY EndOrEntry
<1>1. CASE AtEnd(s) \/ ~Spent(s, s.it)
  <2>1. t = s
    BY <1>1 DEF Settled
  <2> QED BY <1>0, <1>1, <2>1, ItselfAReading
<1>2. CASE ~AtEnd(s) /\ Spent(s, s.it)
  <2>1. t = MoveTo(s, i)
    BY <1>2 DEF Settled
  <2>2. \/ found = {} /\ i = N + 1
        \/ i \in found /\ \A j \in found : i <= j
    <3>1. found \subseteq 1 .. Len(s.entries) /\ Len(s.entries) \in Nat
      BY <1>0
    <3> HIDE DEF found
    <3> QED BY <3>1, FirstIsFirst
  <2>3. i \in s.it + 1 .. N + 1 /\ \A k \in s.it .. i - 1 : Spent(s, k)
    <3> HIDE DEF i
    <3>1. CASE found = {} /\ i = N + 1
      BY <1>0, <1>2, <3>1
    <3>2. CASE i \in found /\ \A j \in found : i <= j
      <4>1. i \in s.it .. N /\ ~Spent(s, i) /\ i # s.it
        BY <1>2, <3>2
      <4>2. ASSUME NEW k \in s.it .. i - 1 PROVE Spent(s, k)
        BY <1>0, <3>2, <4>1
      <4> QED BY <1>0, <4>1, <4>2
    <3> QED BY <2>2, <3>1, <3>2
  <2> DEFINE u == MoveTo(s, i)
  <2>4. /\ u \in Readings(s) /\ Formed(u) /\ u.it = i
        /\ i <= N => u.pos = s.entries[i].offset
        /\ AtEnd(u) <=> i = N + 1
    <3>1. i \in s.it .. N + 1
      BY <1>0, <2>3
    <3> HIDE DEF i, N
    <3> QED BY <3>1, MoveToForms DEF N
  <2>5. Rest(u) = Rest(s)
    <3> HIDE DEF i, N
    <3> QED BY <2>3, MoveToKeepsRest DEF N
  <2>6. ~AtEnd(u) => ~Spent(u, i)
    <3> SUFFICES ASSUME ~AtEnd(u) PROVE ~Spent(u, i)
      OBVIOUS
    <3>1. i \in s.it + 1 .. N /\ ~Spent(s, i)
      <4> HIDE DEF i
      <4> QED BY <1>0, <2>2, <2>3, <2>4
    <3>2. u.entries = s.entries /\ u.files = s.files
      BY <2>4 DEF Readings
    <3>3. ReadPos(u, i) = ReadPos(s, i)
      <4> HIDE DEF u, i
      <4> QED BY <1>0, <2>4, <3>1, <3>2 DEF ReadPos
    <3> HIDE DEF u, i
    <3> QED BY <3>1, <3>2, <3>3 DEF Spent, Text
  <2> HIDE DEF i, u
  <2>7. s.it <= u.it
    BY <1>0, <2>3, <2>4
  <2>8. Settled(u) = u
    BY <2>4, <2>6 DEF Settled
  <2> QED BY <2>1, <2>4, <2>5, <2>6, <2>7, <2>8 DEF u
<1> QED BY <1>1, <1>2

-----------------------------------------------------------------------------
(***************************************************************************)
(* Reading.                                                                *)
(***************************************************************************)

\* What is left of a text when its beginning has been read.
LeftOf(a, b) == \E n \in 0 .. Len(b) : a = SubSeq(b, n + 1, Len(b))

LEMMA LeftOfItself ==
  ASSUME NEW a \in Texts
  PROVE  LeftOf(a, a) /\ LeftOf(<<>>, a)
<1>1. a \in Seq(STRING) /\ Len(a) \in Nat
  BY DEF Texts
<1>2. a = SubSeq(a, 0 + 1, Len(a)) /\ <<>> = SubSeq(a, Len(a) + 1, Len(a))
  BY <1>1
<1>3. 0 \in 0 .. Len(a) /\ Len(a) \in 0 .. Len(a)
  BY <1>1
<1> QED BY <1>2, <1>3 DEF LeftOf

LEMMA LeftOfLeft ==
  ASSUME NEW a, NEW b, NEW c \in Texts, LeftOf(a, b), LeftOf(b, c)
  PROVE  LeftOf(a, c)
<1>0. c \in Seq(STRING) /\ Len(c) \in Nat
  BY DEF Texts
<1>1. PICK n \in 0 .. Len(c) : b = SubSeq(c, n + 1, Len(c))
  BY DEF LeftOf
<1>2. b \in Seq(STRING) /\ Len(b) = Len(c) - n /\ \A k \in 1 .. Len(b) : b[k] = c[k + n]
  BY <1>0, <1>1
<1>3. PICK m \in 0 .. Len(b) : a = SubSeq(b, m + 1, Len(b))
  BY DEF LeftOf
<1>4. n + m \in 0 .. Len(c)
  BY <1>0, <1>2
<1>5. a = SubSeq(c, (n + m) + 1, Len(c))
  <2>1. a \in Seq(STRING) /\ Len(a) = Len(b) - m /\ \A k \in 1 .. Len(a) : a[k] = b[k + m]
    BY <1>2, <1>3
  <2> DEFINE d == SubSeq(c, (n + m) + 1, Len(c))
  <2>2. d \in Seq(STRING) /\ Len(d) = Len(c) - (n + m) /\ \A k \in 1 .. Len(d) : d[k] = c[k + (n + m)]
    BY <1>0, <1>4
  <2>3. Len(a) = Len(d)
    BY <1>0, <1>2, <2>1, <2>2
  <2>4. ASSUME NEW k \in 1 .. Len(a) PROVE a[k] = d[k]
    <3>1. k + m \in 1 .. Len(b)
      BY <1>0, <1>2, <2>1
    <3>2. (k + m) + n = k + (n + m)
      BY <1>0, <1>2, <2>1
    <3> HIDE DEF d
    <3> QED BY <1>2, <2>1, <2>2, <2>3, <3>1, <3>2
  <2> HIDE DEF d
  <2>5. a \in Seq(STRING) /\ d \in Seq(STRING)
    BY <2>1, <2>2
  <2>6. a = d
    BY <2>3, <2>4, <2>5
  <2> QED BY <2>6 DEF d
<1> QED BY <1>4, <1>5 DEF LeftOf

LEMMA LeftOfJoined ==
  ASSUME NEW a, NEW b \in Texts, NEW c \in Texts, LeftOf(a, b)
  PROVE  LeftOf(a \o c, b \o c)
<1>0. b \in Seq(STRING) /\ Len(b) \in Nat /\ c \in Seq(STRING) /\ Len(c) \in Nat
  BY DEF Texts
<1>1. PICK n \in 0 .. Len(b) : a = SubSeq(b, n + 1, Len(b))
  BY DEF LeftOf
<1>2. a \in Seq(STRING) /\ Len(a) = Len(b) - n /\ \A k \in 1 .. Len(a) : a[k] = b[k + n]
  BY <1>0, <1>1
<1> DEFINE d == b \o c
           e == a \o c
           l == SubSeq(d, n + 1, Len(d))
<1>3. /\ d \in Seq(STRING) /\ Len(d) = Len(b) + Len(c)
      /\ \A k \in 1 .. Len(d) : d[k] = IF k <= Len(b) THEN b[k] ELSE c[k - Len(b)]
  BY <1>0
<1>4. /\ e \in Seq(STRING) /\ Len(e) = Len(a) + Len(c)
      /\ \A k \in 1 .. Len(e) : e[k] = IF k <= Len(a) THEN a[k] ELSE c[k - Len(a)]
  <2>1. a \in Seq(STRING) /\ c \in Seq(STRING)
    BY <1>0, <1>2
  <2> QED BY <2>1
<1> HIDE DEF d, e
<1>5. l \in Seq(STRING) /\ Len(l) = Len(d) - n /\ \A k \in 1 .. Len(l) : l[k] = d[k + n]
  BY <1>0, <1>1, <1>3
<1> HIDE DEF l
<1>6. Len(l) = Len(e)
  BY <1>0, <1>2, <1>3, <1>4, <1>5
<1>7. ASSUME NEW k \in 1 .. Len(e) PROVE e[k] = l[k]
  <2>1. k + n \in 1 .. Len(d) /\ l[k] = d[k + n]
    BY <1>0, <1>2, <1>3, <1>4, <1>5, <1>6
  <2>2. CASE k <= Len(a)
    BY SMTT(30), <1>0, <1>2, <1>3, <1>4, <2>1, <2>2
  <2>3. CASE k > Len(a)
    <3>1. k - Len(a) = (k + n) - Len(b) /\ ~(k + n <= Len(b)) /\ ~(k <= Len(a))
      BY <1>0, <1>2, <2>3, <1>4
    <3> QED BY <1>3, <1>4, <2>1, <3>1
  <2> QED BY <1>0, <1>2, <1>4, <2>2, <2>3
<1>8. e = l
  BY <1>4, <1>5, <1>6, <1>7
<1>9. n \in 0 .. Len(d)
  BY <1>0, <1>3
<1> QED BY <1>8, <1>9 DEF LeftOf, d, e, l

\* What is left does not depend on the callbacks, the uids, or the files of which
\* no entry is a piece.
LEMMA SameRest ==
  ASSUME NEW s, Formed(s), NEW t, Formed(t),
         t.entries = s.entries, t.it = s.it, t.pos = s.pos,
         \A k \in 1 .. Len(s.entries) : Text(t, s.entries[k].file) = Text(s, s.entries[k].file)
  PROVE  Rest(t) = Rest(s)
<1> DEFINE N == Len(s.entries)
           m == N + 1 - s.it
<1>2. N \in Nat \ {0} /\ s.it \in 1 .. N + 1 /\ (AtEnd(t) <=> AtEnd(s))
  BY EndOrEntry
<1>3. ASSUME NEW k \in 1 .. N PROVE Unread(t, k) = Unread(s, k)
  <2>1. ReadPos(t, k) = ReadPos(s, k)
    BY DEF ReadPos
  <2> QED BY <2>1 DEF Unread, Spent
<1>4. PICK f : Remains(f, s) /\ Rest(s) = IF AtEnd(s) THEN <<>> ELSE f[N + 1 - s.it]
  BY RestRemains
<1>5. PICK g : Remains(g, t) /\ Rest(t) = IF AtEnd(t) THEN <<>> ELSE g[N + 1 - s.it]
  BY RestRemains
<1>6. EndAlike(s, t, m)
  <2>1. ASSUME NEW n \in 1 .. m PROVE N + 1 - n \in 1 .. N
    BY <1>2
  <2> QED BY <1>3, <2>1 DEF EndAlike
<1>7. m \in Nat /\ m <= Len(s.entries) /\ m <= Len(t.entries)
  BY <1>2
<1> HIDE DEF m
<1>8. f[m] = g[m]
  BY <1>4, <1>5, <1>6, <1>7, RemainsAlike
<1> QED BY <1>2, <1>4, <1>5, <1>8 DEF m

LEMMA EndOfPiece ==
  ASSUME NEW text \in Texts, NEW a \in Nat, NEW p \in Nat, NEW b \in Nat,
         a <= p, p <= b, b <= Len(text)
  PROVE  LeftOf(SubSeq(text, p + 1, b), SubSeq(text, a + 1, b))
<1> DEFINE u == SubSeq(text, a + 1, b)
           v == SubSeq(text, p + 1, b)
           n == p - a
           w == SubSeq(u, n + 1, Len(u))
<1>0. text \in Seq(STRING) /\ Len(text) \in Nat
  BY DEF Texts
<1>1. u \in Seq(STRING) /\ Len(u) = b - a /\ \A k \in 1 .. Len(u) : u[k] = text[a + k]
  BY <1>0
<1>2. v \in Seq(STRING) /\ Len(v) = b - p /\ \A k \in 1 .. Len(v) : v[k] = text[p + k]
  BY <1>0
<1> HIDE DEF u, v
<1>3. n \in 0 .. Len(u) /\ n \in Nat
  BY <1>1
<1>4. w \in Seq(STRING) /\ Len(w) = Len(u) - n /\ \A k \in 1 .. Len(w) : w[k] = u[n + k]
  <2> HIDE DEF n
  <2> QED BY <1>1, <1>3
<1> HIDE DEF w
<1>5. Len(v) = Len(w)
  BY <1>1, <1>2, <1>4
<1>6. ASSUME NEW k \in 1 .. Len(v) PROVE v[k] = w[k]
  <2>1. n + k \in 1 .. Len(u) /\ a + (n + k) = p + k
    <3>1. k \in Nat /\ k <= b - p /\ 1 <= k
      BY <1>2
    <3> QED BY <1>1, <3>1
  <2> HIDE DEF n
  <2> QED BY <1>1, <1>2, <1>4, <1>5, <2>1
<1>7. v = w
  <2>1. v \in Seq(STRING) /\ w \in Seq(STRING)
    BY <1>2, <1>4
  <2> QED BY <1>5, <1>6, <2>1
<1> QED BY <1>3, <1>7 DEF LeftOf, u, v, w

\* Reading on in the current file.
LEMMA ReadOn ==
  ASSUME NEW s, Formed(s), ~AtEnd(s), ~Spent(s, s.it), NEW p \in Int, s.pos <= p, p <= Size(s, s.it)
  PROVE  LET t == [s EXCEPT !.pos = p] IN
         t \in Readings(s) /\ Formed(t) /\ t.it = s.it /\ LeftOf(Rest(t), Rest(s))
<1> DEFINE t == [s EXCEPT !.pos = p]
           N == Len(s.entries)
           m == N + 1 - s.it
           e == s.entries[s.it]
           text == Text(s, e.file)
           b == e.offset + (e.end - e.start)
<1>1. /\ N \in Nat \ {0} /\ s.it \in 1 .. N /\ s.in = e.file /\ s.it # N + 1
      /\ e.offset <= s.pos /\ s.pos <= Size(s, s.it)
  BY EndOrEntry
<1>2. /\ text \in Seq(STRING) /\ Len(text) \in Nat /\ e.offset \in Nat /\ e.start \in Int
      /\ e.end \in Int /\ s.pos \in Nat /\ e.file # NULL /\ Size(s, s.it) = Len(text)
  BY <1>1, FileOfEntry DEF Formed, StreamType, Texts, Size
<1>3. p \in Nat
  BY <1>2
<1>4. /\ t.files = s.files /\ t.entries = s.entries /\ t.it = s.it /\ t.in = s.in /\ t.pos = p
      /\ t.uid = s.uid /\ t.ended = s.ended
      /\ t \in Readings(s)
  BY <1>3 DEF Formed, StreamType, Readings
<1> HIDE DEF t
<1>5. \A i : Size(t, i) = Size(s, i)
  BY <1>4 DEF Size, Text
<1>6. Placed(t)
  BY <1>1, <1>2, <1>4, <1>5 DEF Placed
<1>7. Formed(t) /\ ~AtEnd(t)
  BY <1>1, <1>4, <1>6, ReadingFormed, EndOrEntry
<1>8. ASSUME NEW k, k # s.it PROVE Unread(t, k) = Unread(s, k)
  <2>1. ReadPos(t, k) = ReadPos(s, k)
    BY <1>4, <1>8 DEF ReadPos
  <2> QED BY <1>4, <2>1 DEF Unread, Spent, Text
<1>9. LeftOf(Unread(t, s.it), Unread(s, s.it)) /\ Unread(s, s.it) \in Texts
  <2>1. ReadPos(t, s.it) = p /\ ReadPos(s, s.it) = s.pos
    BY <1>4 DEF ReadPos
  <2>2. Unread(s, s.it) = SubSeq(text, s.pos + 1, b) /\ Unread(s, s.it) \in Texts
    BY <1>1, <2>1, UnreadTyped DEF Unread
  <2>3. \/ Unread(t, s.it) = <<>>
        \/ ~Spent(t, s.it) /\ Unread(t, s.it) = SubSeq(text, p + 1, b)
    BY <1>4, <2>1 DEF Unread, Text
  <2>4. CASE Unread(t, s.it) = <<>>
    BY <2>2, <2>4, LeftOfItself
  <2>5. CASE ~Spent(t, s.it) /\ Unread(t, s.it) = SubSeq(text, p + 1, b)
    <3>0. t.entries[s.it] = e /\ t.it = s.it
      BY <1>4
    <3>1. e.start + p - e.offset < e.end
      <4>1. ~(e.start + ReadPos(t, s.it) - e.offset >= e.end)
        BY <2>5, <3>0 DEF Spent
      <4> HIDE DEF e
      <4> QED BY <1>2, <1>3, <2>1, <4>1
    <3>2. b <= Len(text)
      BY <1>1, <1>2 DEF Formed, Pieces
    <3>3. p <= b /\ b \in Nat
      <4> HIDE DEF e, text
      <4> QED BY <1>2, <1>3, <3>1
    <3>4. text \in Texts
      BY <1>2 DEF Texts
    <3> HIDE DEF text, b, e
    <3>5. LeftOf(SubSeq(text, p + 1, b), SubSeq(text, s.pos + 1, b))
      BY <1>2, <1>3, <3>2, <3>3, <3>4, EndOfPiece
    <3> QED BY <2>2, <2>5, <3>5
  <2> QED BY <2>3, <2>4, <2>5
<1>10. PICK f : Remains(f, s) /\ Rest(s) = f[N + 1 - s.it]
  BY RestRemains
<1>11. PICK g : Remains(g, t) /\ Rest(t) = g[N + 1 - s.it]
  BY <1>4, <1>7, RestRemains
<1>12. f[m - 1] = g[m - 1]
  <2>1. EndAlike(s, t, m - 1)
    <3>1. ASSUME NEW n \in 1 .. m - 1 PROVE N + 1 - n # s.it
      BY <1>1
    <3> QED BY <1>4, <1>8, <3>1 DEF EndAlike
  <2>2. m - 1 \in Nat /\ m - 1 <= Len(s.entries) /\ m - 1 <= Len(t.entries)
    BY <1>1, <1>4
  <2> DEFINE l == m - 1
  <2> HIDE DEF l
  <2>3. f[l] = g[l]
    BY <1>7, <1>10, <1>11, <2>1, <2>2, RemainsAlike DEF l
  <2> QED BY <2>3 DEF l
<1>13. m \in 1 .. N /\ N + 1 - m = s.it /\ m - 1 \in 0 .. N
  BY SMTT(30), <1>1
<1>14. f[m] = Unread(s, s.it) \o f[m - 1] /\ g[m] = Unread(t, s.it) \o g[m - 1] /\ f[m - 1] \in Texts
  <2> HIDE DEF m
  <2> QED BY <1>4, <1>10, <1>11, <1>13 DEF Remains
<1>15. LeftOf(g[m], f[m])
  <2> HIDE DEF m
  <2> QED BY <1>9, <1>12, <1>14, LeftOfJoined
<1> QED BY <1>4, <1>7, <1>10, <1>11, <1>15 DEF t

LEMMA RestTyped ==
  ASSUME NEW s, Formed(s)
  PROVE  Rest(s) \in Texts
<1>1. PICK f : Remains(f, s) /\ Rest(s) = IF AtEnd(s) THEN <<>> ELSE f[Len(s.entries) + 1 - s.it]
  BY RestRemains
<1>2. ~AtEnd(s) => Len(s.entries) + 1 - s.it \in 0 .. Len(s.entries)
  BY EndOrEntry
<1> QED BY <1>1, <1>2, TextsJoin DEF Remains

\* get and ignore.
LEMMA GetReads ==
  ASSUME NEW s, Formed(s)
  PROVE  LET t == Get(s) IN
         t \in Readings(s) /\ Formed(t) /\ s.it <= t.it /\ LeftOf(Rest(t), Rest(s))
<1> DEFINE t == Settled(s)
           u == [t EXCEPT !.pos = t.pos + 1]
<1>1. /\ t \in Readings(s) /\ Formed(t) /\ s.it <= t.it /\ Rest(t) = Rest(s)
      /\ ~AtEnd(t) => ~Spent(t, t.it)
  BY SettledMoves
<1>2. Get(s) = IF AtEnd(t) THEN t ELSE u
  BY DEF Get
<1> HIDE DEF t
<1>3. CASE AtEnd(t)
  BY <1>1, <1>2, <1>3, RestTyped, LeftOfItself
<1>4. CASE ~AtEnd(t)
  <2>1. t.it \in 1 .. Len(t.entries) /\ t.pos \in Nat /\ Size(t, t.it) \in Nat
    BY <1>1, <1>4, EndOrEntry, FileOfEntry DEF Formed, StreamType
  <2>2. ~(t.pos >= Size(t, t.it))
    BY <1>1, <1>4 DEF Spent, ReadPos, Size
  <2> DEFINE p == t.pos + 1
  <2>3. p \in Int /\ t.pos <= p /\ p <= Size(t, t.it)
    BY <2>1, <2>2
  <2> HIDE DEF p
  <2>4. u \in Readings(t) /\ Formed(u) /\ u.it = t.it /\ LeftOf(Rest(u), Rest(t))
    BY <1>1, <1>4, <2>3, ReadOn DEF p
  <2>5. Readings(t) = Readings(s)
    BY <1>1, ReadingFormed DEF Formed
  <2> HIDE DEF u
  <2> QED BY <1>1, <1>2, <1>4, <2>4, <2>5
<1> QED BY <1>3, <1>4

\* read, of characters that the current file holds.
LEMMA ReadReads ==
  ASSUME NEW s, Formed(s), NEW size \in Int, ~ReadFails(s, size), ~AtEnd(Settled(s))
  PROVE  LET t == Read(s, size) IN
         /\ t \in Readings(s) /\ Formed(t) /\ s.it <= t.it /\ LeftOf(Rest(t), Rest(s))
         /\ ReadText(s, size) \in Texts
<1> DEFINE t == Settled(s)
           p == t.pos + size
           u == [t EXCEPT !.pos = p]
           text == Text(t, t.in)
<1>1. /\ t \in Readings(s) /\ Formed(t) /\ s.it <= t.it /\ Rest(t) = Rest(s)
      /\ ~Spent(t, t.it)
  BY SettledMoves
<1>2. Read(s, size) = u /\ ReadText(s, size) = SubSeq(text, t.pos + 1, t.pos + size)
  BY DEF Read, ReadText
<1>3. ~(size < 0 \/ t.pos + size > Len(text)) /\ ~AtEnd(t)
  BY DEF ReadFails
<1> HIDE DEF t
<1>4. /\ t.it \in 1 .. Len(t.entries) /\ t.pos \in Nat /\ t.in = t.entries[t.it].file
      /\ text \in Texts /\ Size(t, t.it) = Len(text)
  BY <1>1, <1>3, EndOrEntry, FileOfEntry DEF Formed, StreamType, Size
<1>5. text \in Seq(STRING) /\ Len(text) \in Nat
  BY <1>4 DEF Texts
<1> HIDE DEF text
<1>6. p \in Int /\ t.pos <= p /\ p <= Size(t, t.it)
  BY <1>3, <1>4, <1>5
<1> HIDE DEF p
<1>7. ReadText(s, size) \in Texts
  <2>1. p \in Nat /\ p <= Len(text) /\ t.pos + 1 \in 1 .. Len(text) + 1
    BY <1>3, <1>4, <1>5, <1>6
  <2>2. SubSeq(text, t.pos + 1, p) \in Seq(STRING)
    BY <1>5, <2>1
  <2> QED BY <1>2, <2>2 DEF Texts, p
<1>8. u \in Readings(t) /\ Formed(u) /\ u.it = t.it /\ LeftOf(Rest(u), Rest(t))
  BY <1>1, <1>3, <1>6, ReadOn
<1>9. Readings(t) = Readings(s)
  BY <1>1, ReadingFormed DEF Formed
<1> HIDE DEF u
<1> QED BY <1>1, <1>2, <1>7, <1>8, <1>9

-----------------------------------------------------------------------------
(***************************************************************************)
(* Going back.                                                             *)
(***************************************************************************)

\* The entries that hold a position.
Holding(s, position) ==
  {j \in 1 .. Len(s.entries) :
     /\ s.entries[j].start <= position /\ position < s.entries[j].end
     /\ s.entries[j].file # NULL}

\* seekg, to any position.
LEMMA SeekForms ==
  ASSUME NEW s, Formed(s), NEW position \in Int
  PROVE  Seek(s, position) \in Readings(s) /\ Formed(Seek(s, position))
<1> DEFINE i == First(s, Holding(s, position))
           pos == position - s.entries[i].start + s.entries[i].offset
           t == [s EXCEPT !.it = i, !.in = s.entries[i].file, !.pos = pos]
<1>1. Seek(s, position) = IF i > Len(s.entries) THEN s ELSE t
  BY DEF Seek, Holding
<1>2. Len(s.entries) \in Nat \ {0}
  BY EndOrEntry
<1>3. i = Len(s.entries) + 1 \/ i \in Holding(s, position)
  BY <1>2, FirstIsFirst DEF Holding
<1>4. CASE i = Len(s.entries) + 1
  BY <1>1, <1>2, <1>4, ItselfAReading
<1>5. CASE i \in Holding(s, position)
  <2> DEFINE e == s.entries[i]
  <2>1. i \in 1 .. Len(s.entries) /\ e.start <= position /\ position < e.end
    BY <1>5 DEF Holding
  <2>2. /\ e.start \in Int /\ e.end \in Int /\ e.offset \in Nat /\ e.file \in FileRef
        /\ Size(s, i) \in Nat
    BY <2>1, FileOfEntry
  <2>3. e.offset + (e.end - e.start) <= Size(s, i)
    BY <2>1 DEF Formed, Pieces
  <2>4. pos \in Nat /\ e.offset <= pos /\ pos <= Size(s, i)
    <3>1. pos = position - e.start + e.offset
      OBVIOUS
    <3> HIDE DEF pos, e, i
    <3> QED BY <2>1, <2>2, <2>3, <3>1
  <2>0. t = [s EXCEPT !.it = i, !.in = e.file, !.pos = pos]
    OBVIOUS
  <2> HIDE DEF i, pos, e, t
  <2>5. /\ t.files = s.files /\ t.entries = s.entries /\ t.it = i /\ t.in = e.file /\ t.pos = pos
        /\ t \in Readings(s)
    <3>1. s \in StreamType /\ i \in Nat
      BY <2>1 DEF Formed
    <3>2. /\ t.files = s.files /\ t.entries = s.entries /\ t.it = i /\ t.in = e.file /\ t.pos = pos
          /\ t.uid = s.uid /\ t.ended = s.ended /\ s.ended \in Seq(Nat)
      BY <2>0, <3>1 DEF StreamType
    <3>3. t = [files |-> t.files, entries |-> t.entries, it |-> t.it, in |-> t.in, pos |-> t.pos,
               uid |-> t.uid, ended |-> t.ended]
      BY <2>0, <3>1 DEF StreamType
    <3> QED BY <2>2, <2>4, <3>1, <3>2, <3>3 DEF Readings
  <2>6. Placed(t)
    <3>1. Size(t, i) = Size(s, i)
      BY <2>5 DEF Size, Text
    <3> QED BY <2>1, <2>4, <2>5, <3>1 DEF Placed, e
  <2>7. Formed(t)
    BY <2>5, <2>6, ReadingFormed
  <2> QED BY <1>1, <1>2, <2>1, <2>5, <2>7 DEF t
<1> QED BY <1>3, <1>4, <1>5

\* No other entry holds the position of the current character, so going back to
\* it is going back to the character, from wherever in the stream.
LEMMA SeekBack ==
  ASSUME NEW s, Formed(s), ~AtEnd(s), ~Spent(s, s.it), NEW t \in Readings(s)
  PROVE  /\ TellInternal(s) \in Int
         /\ Seek(t, TellInternal(s)) = [t EXCEPT !.it = s.it, !.in = s.in, !.pos = s.pos]
<1> DEFINE e == s.entries[s.it]
           here == TellInternal(s)
           i == First(t, Holding(t, here))
<1>1. /\ s.it \in 1 .. Len(s.entries) /\ Len(s.entries) \in Nat /\ s.in = e.file
      /\ e.offset <= s.pos /\ s.pos <= Size(s, s.it) /\ s.pos \in Nat
  BY EndOrEntry DEF Formed, StreamType
<1>2. e.start \in Int /\ e.end \in Int /\ e.offset \in Nat /\ e.file # NULL
  BY <1>1, FileOfEntry
<1>3. here = e.start + s.pos - e.offset /\ t.entries = s.entries
  BY DEF TellInternal, Formed, Readings
<1>4. ~(e.start + s.pos - e.offset >= e.end)
  BY DEF Spent, ReadPos
<1>5. here \in Int /\ e.start <= here /\ here < e.end
  <2> HIDE DEF e, here
  <2> QED BY <1>1, <1>2, <1>3, <1>4
<1>6. Holding(t, here) = {s.it}
  <2>1. s.it \in Holding(t, here)
    <3> HIDE DEF here
    <3> QED BY <1>1, <1>2, <1>3, <1>5 DEF Holding
  <2>2. ASSUME NEW j \in Holding(t, here) PROVE j = s.it
    <3> HIDE DEF here
    <3>1. j \in 1 .. Len(s.entries) /\ s.entries[j].start <= here /\ here < s.entries[j].end
      BY <1>3 DEF Holding
    <3>2. s.entries[j].start \in Int /\ s.entries[j].end \in Int
      BY <3>1, FileOfEntry
    <3>3. j < s.it => s.entries[j].end <= e.start
      BY <1>1, <3>1 DEF Formed, Adjoining
    <3>4. s.it < j => e.end <= s.entries[j].start
      BY <1>1, <3>1 DEF Formed, Adjoining
    <3> HIDE DEF e
    <3>5. ~(j < s.it) /\ ~(s.it < j)
      BY <1>2, <1>5, <3>1, <3>2, <3>3, <3>4
    <3> QED BY <1>1, <3>1, <3>5
  <2> HIDE DEF here
  <2> QED BY <2>1, <2>2
<1>7. i = s.it
  <2>1. Len(t.entries) \in Nat /\ Holding(t, here) \subseteq 1 .. Len(t.entries)
    BY <1>1, <1>3 DEF Holding
  <2> HIDE DEF here
  <2> QED BY <1>6, <2>1, FirstIsFirst
<1>8. Seek(t, here) = IF i > Len(t.entries) THEN t
                      ELSE [t EXCEPT !.it = i, !.in = t.entries[i].file,
                                     !.pos = here - t.entries[i].start + t.entries[i].offset]
  BY DEF Seek, Holding
<1>9. here - e.start + e.offset = s.pos
  <2> HIDE DEF e, here
  <2> QED BY <1>1, <1>2, <1>3
<1>10. Seek(t, here) = [t EXCEPT !.it = s.it, !.in = s.in, !.pos = s.pos]
  <2>1. ~(i > Len(t.entries)) /\ t.entries[i] = e
    BY <1>1, <1>3, <1>7
  <2> HIDE DEF i, here, e
  <2> QED BY <1>1, <1>7, <1>8, <1>9, <2>1
<1> QED BY <1>5, <1>10

-----------------------------------------------------------------------------
(***************************************************************************)
(* Inserting.                                                              *)
(***************************************************************************)

\* Where the text is inserted at a position, that is where eof() moves to.
LEMMA NoStub ==
  ASSUME NEW s, Formed(s),
         LET t == SettledAtStub(s) IN ~(AtEnd(t) \/ t.entries[t.it].file = NULL)
  PROVE  SettledAtStub(s) = Settled(s)
<1> DEFINE N == Len(s.entries)
           found == {k \in s.it .. N : ~Spent(s, k)}
           held == {j \in s.it .. N : \/ ~Spent(s, j)
                                      \/ s.entries[j].file = NULL /\ j # s.it
                                      \/ s.entries[j].file # NULL /\ s.entries[j].uid # 0}
           i == First(s, held)
           e == s.entries[i]
           there == IF i = s.it THEN s ELSE MoveTo(s, i)
           stub == [file |-> NULL, start |-> 0, end |-> 0, offset |-> 0, uid |-> e.uid]
           stubs == InsertAt([s.entries EXCEPT ![i].uid = 0], i + 1, stub)
           stubbed == [there EXCEPT !.entries = stubs, !.it = i + 1, !.in = e.file]
<1>0. /\ N \in Nat \ {0} /\ s.it \in 1 .. N + 1 /\ s \in StreamType
      /\ ~AtEnd(s) => s.it \in 1 .. N
  BY SMTT(30), EndOrEntry DEF Formed
<1>1. CASE AtEnd(s) \/ ~Spent(s, s.it)
  BY Zenon, <1>1 DEF Settled, SettledAtStub
<1>2. CASE ~AtEnd(s) /\ Spent(s, s.it)
  <2>1. SettledAtStub(s) = IF i > N \/ ~Spent(s, i) \/ e.file = NULL THEN there ELSE stubbed
    BY Zenon, <1>2 DEF SettledAtStub
  <2>2. Settled(s) = MoveTo(s, First(s, found))
    BY <1>2 DEF Settled
  <2>3. \/ held = {} /\ i = N + 1
        \/ i \in held /\ \A j \in held : i <= j
    <3>1. held \subseteq 1 .. Len(s.entries) /\ Len(s.entries) \in Nat
      BY <1>0
    <3> HIDE DEF held
    <3> QED BY <3>1, FirstIsFirst
  <2>4. found \subseteq held
    OBVIOUS
  <2>5. held \subseteq s.it .. N /\ \A j \in held : j \in 1 .. N
    BY <1>0
  <2>6. i \in s.it .. N + 1
    <3> HIDE DEF i, held
    <3>1. CASE held = {} /\ i = N + 1
      BY <1>0, <3>1
    <3>2. CASE i \in held
      <4>1. i \in s.it .. N
        BY <2>5, <3>2
      <4> QED BY <1>0, <4>1
    <3> QED BY <2>3, <3>1, <3>2
  <2>7. CASE i = N + 1
    <3>1. SettledAtStub(s) = MoveTo(s, N + 1)
      <4> HIDE DEF i
      <4> QED BY <1>0, <1>2, <2>1, <2>7
    <3>2. AtEnd(MoveTo(s, N + 1))
      BY <1>0, MoveToForms
    <3> QED BY <3>1, <3>2
  <2>8. CASE i \in 1 .. N /\ Spent(s, i)
    <3>1. e.file # NULL
      <4> HIDE DEF i
      <4> QED BY <2>8, FileOfEntry
    <3>2. SettledAtStub(s) = stubbed
      <4> HIDE DEF i, stubbed
      <4> QED BY <1>0, <2>1, <2>8, <3>1
    <3>3. s.entries \in Seq(EntryType)
      BY <1>0 DEF StreamType
    <3>4. stubs[i + 1] = stub
      <4> DEFINE q == [s.entries EXCEPT ![i].uid = 0]
      <4> DEFINE S == {q[x] : x \in 1 .. N} \cup {stub}
                 a == SubSeq(q, 1, i)
                 b == SubSeq(q, i + 1, Len(q))
      <4>1. Len(q) = N /\ q \in Seq(S)
        <5>1. q = [x \in 1 .. N |-> q[x]]
          <6> HIDE DEF i, e, stub
          <6> QED BY <3>3
        <5> HIDE DEF q, stub, i, N
        <5>2. \A x \in 1 .. N : q[x] \in S
          OBVIOUS
        <5> HIDE DEF S
        <5> QED BY <1>0, <5>1, <5>2
      <4>2. stubs = SubSeq(q, 1, (i + 1) - 1) \o <<stub>> \o b
        BY DEF InsertAt
      <4> HIDE DEF i, q, stub, S, stubs
      <4>3. a \in Seq(S) /\ Len(a) = i /\ b \in Seq(S) /\ (i + 1) - 1 = i
        BY <1>0, <2>8, <4>1
      <4>4. stub \in S /\ stubs = (a \o <<stub>>) \o b
        BY <4>2, <4>3 DEF S
      <4> HIDE DEF a, b
      <4>5. a \o <<stub>> \in Seq(S) /\ Len(a \o <<stub>>) = i + 1 /\ (a \o <<stub>>)[i + 1] = stub
        BY <4>3, <4>4, <2>8
      <4> QED BY <4>3, <4>4, <4>5, <2>8
    <3>5. stubbed.entries = stubs /\ stubbed.it = i + 1
      <4>1. there \in StreamType
        <5>1. i \in s.it .. Len(s.entries) + 1
          BY <2>6
        <5> HIDE DEF i
        <5> QED BY <1>0, <5>1, MoveToForms DEF Formed
      <4> HIDE DEF there, stubs, i
      <4> QED BY <4>1 DEF StreamType
    <3>6. stub.file = NULL
      OBVIOUS
    <3> HIDE DEF stubbed, stub, stubs, i
    <3> QED BY <3>2, <3>4, <3>5, <3>6
  <2>9. CASE i \in 1 .. N /\ ~Spent(s, i)
    <3>1. SettledAtStub(s) = MoveTo(s, i)
      <4> HIDE DEF i
      <4> QED BY <1>2, <2>1, <2>9
    <3>2. i \in found /\ \A j \in found : i <= j
      <4>1. i \in found
        <5> HIDE DEF i
        <5> QED BY <2>6, <2>9, <1>0
      <4>2. i \in held
        BY <2>4, <4>1
      <4> HIDE DEF found, held, i
      <4> QED BY <1>0, <2>3, <2>4, <2>5, <4>1, <4>2
    <3> DEFINE k == First(s, found)
    <3>3. k \in found /\ \A j \in found : k <= j
      <4>1. found \subseteq 1 .. Len(s.entries) /\ Len(s.entries) \in Nat /\ found # {}
        BY <1>0, <3>2
      <4> HIDE DEF found, i
      <4> QED BY <4>1, FirstIsFirst
    <3>4. found \subseteq Int
      OBVIOUS
    <3> HIDE DEF k, i, found
    <3>5. k = i
      BY <3>2, <3>3, <3>4
    <3> QED BY <2>2, <3>1, <3>5 DEF k
  <2> HIDE DEF i
  <2> QED BY SMTT(30), <1>0, <2>6, <2>7, <2>8, <2>9
<1> QED BY <1>1, <1>2

LEMMA Joined ==
  ASSUME NEW S, NEW a \in Seq(S), NEW b \in Seq(S)
  PROVE  /\ a \o b \in Seq(S) /\ Len(a \o b) = Len(a) + Len(b)
         /\ Len(a) \in Nat /\ Len(b) \in Nat
         /\ \A k \in 1 .. Len(a) : (a \o b)[k] = a[k]
         /\ \A k \in 1 .. Len(b) : (a \o b)[Len(a) + k] = b[k]
OBVIOUS

\* Three entries in the place of one.
Spliced(q, n, x, y, z, c) == SubSeq(q, 1, n - 1) \o <<x, y, z>> \o c

IsSpliced(d, q, n, x, y, z, c) ==
  /\ Len(d) = Len(q) + 2
  /\ d[n] = x /\ d[n + 1] = y /\ d[n + 2] = z
  /\ \A k \in 1 .. n - 1 : d[k] = q[k]
  /\ \A k \in n + 1 .. Len(q) : d[k + 2] = c[k - n]

LEMMA Splice ==
  ASSUME NEW S, NEW q \in Seq(S), NEW n \in 1 .. Len(q), NEW x \in S, NEW y \in S, NEW z \in S,
         NEW c \in [1 .. Len(q) - n -> S]
  PROVE  /\ Spliced(q, n, x, y, z, c) \in Seq(S)
         /\ IsSpliced(Spliced(q, n, x, y, z, c), q, n, x, y, z, c)
<1> DEFINE a == SubSeq(q, 1, n - 1)
           b == <<x, y, z>>
           l == Len(q) - n
<1>1. a \in Seq(S) /\ Len(a) = n - 1 /\ \A k \in 1 .. n - 1 : a[k] = q[k]
  OBVIOUS
<1>2. b \in Seq(S) /\ Len(b) = 3 /\ b[1] = x /\ b[2] = y /\ b[3] = z
  OBVIOUS
<1>3. c \in Seq(S) /\ Len(c) = l
  <2>1. l \in Nat /\ c = [k \in 1 .. l |-> c[k]] /\ \A k \in 1 .. l : c[k] \in S
    OBVIOUS
  <2> HIDE DEF l
  <2> QED BY <2>1
<1>4. n \in Nat \ {0} /\ n <= Len(q) /\ Len(q) \in Nat
  OBVIOUS
<1> HIDE DEF a, b
<1> DEFINE ab == a \o b
<1>5. /\ ab \in Seq(S) /\ Len(ab) = n + 2 /\ ab[n] = x /\ ab[n + 1] = y /\ ab[n + 2] = z
      /\ \A k \in 1 .. n - 1 : ab[k] = q[k]
  <2>00. a \in Seq(S) /\ b \in Seq(S)
    BY <1>1, <1>2
  <2>0. /\ ab \in Seq(S) /\ Len(ab) = Len(a) + Len(b)
        /\ \A k \in 1 .. Len(b) : ab[Len(a) + k] = b[k]
    BY <2>00, Joined
  <2>1. ab \in Seq(S) /\ Len(ab) = n + 2
    <3> HIDE DEF ab
    <3> QED BY <1>1, <1>2, <1>4, <2>0
  <2>2. \A k \in 1 .. n - 1 : ab[k] = q[k]
    BY <1>1, <1>2, <1>4
  <2>3. \A k \in 1 .. Len(b) : ab[Len(a) + k] = b[k]
    BY <2>0
  <2>4. ab[(n - 1) + 1] = x /\ ab[(n - 1) + 2] = y /\ ab[(n - 1) + 3] = z
    <3> HIDE DEF ab
    <3>1. 1 \in 1 .. Len(b) /\ 2 \in 1 .. Len(b) /\ 3 \in 1 .. Len(b)
      BY <1>2
    <3> QED BY <1>1, <1>2, <2>3, <3>1
  <2>5. (n - 1) + 1 = n /\ (n - 1) + 2 = n + 1 /\ (n - 1) + 3 = n + 2
    BY <1>4
  <2> QED BY <2>1, <2>2, <2>4, <2>5
<1> HIDE DEF ab
<1> DEFINE d == ab \o c
<1>6. d \in Seq(S) /\ Len(d) = Len(q) + 2 /\ \A k \in 1 .. n + 2 : d[k] = ab[k]
  BY SMTT(30), <1>3, <1>4, <1>5
<1>7. ASSUME NEW k \in n + 1 .. Len(q) PROVE d[k + 2] = c[k - n]
  <2>1. k + 2 = Len(ab) + (k - n) /\ k - n \in 1 .. Len(c)
    BY <1>3, <1>4, <1>5
  <2>2. \A m \in 1 .. Len(c) : d[Len(ab) + m] = c[m]
    BY SMTT(30), <1>3, <1>5
  <2> QED BY <2>1, <2>2
<1>8. n \in 1 .. n + 2 /\ n + 1 \in 1 .. n + 2 /\ n + 2 \in 1 .. n + 2 /\ \A k \in 1 .. n - 1 : k \in 1 .. n + 2
  BY <1>4
<1> HIDE DEF d
<1>9. d = Spliced(q, n, x, y, z, c)
  BY DEF d, ab, a, b, Spliced
<1> QED BY <1>5, <1>6, <1>7, <1>8, <1>9 DEF IsSpliced

\* u is s with the text of key inserted where s is read: what happens to each
\* of the entries.
Inserted(u, s, key, setUid) ==
  LET t == Settled(s)
      n == t.it
      e == s.entries[n]
      cut == TellInternal(t)
      length == Len(s.files[key])
  IN  /\ u \in StreamType
      /\ u.files = s.files /\ u.it = n + 1 /\ u.in = <<key>> /\ u.pos = 0
      /\ u.uid = (IF setUid THEN s.uid + 1 ELSE s.uid) /\ u.ended = t.ended
      /\ Len(u.entries) = Len(s.entries) + 2
      /\ \A k \in 1 .. n - 1 : u.entries[k] = s.entries[k]
      /\ u.entries[n] = [e EXCEPT !.end = cut, !.uid = 0]
      /\ u.entries[n + 1] = [file |-> <<key>>, start |-> cut, end |-> cut + length, offset |-> 0,
                             uid |-> IF setUid THEN s.uid + 1 ELSE 0]
      /\ u.entries[n + 2] = [e EXCEPT !.start = cut + length, !.end = @ + length, !.offset = t.pos]
      /\ \A k \in n + 1 .. Len(s.entries) : u.entries[k + 2] = Shift(s.entries[k], length)

LEMMA ShiftTyped ==
  ASSUME NEW e \in EntryType, NEW length \in Int
  PROVE  /\ Shift(e, length) \in EntryType
         /\ Shift(e, length) = [file |-> e.file, start |-> e.start + length, end |-> e.end + length,
                                offset |-> e.offset, uid |-> e.uid]
<1> DEFINE r == [file |-> e.file, start |-> e.start + length, end |-> e.end + length,
                 offset |-> e.offset, uid |-> e.uid]
<1>1. e = [file |-> e.file, start |-> e.start, end |-> e.end, offset |-> e.offset, uid |-> e.uid]
  BY DEF EntryType
<1>2. Shift(e, length) = r
  <2> DEFINE f == Shift(e, length)
             a == e.start + length
             b == e.end + length
  <2>1. f = [e EXCEPT !.start = a, !.end = b]
    BY DEF Shift
  <2> HIDE DEF f, a, b
  <2>2. f = [file |-> e.file, start |-> a, end |-> b, offset |-> e.offset, uid |-> e.uid]
    BY <2>1 DEF EntryType
  <2> QED BY <2>2 DEF f, a, b
<1>3. r \in EntryType
  BY DEF EntryType
<1> QED BY <1>2, <1>3

LEMMA PushEntryInserts ==
  ASSUME NEW s, Formed(s), Ahead(s), NEW key \in DOMAIN s.files, NEW setUid \in BOOLEAN,
         NEW garbage, ~Strays(s)
  PROVE  ~AtEnd(Settled(s)) /\ Inserted(PushEntry(s, key, setUid, garbage), s, key, setUid)
<1> DEFINE t == SettledAtStub(s)
           n == t.it
           e == t.entries[n]
           length == Len(s.files[key])
           Entry(start) == [file |-> <<key>>, start |-> start, end |-> start + length,
                            offset |-> 0, uid |-> IF setUid THEN s.uid + 1 ELSE 0]
           cut == TellInternal(t)
           rest == [e EXCEPT !.start = cut, !.offset = cut - e.start + e.offset,
                             !.end = cut + Len(Text(t, e.file)) - (cut - e.start + e.offset)]
           Reading(entries, it) == [t EXCEPT !.entries = entries, !.it = it, !.in = <<key>>,
                                             !.pos = 0, !.uid = IF setUid THEN @ + 1 ELSE @]
           N == Len(t.entries)
           x == [e EXCEPT !.end = cut, !.uid = 0]
           y == Entry(cut)
           z == Shift(rest, length)
           c == [i \in 1 .. N - n |-> Shift(t.entries[n + i], length)]
           spliced == SubSeq(t.entries, 1, n - 1) \o <<x, y, z>> \o c
           u == PushEntry(s, key, setUid, garbage)
<1>1. u = IF AtEnd(t) THEN Reading(Append(t.entries, Entry(garbage)), N + 1)
          ELSE IF e.file = NULL THEN Reading(InsertAt(t.entries, n, Entry(e.end)), n)
          ELSE Reading(spliced, n + 1)
  BY DEF PushEntry, Formed
<1> HIDE DEF spliced
<1> HIDE DEF Reading
<1>4. ~(AtEnd(t) \/ e.file = NULL)
  BY DEF Formed, Strays
<1>5. t = Settled(s)
  BY <1>4, NoStub
<1> HIDE DEF t
<1>6. u = Reading(spliced, n + 1)
  <2> HIDE DEF u
  <2> QED BY <1>1, <1>4
<1>7. /\ t \in Readings(s) /\ Formed(t) /\ s.it <= t.it /\ ~Spent(t, t.it) /\ Ahead(t)
      /\ t.entries = s.entries /\ t.files = s.files /\ t.uid = s.uid
  BY <1>4, <1>5, SettledMoves, AheadOfReading DEF Readings
<1>8. /\ N \in Nat \ {0} /\ n \in 1 .. N /\ e.offset <= t.pos /\ t.pos <= Size(t, n)
      /\ t.entries \in Seq(EntryType) /\ t.pos \in Nat /\ s.uid \in Nat /\ t.ended \in Seq(Nat)
      /\ t \in StreamType
  BY <1>4, <1>7, EndOrEntry DEF Formed, StreamType
<1>9. /\ e \in EntryType /\ e.start \in Int /\ e.end \in Int /\ e.offset \in Nat
      /\ Size(t, n) \in Nat /\ e.offset + (e.end - e.start) = Size(t, n)
  <2>1. e.offset + (e.end - e.start) = Size(t, n)
    <3>1. n \in t.it .. Len(t.entries)
      BY <1>8
    <3> HIDE DEF n
    <3> QED BY <1>7, <3>1 DEF Ahead
  <2> QED BY <1>7, <1>8, <2>1, FileOfEntry
<1>10. key \in Texts /\ length \in Nat /\ s.files \in Files
  BY DEF Formed, StreamType, Files, Maps, Texts
<1>11. cut = e.start + t.pos - e.offset
  BY <1>7, <1>8 DEF TellInternal, Formed
<1> HIDE DEF length, N, n, e, cut
<1>12. cut \in Int /\ cut - e.start + e.offset = t.pos
  BY SMTT(30), <1>8, <1>9, <1>11
<1>13. rest = [e EXCEPT !.start = cut, !.offset = t.pos, !.end = e.end]
  <2>1. Len(Text(t, e.file)) = Size(t, n)
    BY DEF Size, e
  <2>2. cut + Len(Text(t, e.file)) - t.pos = e.end
    <3>1. t.pos \in Int /\ e.start \in Int /\ e.end \in Int /\ e.offset \in Int /\ Size(t, n) \in Int
      BY <1>8, <1>9
    <3>2. e.offset + (e.end - e.start) = Size(t, n)
      BY <1>9
    <3> QED BY <1>11, <2>1, <3>1, <3>2
  <2> QED BY <1>12, <2>2
<1> HIDE DEF rest
<1>14. z = [e EXCEPT !.start = cut + length, !.end = e.end + length, !.offset = t.pos]
  BY <1>9, <1>13 DEF Shift, EntryType
<1>15. <<key>> \in FileRef
  BY <1>10 DEF FileRef
<1>16. x \in EntryType /\ y \in EntryType /\ z \in EntryType
  <2>1. x \in EntryType
    BY <1>9, <1>12 DEF EntryType
  <2>2. y \in EntryType
    <3>1. (IF setUid THEN s.uid + 1 ELSE 0) \in Nat
      BY <1>8
    <3> QED BY <1>10, <1>12, <1>15, <3>1 DEF EntryType
  <2>3. z \in EntryType
    <3>1. z = [file |-> e.file, start |-> cut + length, end |-> e.end + length, offset |-> t.pos,
               uid |-> e.uid]
      <4> HIDE DEF z
      <4> QED BY <1>9, <1>14 DEF EntryType
    <3> HIDE DEF z
    <3>2. cut + length \in Int /\ e.end + length \in Int /\ e.file \in FileRef /\ e.uid \in Nat
      BY <1>9, <1>10, <1>12 DEF EntryType
    <3> QED BY <1>8, <3>1, <3>2 DEF EntryType
  <2> QED BY <2>1, <2>2, <2>3
<1>17. c \in [1 .. N - n -> EntryType]
  <2>1. ASSUME NEW i \in 1 .. N - n PROVE Shift(t.entries[n + i], length) \in EntryType
    <3>1. n + i \in 1 .. N
      BY <1>8
    <3>2. t.entries[n + i] \in EntryType
      BY <1>8, <3>1 DEF N
    <3> QED BY <1>10, <3>2, ShiftTyped
  <2> QED BY <2>1
<1> USE DEF spliced
<1>18. /\ spliced \in Seq(EntryType) /\ Len(spliced) = N + 2
       /\ spliced[n] = x /\ spliced[n + 1] = y /\ spliced[n + 2] = z
       /\ \A k \in 1 .. n - 1 : spliced[k] = t.entries[k]
       /\ \A k \in n + 1 .. N : spliced[k + 2] = c[k - n]
  <2> HIDE DEF x, y, z, c
  <2>1. n \in 1 .. Len(t.entries) /\ c \in [1 .. Len(t.entries) - n -> EntryType]
    BY <1>8, <1>17 DEF N
  <2>2. /\ spliced \in Seq(EntryType) /\ Len(spliced) = Len(t.entries) + 2
        /\ spliced[n] = x /\ spliced[n + 1] = y /\ spliced[n + 2] = z
        /\ \A k \in 1 .. n - 1 : spliced[k] = t.entries[k]
        /\ \A k \in n + 1 .. Len(t.entries) : spliced[k + 2] = c[k - n]
    <3> DEFINE q == t.entries
    <3>1. q \in Seq(EntryType) /\ n \in 1 .. Len(q) /\ c \in [1 .. Len(q) - n -> EntryType]
      BY <1>8, <2>1
    <3> HIDE DEF q
    <3>2. /\ Spliced(q, n, x, y, z, c) \in Seq(EntryType)
          /\ IsSpliced(Spliced(q, n, x, y, z, c), q, n, x, y, z, c)
      BY <1>16, <3>1, Splice
    <3>3. spliced = Spliced(q, n, x, y, z, c)
      BY DEF Spliced, q
    <3> HIDE DEF spliced
    <3>4. spliced \in Seq(EntryType) /\ IsSpliced(spliced, q, n, x, y, z, c)
      BY <3>2, <3>3
    <3> QED BY <3>4, Zenon DEF q, IsSpliced
  <2> HIDE DEF spliced
  <2> QED BY <2>2 DEF N
<1>19. \A k \in n + 1 .. N : c[k - n] = Shift(t.entries[k], length)
  <2> SUFFICES ASSUME NEW k \in n + 1 .. N PROVE c[k - n] = Shift(t.entries[k], length)
    OBVIOUS
  <2>1. k - n \in 1 .. N - n /\ n + (k - n) = k
    BY <1>8
  <2> QED BY <2>1
<1> HIDE DEF x, y, z, c, spliced
<1>20. /\ u.files = t.files /\ u.entries = spliced /\ u.it = n + 1 /\ u.in = <<key>> /\ u.pos = 0
       /\ u.uid = (IF setUid THEN t.uid + 1 ELSE t.uid) /\ u.ended = t.ended
       /\ u = [files |-> u.files, entries |-> u.entries, it |-> u.it, in |-> u.in, pos |-> u.pos,
               uid |-> u.uid, ended |-> u.ended]
  <2> HIDE DEF u
  <2> QED BY <1>6, <1>8 DEF Reading, StreamType
<1> HIDE DEF u
<1>21. u \in StreamType
  <2>1. u.uid \in Nat /\ u.it \in Nat /\ u.in \in FileRef \cup {NULL}
    BY <1>7, <1>8, <1>15, <1>20
  <2>2. /\ u.files \in Files /\ u.entries \in Seq(EntryType) /\ u.pos \in Nat
        /\ u.ended \in Seq(Nat)
    <3>1. u.files \in Files /\ u.pos \in Nat
      BY <1>7, <1>10, <1>20
    <3>2. u.entries \in Seq(EntryType)
      BY <1>18, <1>20
    <3>3. u.ended \in Seq(Nat)
      BY <1>8, <1>20
    <3> QED BY <3>1, <3>2, <3>3
  <2> QED BY <1>20, <2>1, <2>2 DEF StreamType
<1>22. ~AtEnd(Settled(s))
  BY <1>4, <1>5
<1>23. Inserted(u, s, key, setUid)
  <2>1. /\ n = Settled(s).it /\ e = s.entries[n] /\ cut = TellInternal(Settled(s))
        /\ N = Len(s.entries)
    BY <1>5, <1>7 DEF n, e, cut, N
  <2>2. u.entries[n] = [e EXCEPT !.end = cut, !.uid = 0]
    BY <1>18, <1>20 DEF x
  <2>3. u.entries[n + 1] = [file |-> <<key>>, start |-> cut, end |-> cut + length, offset |-> 0,
                            uid |-> IF setUid THEN s.uid + 1 ELSE 0]
    BY <1>18, <1>20 DEF y
  <2>4. u.entries[n + 2] = [e EXCEPT !.start = cut + length, !.end = @ + length, !.offset = t.pos]
    BY <1>14, <1>18, <1>20
  <2>5. \A k \in n + 1 .. N : u.entries[k + 2] = Shift(s.entries[k], length)
    BY <1>7, <1>18, <1>19, <1>20
  <2>6. \A k \in 1 .. n - 1 : u.entries[k] = s.entries[k]
    BY <1>7, <1>18, <1>20
  <2> QED BY <1>5, <1>7, <1>18, <1>20, <1>21, <2>1, <2>2, <2>3, <2>4, <2>5, <2>6 DEF Inserted, length
<1> QED BY <1>22, <1>23 DEF u

LEMMA InsertedForms ==
  ASSUME NEW s, Formed(s), Ahead(s), NEW key \in DOMAIN s.files, NEW setUid \in BOOLEAN,
         ~AtEnd(Settled(s)), NEW u, Inserted(u, s, key, setUid)
  PROVE  Formed(u) /\ Ahead(u)
<1> DEFINE t == Settled(s)
           n == t.it
           N == Len(s.entries)
           e == s.entries[n]
           cut == TellInternal(t)
           length == Len(s.files[key])
           Start(i) == u.entries[i].start
           End(i) == u.entries[i].end
           S(k) == s.entries[k].start
           E(k) == s.entries[k].end
<1>1. /\ t \in Readings(s) /\ Formed(t) /\ s.it <= n /\ ~Spent(t, n)
      /\ t.entries = s.entries /\ t.files = s.files /\ (\A i : Size(t, i) = Size(s, i))
  BY SettledMoves, ReadingFormed DEF Formed
<1>2. /\ N \in Nat \ {0} /\ n \in 1 .. N /\ e.offset <= t.pos /\ t.pos <= Size(s, n)
      /\ t.pos \in Nat /\ u \in StreamType
  <2>1. t.it \in 1 .. Len(t.entries) /\ t.pos \in Nat /\ Len(t.entries) \in Nat \ {0}
        /\ t.entries[t.it].offset <= t.pos /\ t.pos <= Size(t, t.it)
    BY <1>1, EndOrEntry DEF Formed, StreamType
  <2> HIDE DEF t
  <2> QED BY <1>1, <2>1 DEF Inserted
<1>3. /\ \A k \in 1 .. N : S(k) \in Int /\ E(k) \in Int /\ s.entries[k].offset \in Nat
                          /\ Size(s, k) \in Nat /\ s.entries[k] \in EntryType
      /\ \A k \in 1 .. N : /\ s.entries[k].file[1] \in DOMAIN s.files
                           /\ S(k) <= E(k) /\ s.entries[k].offset + (E(k) - S(k)) <= Size(s, k)
      /\ \A k \in 1 .. N - 1 : S(k + 1) = E(k)
      /\ \A i, j \in 1 .. N : i < j => E(i) <= S(j)
      /\ \A k \in n .. N : s.entries[k].offset + (E(k) - S(k)) = Size(s, k)
  <2>1. \A k \in 1 .. N : S(k) \in Int /\ E(k) \in Int /\ s.entries[k].offset \in Nat
                          /\ Size(s, k) \in Nat /\ s.entries[k] \in EntryType
    BY FileOfEntry
  <2>2. \A k \in 1 .. N : /\ s.entries[k].file[1] \in DOMAIN s.files
                          /\ S(k) <= E(k) /\ s.entries[k].offset + (E(k) - S(k)) <= Size(s, k)
    BY DEF Formed, Pieces
  <2>3. (\A k \in 1 .. N - 1 : S(k + 1) = E(k)) /\ \A i, j \in 1 .. N : i < j => E(i) <= S(j)
    BY DEF Formed, Adjoining
  <2>4. ASSUME NEW k \in n .. N PROVE s.entries[k].offset + (E(k) - S(k)) = Size(s, k)
    <3>1. k \in s.it .. Len(s.entries)
      <4>1. s.it \in Nat
        BY DEF Formed, StreamType
      <4> HIDE DEF n
      <4> QED BY <1>1, <1>2, <4>1
    <3> QED BY <3>1 DEF Ahead
  <2> QED BY <2>1, <2>2, <2>3, <2>4
<1>4. cut = S(n) + t.pos - e.offset /\ cut < E(n)
  <2>1. cut = S(n) + t.pos - e.offset
    BY <1>1, <1>2 DEF TellInternal, Formed
  <2>2. ~(S(n) + t.pos - e.offset >= E(n))
    BY <1>1 DEF Spent, ReadPos
  <2>3. S(n) \in Int /\ E(n) \in Int /\ e.offset \in Nat
    BY <1>2, <1>3
  <2> HIDE DEF S, E, cut, e, n
  <2> QED BY <1>2, <2>1, <2>2, <2>3
<1>5. key \in Texts /\ length \in Nat
  BY DEF Formed, StreamType, Files, Maps, Texts
<1>6. /\ u.files = s.files /\ u.it = n + 1 /\ u.in = <<key>> /\ u.pos = 0
      /\ Len(u.entries) = N + 2
      /\ \A k \in 1 .. n - 1 : u.entries[k] = s.entries[k]
      /\ u.entries[n] = [e EXCEPT !.end = cut, !.uid = 0]
      /\ u.entries[n + 1].file = <<key>> /\ Start(n + 1) = cut /\ End(n + 1) = cut + length
      /\ u.entries[n + 1].offset = 0
      /\ u.entries[n + 2] = [e EXCEPT !.start = cut + length, !.end = @ + length, !.offset = t.pos]
      /\ \A k \in n + 1 .. N : u.entries[k + 2] = Shift(s.entries[k], length)
  BY DEF Inserted
<1> HIDE DEF t
<1>7. \A i : Size(u, i) = Len(s.files[u.entries[i].file[1]])
  BY <1>6 DEF Size, Text
<1>8. /\ u.entries[n].file = e.file /\ Start(n) = S(n) /\ End(n) = cut /\ u.entries[n].offset = e.offset
      /\ u.entries[n + 2].file = e.file /\ Start(n + 2) = cut + length /\ End(n + 2) = E(n) + length
      /\ u.entries[n + 2].offset = t.pos
  <2>1. e \in EntryType
    BY <1>2, <1>3
  <2> HIDE DEF e, n, cut, length
  <2> QED BY <1>6, <2>1 DEF EntryType, e
<1>9. ASSUME NEW k \in n + 1 .. N
      PROVE  /\ u.entries[k + 2].file = s.entries[k].file
             /\ Start(k + 2) = S(k) + length /\ End(k + 2) = E(k) + length
             /\ u.entries[k + 2].offset = s.entries[k].offset
  <2>1. k \in 1 .. N
    BY <1>2
  <2>2. s.entries[k] \in EntryType
    BY <1>3, <2>1
  <2>3. u.entries[k + 2] = Shift(s.entries[k], length)
    BY <1>6
  <2> DEFINE r == s.entries[k]
  <2>4. Shift(r, length) = [file |-> r.file, start |-> r.start + length, end |-> r.end + length,
                            offset |-> r.offset, uid |-> r.uid]
    <3> HIDE DEF r, length
    <3>1. r \in EntryType /\ length \in Int
      BY <1>5, <2>2 DEF r
    <3> QED BY <3>1, ShiftTyped
  <2> HIDE DEF r, length
  <2> QED BY <2>3, <2>4 DEF r
<1> HIDE DEF n, N, cut, length
<1>10. cut \in Int /\ S(n) <= cut /\ cut <= E(n) /\ S(n) \in Int /\ E(n) \in Int /\ e.offset \in Nat
       /\ Size(s, n) \in Nat /\ e.offset + (E(n) - S(n)) = Size(s, n)
  <2>1. n \in n .. N /\ n \in 1 .. N
    BY <1>2
  <2>2. S(n) \in Int /\ E(n) \in Int /\ e.offset \in Nat /\ Size(s, n) \in Nat
    BY <1>3, <2>1
  <2>3. e.offset + (E(n) - S(n)) = Size(s, n)
    BY <1>3, <2>1
  <2> HIDE DEF S, E, e
  <2> QED BY <1>2, <1>4, <2>2, <2>3
\* An entry of u: one before the insertion, one of the three, or one behind.
<1>11. ASSUME NEW i \in 1 .. N + 2
       PROVE  \/ i \in 1 .. n - 1 \/ i = n \/ i = n + 1 \/ i = n + 2
              \/ \E k \in n + 1 .. N : i = k + 2
  <2>1. i > n + 2 => i - 2 \in n + 1 .. N /\ i = (i - 2) + 2
    BY <1>2
  <2> QED BY <1>2, <2>1
<1>12. Pieces(u)
  <2> SUFFICES ASSUME NEW i \in 1 .. N + 2
               PROVE  /\ u.entries[i].file[1] \in DOMAIN s.files /\ Start(i) <= End(i)
                      /\ u.entries[i].offset + (End(i) - Start(i)) <= Size(u, i)
    BY <1>6 DEF Pieces
  <2>1. \A k : u.entries[i].file = s.entries[k].file => Size(u, i) = Size(s, k)
    BY <1>7 DEF Size, Text
  <2>2. CASE i \in 1 .. n - 1
    <3>1. i \in 1 .. N
      BY <1>2, <2>2
    <3> QED BY <1>3, <1>6, <2>1, <2>2, <3>1
  <2>3. CASE i = n
    <3>1. Size(u, i) = Size(s, n) /\ e.file[1] \in DOMAIN s.files
      BY <1>2, <1>3, <1>8, <2>1, <2>3
    <3> HIDE DEF S, E, e, Start, End
    <3>2. e.offset + (cut - S(n)) = t.pos
      BY <1>2, <1>4, <1>10
    <3> QED BY <1>2, <1>8, <1>10, <2>3, <3>1, <3>2 DEF Start, End
  <2>4. CASE i = n + 1
    <3>1. Size(u, i) = length
      BY <1>6, <1>7, <2>4 DEF length
    <3> QED BY SMTT(30), <1>5, <1>6, <1>10, <2>4, <3>1
  <2>5. CASE i = n + 2
    <3>1. Size(u, i) = Size(s, n) /\ e.file[1] \in DOMAIN s.files
      BY <1>2, <1>3, <1>8, <2>1, <2>5
    <3> HIDE DEF S, E, e, Start, End
    <3>2. t.pos + ((E(n) + length) - (cut + length)) = Size(s, n)
      BY <1>2, <1>4, <1>5, <1>10
    <3> QED BY <1>2, <1>5, <1>8, <1>10, <2>5, <3>1, <3>2 DEF Start, End
  <2>6. CASE \E k \in n + 1 .. N : i = k + 2
    <3>1. PICK k \in n + 1 .. N : i = k + 2
      BY <2>6
    <3>2. k \in 1 .. N
      BY <1>2
    <3>3. Size(u, i) = Size(s, k)
      BY <1>9, <2>1, <3>1
    <3>4. /\ S(k) \in Int /\ E(k) \in Int /\ S(k) <= E(k) /\ s.entries[k].file[1] \in DOMAIN s.files
          /\ s.entries[k].offset + (E(k) - S(k)) <= Size(s, k)
      BY <1>3, <3>2
    <3>5. (E(k) + length) - (S(k) + length) = E(k) - S(k) /\ S(k) + length <= E(k) + length
      <4> HIDE DEF S, E
      <4> QED BY <1>5, <3>4
    <3>6. Start(i) = S(k) + length /\ End(i) = E(k) + length /\ u.entries[i].offset = s.entries[k].offset
          /\ u.entries[i].file = s.entries[k].file
      BY <1>9, <3>1
    <3> HIDE DEF S, E, Start, End
    <3> QED BY <3>3, <3>4, <3>5, <3>6
  <2> QED BY <1>11, <2>2, <2>3, <2>4, <2>5, <2>6
<1>13. /\ \A k \in 1 .. n - 1 : Start(k) = S(k) /\ End(k) = E(k)
       /\ \A k \in n + 1 .. N : Start(k + 2) = S(k) + length /\ End(k + 2) = E(k) + length
       /\ \A k \in 1 .. n - 1 : k \in 1 .. N /\ E(k) <= S(n)
       /\ \A k \in n + 1 .. N : k \in 1 .. N /\ E(n) <= S(k)
  <2>1. \A k \in 1 .. n - 1 : Start(k) = S(k) /\ End(k) = E(k)
    BY <1>6
  <2>2. \A k \in n + 1 .. N : Start(k + 2) = S(k) + length /\ End(k + 2) = E(k) + length
    BY <1>9
  <2>3. ASSUME NEW k \in 1 .. n - 1 PROVE k \in 1 .. N /\ E(k) <= S(n)
    <3>1. k \in 1 .. N /\ n \in 1 .. N /\ k < n
      BY <1>2
    <3> QED BY <1>3, <3>1
  <2>4. ASSUME NEW k \in n + 1 .. N PROVE k \in 1 .. N /\ E(n) <= S(k)
    <3>1. k \in 1 .. N /\ n \in 1 .. N /\ n < k
      BY <1>2
    <3> QED BY <1>3, <3>1
  <2> QED BY <2>1, <2>2, <2>3, <2>4
<1>14. /\ Start(n) = S(n) /\ End(n) = cut /\ Start(n + 1) = cut /\ End(n + 1) = cut + length
       /\ Start(n + 2) = cut + length /\ End(n + 2) = E(n) + length
  BY <1>6, <1>8
<1>15. /\ \A k \in 1 .. N : S(k) \in Int /\ E(k) \in Int
       /\ \A k \in 1 .. N - 1 : S(k + 1) = E(k)
       /\ \A i, j \in 1 .. N : i < j => E(i) <= S(j)
  BY <1>3
<1>16. Placed(u) /\ Ahead(u)
  <2>1. Size(u, n + 1) = length
    BY <1>6, <1>7 DEF length
  <2>2. Placed(u)
    BY <1>2, <1>5, <1>6, <2>1 DEF Placed
  <2>3. ASSUME NEW i \in n + 1 .. N + 2
        PROVE  u.entries[i].offset + (End(i) - Start(i)) = Size(u, i)
    <3>1. i \in 1 .. N + 2 /\ (i = n + 1 \/ i = n + 2 \/ \E k \in n + 1 .. N : i = k + 2)
      <4>1. i \in 1 .. N + 2 /\ i # n /\ i \notin 1 .. n - 1
        BY <1>2
      <4> HIDE DEF e, S, E, Start, End
      <4> QED BY <1>11, <4>1
    <3>2. CASE i = n + 1
      <4>1. Start(i) = cut /\ End(i) = cut + length /\ u.entries[i].offset = 0 /\ Size(u, i) = length
        BY <1>6, <1>14, <2>1, <3>2
      <4>2. 0 + ((cut + length) - cut) = length
        <5>1. cut \in Int
          BY <1>10
        <5> QED BY <1>5, <5>1
      <4> HIDE DEF Start, End
      <4> QED BY <4>1, <4>2
    <3>3. CASE i = n + 2
      <4>1. Size(u, i) = Size(s, n)
        BY <1>7, <1>8, <3>3 DEF Size, Text
      <4> HIDE DEF S, E, e, Start, End
      <4>2. t.pos + ((E(n) + length) - (cut + length)) = Size(s, n)
        BY <1>2, <1>4, <1>5, <1>10
      <4> QED BY <1>8, <3>3, <4>1, <4>2 DEF Start, End
    <3>4. CASE \E k \in n + 1 .. N : i = k + 2
      <4>1. PICK k \in n + 1 .. N : i = k + 2
        BY <3>4
      <4>2. k \in 1 .. N /\ k \in n .. N
        BY <1>2
      <4>3. Size(u, i) = Size(s, k)
        BY <1>7, <1>9, <4>1 DEF Size, Text
      <4>4. S(k) \in Int /\ E(k) \in Int /\ s.entries[k].offset + (E(k) - S(k)) = Size(s, k)
        BY <1>3, <4>2
      <4>5. (E(k) + length) - (S(k) + length) = E(k) - S(k)
        <5> HIDE DEF S, E
        <5> QED BY <1>5, <4>4
      <4>6. Start(i) = S(k) + length /\ End(i) = E(k) + length /\ u.entries[i].offset = s.entries[k].offset
        BY <1>9, <4>1
      <4> HIDE DEF S, E, Start, End
      <4> QED BY <4>3, <4>4, <4>5, <4>6
    <3> QED BY <3>1, <3>2, <3>3, <3>4
  <2> QED BY <1>6, <2>2, <2>3 DEF Ahead
<1>17. Adjoining(u)
  <2> HIDE DEF e, S, E, Start, End
  <2>1. ASSUME NEW i \in 1 .. (N + 2) - 1 PROVE Start(i + 1) = End(i)
    <3>1. CASE i \in 1 .. n - 1
      <4>1. i + 1 \in 1 .. n - 1 \/ i + 1 = n
        BY <1>2, <3>1
      <4>2. i \in 1 .. N - 1
        BY <1>2, <3>1
      <4> QED BY <1>13, <1>14, <1>15, <3>1, <4>1, <4>2
    <3>2. CASE i = n \/ i = n + 1
      <4>1. (n + 1) + 1 = n + 2
        BY <1>2
      <4> QED BY <1>14, <3>2, <4>1
    <3>3. CASE i = n + 2
      <4>1. n + 1 \in n + 1 .. N /\ n \in 1 .. N - 1 /\ i + 1 = (n + 1) + 2
        BY <1>2, <3>3
      <4> QED BY <1>13, <1>14, <1>15, <3>3, <4>1
    <3>4. CASE \E k \in n + 1 .. N : i = k + 2
      <4>1. PICK k \in n + 1 .. N : i = k + 2
        BY <3>4
      <4>2. k \in 1 .. N - 1 /\ k + 1 \in n + 1 .. N /\ i + 1 = (k + 1) + 2
        BY <1>2, <4>1
      <4> QED BY <1>13, <1>15, <4>1, <4>2
    <3>5. i \in 1 .. N + 2
      BY <1>2
    <3> QED BY <1>11, <3>1, <3>2, <3>3, <3>4, <3>5
  <2>2. ASSUME NEW j \in n + 1 .. N + 2
        PROVE  /\ cut <= Start(j)
               /\ j # n + 1 => cut + length <= Start(j)
               /\ j # n + 1 /\ j # n + 2 => E(n) + length <= Start(j)
    <3>1. j = n + 1 \/ j = n + 2 \/ \E k \in n + 1 .. N : j = k + 2
      <4>1. j \in 1 .. N + 2 /\ j # n /\ j \notin 1 .. n - 1
        BY <1>2
      <4> QED BY <1>11, <4>1
    <3>2. CASE j = n + 1 \/ j = n + 2
      BY <1>2, <1>5, <1>10, <1>14, <3>2
    <3>3. CASE \E k \in n + 1 .. N : j = k + 2
      <4>1. PICK k \in n + 1 .. N : j = k + 2
        BY <3>3
      <4>2. Start(j) = S(k) + length /\ E(n) <= S(k) /\ S(k) \in Int
        BY <1>13, <1>15, <4>1
      <4> QED BY <1>5, <1>10, <4>2
    <3> QED BY <3>1, <3>2, <3>3
  <2>3. ASSUME NEW i \in 1 .. N + 2, NEW j \in 1 .. N + 2, i < j PROVE End(i) <= Start(j)
    <3>1. CASE i \in 1 .. n - 1
      <4>1. CASE j \in 1 .. n - 1
        BY <1>13, <1>15, <2>3, <3>1, <4>1
      <4>2. CASE j = n
        BY <1>13, <1>14, <3>1, <4>2
      <4>3. CASE j \in n + 1 .. N + 2
        <5>1. E(i) <= S(n) /\ S(n) <= cut /\ E(i) \in Int /\ End(i) = E(i)
          BY <1>10, <1>13, <1>15, <3>1
        <5>2. cut <= Start(j)
          BY <2>2, <4>3
        <5>3. Start(j) \in Int
          <6>1. u.entries[j] \in EntryType
            <7>1. j \in 1 .. Len(u.entries) /\ u.entries \in Seq(EntryType)
              BY <1>2, <1>6 DEF StreamType
            <7> QED BY <7>1
          <6> QED BY <6>1 DEF Start, EntryType
        <5> QED BY <1>10, <5>1, <5>2, <5>3
      <4> QED BY <1>2, <4>1, <4>2, <4>3
    <3>2. CASE i = n
      <4>1. j \in n + 1 .. N + 2
        BY <1>2, <2>3, <3>2
      <4> QED BY <1>14, <2>2, <3>2, <4>1
    <3>3. CASE i = n + 1
      <4>1. j \in n + 1 .. N + 2 /\ j # n + 1
        BY <1>2, <2>3, <3>3
      <4> QED BY <1>14, <2>2, <3>3, <4>1
    <3>4. CASE i = n + 2
      <4>1. j \in n + 1 .. N + 2 /\ j # n + 1 /\ j # n + 2
        BY <1>2, <2>3, <3>4
      <4> QED BY <1>14, <2>2, <3>4, <4>1
    <3>5. CASE \E k \in n + 1 .. N : i = k + 2
      <4>1. PICK k \in n + 1 .. N : i = k + 2
        BY <3>5
      <4>2. k \in 1 .. N /\ j - 2 \in n + 1 .. N /\ j - 2 \in 1 .. N /\ k < j - 2 /\ (j - 2) + 2 = j
        BY <1>2, <2>3, <4>1
      <4>3. E(k) <= S(j - 2) /\ E(k) \in Int /\ S(j - 2) \in Int
        BY <1>15, <4>2
      <4>4. End(i) = E(k) + length /\ Start(j) = S(j - 2) + length
        BY <1>13, <4>1, <4>2
      <4> QED BY <1>5, <4>3, <4>4
    <3> QED BY <1>11, <3>1, <3>2, <3>3, <3>4, <3>5
  <2> QED BY <1>6, <2>1, <2>3 DEF Adjoining, Start, End
<1> QED BY <1>2, <1>6, <1>12, <1>16, <1>17 DEF Formed

\* The text inserted comes first, then what was left before.
LEMMA InsertedRest ==
  ASSUME NEW s, Formed(s), Ahead(s), NEW key \in DOMAIN s.files, NEW setUid \in BOOLEAN,
         ~AtEnd(Settled(s)), NEW u, Inserted(u, s, key, setUid)
  PROVE  Rest(u) = s.files[key] \o Rest(s)
<1> DEFINE t == Settled(s)
           n == t.it
           N == Len(s.entries)
           e == s.entries[n]
           cut == TellInternal(t)
           text == s.files[key]
           length == Len(s.files[key])
           m == N - n
<1>1. /\ t \in Readings(s) /\ Formed(t) /\ s.it <= n /\ ~Spent(t, n) /\ Rest(t) = Rest(s)
      /\ t.entries = s.entries /\ t.files = s.files /\ (\A i : Size(t, i) = Size(s, i))
      /\ Ahead(t)
  BY SettledMoves, ReadingFormed, AheadOfReading DEF Formed
<1>2. /\ N \in Nat \ {0} /\ n \in 1 .. N /\ t.pos \in Nat
  <2>1. t.it \in 1 .. Len(t.entries) /\ t.pos \in Nat /\ Len(t.entries) \in Nat \ {0}
    BY <1>1, EndOrEntry DEF Formed, StreamType
  <2> HIDE DEF t
  <2> QED BY <1>1, <2>1
<1>3. Formed(u) /\ ~AtEnd(u)
  <2>1. Formed(u)
    BY InsertedForms
  <2>2. u.it = n + 1 /\ Len(u.entries) = N + 2
    BY DEF Inserted
  <2> HIDE DEF n, N
  <2> QED BY <1>2, <2>1, <2>2, EndOrEntry
<1>4. /\ u.files = s.files /\ u.it = n + 1 /\ u.pos = 0 /\ Len(u.entries) = N + 2
      /\ u.entries[n + 1].file = <<key>> /\ u.entries[n + 1].start = cut
      /\ u.entries[n + 1].end = cut + length /\ u.entries[n + 1].offset = 0
      /\ u.entries[n + 2] = [e EXCEPT !.start = cut + length, !.end = @ + length, !.offset = t.pos]
      /\ \A k \in n + 1 .. N : u.entries[k + 2] = Shift(s.entries[k], length)
  BY DEF Inserted
<1>5. /\ e \in EntryType /\ e.start \in Int /\ e.end \in Int /\ e.offset \in Nat
      /\ Size(s, n) \in Nat /\ e.offset + (e.end - e.start) = Size(s, n)
      /\ Text(s, e.file) \in Texts /\ Size(s, n) = Len(Text(s, e.file))
  <2>1. n \in t.it .. Len(t.entries)
    <3> HIDE DEF t
    <3> QED BY <1>1, <1>2
  <2>2. t.entries[n].offset + (t.entries[n].end - t.entries[n].start) = Size(t, n)
    <3> HIDE DEF n
    <3> QED BY <1>1, <2>1 DEF Ahead
  <2> HIDE DEF t
  <2> QED BY <1>1, <1>2, <2>2, FileOfEntry DEF Size
<1>6. cut = e.start + t.pos - e.offset /\ cut < e.end /\ t.pos < Size(s, n)
  <2>1. cut = e.start + t.pos - e.offset
    BY <1>1, <1>2 DEF TellInternal, Formed
  <2>2. ~(e.start + t.pos - e.offset >= e.end) /\ ~(t.pos >= Size(s, n))
    BY <1>1 DEF Spent, ReadPos, Size, Text
  <2> HIDE DEF cut, e, n, t
  <2> QED BY <1>2, <1>5, <2>1, <2>2
<1>7. text \in Texts /\ text \in Seq(STRING) /\ length \in Nat /\ length = Len(text)
  BY DEF Formed, StreamType, Files, Maps, Texts
<1> HIDE DEF t
<1>8. /\ u.entries[n + 2].file = e.file /\ u.entries[n + 2].start = cut + length
      /\ u.entries[n + 2].end = e.end + length /\ u.entries[n + 2].offset = t.pos
  <2> HIDE DEF e, n, cut, length
  <2> QED BY <1>4, <1>5 DEF EntryType
<1> HIDE DEF n, N, cut, length, text
\* What is left of the text inserted is all of it.
<1>9. Unread(u, n + 1) = text
  <2>1. ReadPos(u, n + 1) = 0 /\ Text(u, u.entries[n + 1].file) = text
    BY <1>4 DEF ReadPos, Text, text
  <2>2. cut \in Int /\ 0 + ((cut + length) - cut) = length
    <3>1. cut \in Int
      <4> HIDE DEF e
      <4> QED BY <1>2, <1>5, <1>6
    <3> QED BY <1>7, <3>1
  <2>3. <<key>> # NULL
    BY DEF NULL
  <2>4. Spent(u, n + 1) <=> length = 0
    <3>1. Spent(u, n + 1) <=> (0 >= length \/ cut + 0 - 0 >= cut + length)
      BY <1>4, <1>7, <2>1, <2>3 DEF Spent
    <3> QED BY <1>7, <2>2, <3>1
  <2>5. Unread(u, n + 1) = IF length = 0 THEN <<>> ELSE SubSeq(text, 0 + 1, 0 + ((cut + length) - cut))
    BY <1>4, <2>1, <2>4 DEF Unread
  <2>6. SubSeq(text, 0 + 1, length) = text /\ (length = 0 => text = <<>>)
    BY <1>7
  <2> QED BY <2>2, <2>5, <2>6
<1>10. Unread(u, n + 2) = Unread(t, n)
  <2>1. ReadPos(u, n + 2) = t.pos /\ ReadPos(t, n) = t.pos
    BY <1>2, <1>4, <1>8 DEF ReadPos, n
  <2>2. Text(u, e.file) = Text(t, e.file)
    BY <1>1, <1>4 DEF Text
  <2> DEFINE l == Size(s, n)
             w == Text(t, e.file)
  <2>3. w \in Texts /\ l = Len(w)
    BY <1>1, <1>5 DEF Text
  <2>4. t.pos + ((e.end + length) - (cut + length)) = l /\ ~((cut + length) + t.pos - t.pos >= e.end + length)
        /\ ~(t.pos >= l) /\ e.offset + (e.end - e.start) = l
    <3> DEFINE a == e.start
               b == e.end
               c == e.offset
    <3>1. a \in Int /\ b \in Int /\ c \in Nat /\ l \in Nat /\ c + (b - a) = l
          /\ cut = a + t.pos - c /\ cut < b /\ t.pos < l
      BY <1>5, <1>6
    <3> HIDE DEF a, b, c, l, e
    <3>3. cut \in Int
      BY <1>2, <3>1
    <3> DEFINE p == t.pos
    <3>4. p \in Nat /\ length \in Nat /\ cut = a + p - c /\ p < l
      BY <1>2, <1>7, <3>1
    <3> HIDE DEF p
    <3>5. p + ((b + length) - (cut + length)) = l
      BY <3>1, <3>3, <3>4
    <3>6. ~((cut + length) + p - p >= b + length) /\ ~(p >= l)
      BY <3>1, <3>3, <3>4
    <3> QED BY <3>1, <3>5, <3>6 DEF a, b, c, p
  <2>5. e.file # NULL /\ t.entries[n] = e
    BY <1>1, <1>2, FileOfEntry DEF N
  <2> HIDE DEF e, l, w
  <2>6. ~Spent(u, n + 2)
    BY <1>8, <2>1, <2>2, <2>3, <2>4, <2>5 DEF Spent, w
  <2>7. Unread(u, n + 2) = SubSeq(w, t.pos + 1, l)
    BY <1>8, <2>1, <2>2, <2>4, <2>6 DEF Unread, w
  <2>8. Unread(t, n) = SubSeq(w, t.pos + 1, l)
    BY <1>1, <2>1, <2>4, <2>5 DEF Unread, w
  <2> QED BY <2>7, <2>8
<1>11. ASSUME NEW k \in n + 1 .. N PROVE Unread(u, k + 2) = Unread(t, k)
  <2> DEFINE r == s.entries[k]
             q == u.entries[k + 2]
  <2>1. k \in 1 .. Len(s.entries) /\ k # n /\ k + 2 # n + 1
    BY <1>2 DEF N
  <2>2. r \in EntryType /\ r.start \in Int /\ r.end \in Int /\ r.offset \in Nat
    BY <2>1, FileOfEntry
  <2>3. q = [file |-> r.file, start |-> r.start + length, end |-> r.end + length,
             offset |-> r.offset, uid |-> r.uid]
    <3>1. q = Shift(r, length) /\ length \in Int
      BY <1>4, <1>7
    <3> HIDE DEF q, r
    <3> QED BY <2>2, <3>1, ShiftTyped
  <2>4. q.file = r.file /\ q.start = r.start + length /\ q.end = r.end + length /\ q.offset = r.offset
    <3> HIDE DEF q, r
    <3> QED BY <2>3
  <2>5. ReadPos(u, k + 2) = r.offset /\ ReadPos(t, k) = r.offset /\ t.entries[k] = r
    BY <1>1, <1>4, <2>1, <2>4 DEF ReadPos, n
  <2> HIDE DEF q, r
  <2>6. /\ (r.end + length) - (r.start + length) = r.end - r.start
        /\ (r.start + length) + r.offset - r.offset >= r.end + length <=> r.start + r.offset - r.offset >= r.end
    BY <1>7, <2>2
  <2>7. Text(u, r.file) = Text(t, r.file)
    BY <1>1, <1>4 DEF Text
  <2>8. Spent(u, k + 2) <=> Spent(t, k)
    BY <2>4, <2>5, <2>6, <2>7 DEF Spent, q
  <2> QED BY <2>4, <2>5, <2>6, <2>7, <2>8 DEF Unread, q
<1>12. PICK f : Remains(f, t) /\ Rest(t) = f[Len(t.entries) + 1 - t.it]
  <2>1. ~AtEnd(t)
    BY DEF t
  <2> QED BY <1>1, <2>1, RestRemains
<1>13. PICK g : Remains(g, u) /\ Rest(u) = g[Len(u.entries) + 1 - u.it]
  BY <1>3, RestRemains
<1>14. Len(t.entries) = N /\ t.it = n
  BY <1>1 DEF N, n
<1>15. /\ m \in Nat /\ m + 1 \in 1 .. N /\ m + 1 \in 1 .. N + 2 /\ m + 2 \in 1 .. N + 2
       /\ (m + 1) - 1 = m /\ (m + 2) - 1 = m + 1
       /\ N + 1 - (m + 1) = n /\ (N + 2) + 1 - (m + 1) = n + 2 /\ (N + 2) + 1 - (m + 2) = n + 1
       /\ N + 1 - n = m + 1 /\ (N + 2) + 1 - (n + 1) = m + 2 /\ m <= N /\ m <= N + 2
  BY <1>2
<1>16. f[m] = g[m]
  <2>1. ASSUME NEW j \in 1 .. m PROVE Unread(t, N + 1 - j) = Unread(u, (N + 2) + 1 - j)
    <3>1. N + 1 - j \in n + 1 .. N /\ (N + 1 - j) + 2 = (N + 2) + 1 - j
      BY <1>2
    <3> QED BY <1>11, <3>1
  <2>2. EndAlike(t, u, m)
    BY <1>4, <1>14, <2>1 DEF EndAlike
  <2>3. m \in Nat /\ m <= Len(t.entries) /\ m <= Len(u.entries)
    BY <1>4, <1>14, <1>15
  <2>4. Formed(t) /\ Formed(u) /\ Remains(f, t) /\ Remains(g, u)
    BY <1>1, <1>3, <1>12, <1>13
  <2> HIDE DEF m
  <2> QED BY <2>2, <2>3, <2>4, RemainsAlike
<1> HIDE DEF m
<1>17. /\ f[m + 1] = Unread(t, n) \o f[m]
       /\ g[m + 1] = Unread(u, n + 2) \o g[m]
       /\ g[m + 2] = Unread(u, n + 1) \o g[m + 1]
  <2>1. \A j \in 1 .. N : f[j] = Unread(t, N + 1 - j) \o f[j - 1]
    BY <1>12, <1>14 DEF Remains
  <2>2. \A j \in 1 .. N + 2 : g[j] = Unread(u, (N + 2) + 1 - j) \o g[j - 1]
    BY <1>4, <1>13 DEF Remains
  <2>3. f[m + 1] = Unread(t, N + 1 - (m + 1)) \o f[(m + 1) - 1]
    BY <1>15, <2>1
  <2>4. g[m + 1] = Unread(u, (N + 2) + 1 - (m + 1)) \o g[(m + 1) - 1]
    BY <1>15, <2>2
  <2>5. g[m + 2] = Unread(u, (N + 2) + 1 - (m + 2)) \o g[(m + 2) - 1]
    BY <1>15, <2>2
  <2> QED BY <1>15, <2>3, <2>4, <2>5
<1>18. Rest(t) = f[m + 1] /\ Rest(u) = g[m + 2]
  BY <1>4, <1>12, <1>13, <1>14, <1>15
<1>19. f[m + 1] = g[m + 1]
  BY <1>10, <1>16, <1>17
<1> QED BY <1>1, <1>9, <1>17, <1>18, <1>19 DEF text

\* A file of the table more.
LEMMA AddFileKeeps ==
  ASSUME NEW s, Formed(s), NEW key \in Texts, NEW text \in Texts
  PROVE  LET r == AddFile(s, key, text) IN
         /\ Formed(r) /\ (Ahead(s) => Ahead(r)) /\ Rest(r) = Rest(s) /\ key \in DOMAIN r.files
         /\ r.uid = s.uid /\ r.it = s.it /\ r.entries = s.entries
         /\ Strays(r) = Strays(s)
<1> DEFINE r == AddFile(s, key, text)
           keys == DOMAIN s.files \cup {key}
           files == [k \in keys |-> IF k = key THEN text ELSE s.files[k]]
<1>1. CASE key \in DOMAIN s.files
  BY <1>1 DEF AddFile
<1>2. CASE key \notin DOMAIN s.files
  <2>1. r = [s EXCEPT !.files = files]
    BY <1>2 DEF AddFile
  <2>2. s \in StreamType /\ s.files \in Files
    BY DEF Formed, StreamType
  <2>3. files \in Files
    <3>1. PICK K \in SUBSET Texts : s.files \in [K -> Texts]
      BY <2>2 DEF Files, Maps
    <3>2. keys \in SUBSET Texts /\ DOMAIN s.files = K
      BY <3>1
    <3>3. files \in [keys -> Texts]
      BY <3>1, <3>2
    <3> HIDE DEF files, keys
    <3> QED BY <3>2, <3>3 DEF Files, Maps
  <2>4. /\ \A k \in DOMAIN s.files : k \in DOMAIN files /\ files[k] = s.files[k]
        /\ key \in DOMAIN files
    BY <1>2
  <2> HIDE DEF files, r
  <2>5. /\ r.files = files /\ r.entries = s.entries /\ r.it = s.it /\ r.in = s.in /\ r.pos = s.pos
        /\ r.uid = s.uid /\ r.ended = s.ended
        /\ r = [files |-> r.files, entries |-> r.entries, it |-> r.it, in |-> r.in, pos |-> r.pos,
                uid |-> r.uid, ended |-> r.ended]
    BY <2>1, <2>2 DEF StreamType
  <2>6. r \in StreamType
    BY <2>2, <2>3, <2>5 DEF StreamType
  <2>7. \A k \in 1 .. Len(s.entries) : s.entries[k].file[1] \in DOMAIN s.files
    BY DEF Formed, Pieces
  <2>8. \A k \in 1 .. Len(s.entries) : /\ Text(r, s.entries[k].file) = Text(s, s.entries[k].file)
                                       /\ Size(r, k) = Size(s, k)
    BY <2>4, <2>5, <2>7 DEF Text, Size
  <2>9. Pieces(r) /\ Adjoining(r)
    BY <2>4, <2>5, <2>7, <2>8 DEF Formed, Pieces, Adjoining
  <2>10. Placed(r)
    BY <2>5, <2>8 DEF Formed, Placed
  <2>11. Formed(r)
    BY <2>5, <2>6, <2>9, <2>10 DEF Formed
  <2>12. Ahead(s) => Ahead(r)
    <3>1. \A k \in s.it .. Len(s.entries) : k \in 1 .. Len(s.entries)
      BY EndOrEntry
    <3> QED BY <2>5, <2>8, <3>1 DEF Ahead
  <2>13. Rest(r) = Rest(s)
    BY <2>5, <2>8, <2>11, SameRest
  <2>14. Strays(r) = Strays(s)
    <3> DEFINE N == Len(s.entries)
    <3>1. \A k \in 1 .. N : Spent(r, k) = Spent(s, k)
      BY <2>5, <2>8 DEF Spent, ReadPos
    <3>2. AtEnd(r) = AtEnd(s) /\ s.it \in Nat /\ (~AtEnd(s) => s.it \in 1 .. N)
      BY SMTT(30), <2>5, EndOrEntry DEF AtEnd
    <3>3. CASE AtEnd(s) \/ ~Spent(s, s.it)
      <4>1. AtEnd(r) \/ ~Spent(r, r.it)
        BY <2>5, <3>1, <3>2, <3>3
      <4> QED BY Zenon, <2>5, <3>2, <3>3, <4>1 DEF Strays, SettledAtStub
    <3>4. CASE ~AtEnd(s) /\ Spent(s, s.it)
      <4>1. ~AtEnd(r) /\ Spent(r, r.it)
        BY SMTT(30), <2>5, <3>1, <3>2, <3>4
      <4> DEFINE Held(v) == {j \in v.it .. Len(v.entries) :
                               \/ ~Spent(v, j)
                               \/ v.entries[j].file = NULL /\ j # v.it
                               \/ v.entries[j].file # NULL /\ v.entries[j].uid # 0}
                 There(v, i) == IF i = v.it THEN v ELSE MoveTo(v, i)
                 Stub(uid) == [file |-> NULL, start |-> 0, end |-> 0, offset |-> 0, uid |-> uid]
                 Stubs(v, i) == InsertAt([v.entries EXCEPT ![i].uid = 0], i + 1, Stub(v.entries[i].uid))
                 Stubbed(v, i) == [There(v, i) EXCEPT !.entries = Stubs(v, i), !.it = i + 1,
                                                      !.in = v.entries[i].file]
                 At(v, i) == IF i > Len(v.entries) \/ ~Spent(v, i) \/ v.entries[i].file = NULL
                             THEN There(v, i) ELSE Stubbed(v, i)
                 Alike(a, b) == a.entries = b.entries /\ a.it = b.it /\ a.in = b.in
                 i == First(s, Held(s))
      <4>2. SettledAtStub(s) = At(s, First(s, Held(s))) /\ SettledAtStub(r) = At(r, First(r, Held(r)))
        BY <3>4, <4>1 DEF SettledAtStub
      <4>3. Held(r) = Held(s)
        BY <2>5, <3>1, <3>2, <3>4
      <4>4. First(r, Held(r)) = i
        <5> DEFINE held == Held(r)
        <5>1. First(r, held) = First(s, held)
          <6> HIDE DEF Held, held
          <6> QED BY <2>5 DEF First
        <5> QED BY <4>3, <5>1
      <4>5. i \in 1 .. N \/ i = N + 1
        <5>1. Held(s) \subseteq 1 .. Len(s.entries) /\ Len(s.entries) \in Nat
          BY <3>2, <3>4, EndOrEntry
        <5> HIDE DEF Held
        <5> QED BY <5>1, FirstIsFirst
      <4> HIDE DEF Held, i
      <4>6. Alike(MoveTo(r, i), MoveTo(s, i))
        <5>1. ASSUME NEW v \in StreamType
              PROVE  /\ MoveTo(v, i).entries = v.entries /\ MoveTo(v, i).it = i
                     /\ MoveTo(v, i).in = IF i > Len(v.entries) THEN NULL
                                          ELSE IF v.entries[i].file = NULL THEN v.in ELSE v.entries[i].file
          <6> DEFINE in == IF i > Len(v.entries) THEN NULL
                           ELSE IF v.entries[i].file = NULL THEN v.in ELSE v.entries[i].file
                     pos == IF i > Len(v.entries) \/ v.entries[i].file = NULL
                            THEN v.pos ELSE v.entries[i].offset
                     ended == v.ended \o Announced(v, i)
          <6>1. MoveTo(v, i) = [v EXCEPT !.it = i, !.in = in, !.pos = pos, !.ended = ended]
            BY DEF MoveTo
          <6> HIDE DEF in, pos, ended
          <6>2. MoveTo(v, i).entries = v.entries /\ MoveTo(v, i).it = i /\ MoveTo(v, i).in = in
            BY <6>1 DEF StreamType
          <6> QED BY <6>2 DEF in
        <5> QED BY <2>2, <2>5, <2>6, <5>1
      <4>7. Alike(There(r, i), There(s, i))
        BY <2>5, <4>6
      <4>8. Alike(Stubbed(r, i), Stubbed(s, i))
        <5>1. ASSUME NEW v \in StreamType
              PROVE  /\ Stubbed(v, i).entries = Stubs(v, i) /\ Stubbed(v, i).it = i + 1
                     /\ Stubbed(v, i).in = v.entries[i].file
          <6>1. DOMAIN There(v, i) = DOMAIN v
            BY DEF MoveTo
          <6>2. {"entries", "it", "in"} \subseteq DOMAIN There(v, i)
            BY <6>1 DEF StreamType
          <6> DEFINE w == There(v, i)
                     x == Stubs(v, i)
                     y == v.entries[i].file
          <6>3. Stubbed(v, i) = [w EXCEPT !.entries = x, !.it = i + 1, !.in = y]
            OBVIOUS
          <6> HIDE DEF There, Stubs, Stubbed, w, x, y
          <6>4. Stubbed(v, i).entries = x /\ Stubbed(v, i).it = i + 1 /\ Stubbed(v, i).in = y
            BY <6>2, <6>3 DEF w
          <6> QED BY <6>4 DEF x, y
        <5>2. Stubs(r, i) = Stubs(s, i)
          BY <2>5
        <5> HIDE DEF Stubs, Stubbed
        <5> QED BY <2>2, <2>5, <2>6, <5>1, <5>2
      <4> HIDE DEF There, Stubbed, Alike
      <4>9. Alike(At(r, i), At(s, i))
        BY <2>5, <3>1, <4>5, <4>7, <4>8
      <4> HIDE DEF At
      <4>10. Alike(SettledAtStub(r), SettledAtStub(s))
        BY <4>2, <4>4, <4>9 DEF i
      <4> QED BY <2>5, <4>10 DEF Alike, Strays, AtEnd
    <3> QED BY <3>3, <3>4
  <2> QED BY <2>4, <2>5, <2>11, <2>12, <2>13, <2>14 DEF r
<1> QED BY <1>1, <1>2

\* pushString and include: unless the stream goes astray, the text in the table
\* is put before what is left.
LEMMA AddedForms ==
  ASSUME NEW s, Formed(s), Ahead(s), NEW key \in Texts, NEW text \in Texts, NEW setUid \in BOOLEAN,
         NEW garbage, ~Strays(s)
  PROVE  LET u == PushEntry(AddFile(s, key, text), key, setUid, garbage) IN
         /\ Formed(u) /\ Ahead(u)
         /\ \E k \in DOMAIN u.files : Rest(u) = u.files[k] \o Rest(s)
<1> DEFINE r == AddFile(s, key, text)
           u == PushEntry(r, key, setUid, garbage)
<1>1. Formed(r) /\ Ahead(r) /\ Rest(r) = Rest(s) /\ key \in DOMAIN r.files
  BY AddFileKeeps
<1> HIDE DEF r
<1>2. ~Strays(r)
  BY AddFileKeeps DEF r
<1>3. ~AtEnd(Settled(r)) /\ Inserted(u, r, key, setUid)
  BY <1>1, <1>2, PushEntryInserts
<1> HIDE DEF u
<1>4. Formed(u) /\ Ahead(u) /\ Rest(u) = r.files[key] \o Rest(r)
  BY <1>1, <1>3, InsertedForms, InsertedRest
<1>5. u.files = r.files
  BY <1>3 DEF Inserted
<1> QED BY <1>1, <1>3, <1>4, <1>5 DEF u, r

-----------------------------------------------------------------------------
(***************************************************************************)
(* The lexer.                                                              *)
(***************************************************************************)

\* What becomes of a stream that is read.
Reached(s) ==
  {t \in Readings(s) : Formed(t) /\ s.it <= t.it /\ LeftOf(Rest(t), Rest(s))}

LEMMA ReachedIs ==
  ASSUME NEW s, Formed(s), NEW t \in Reached(s)
  PROVE  /\ Formed(t) /\ (Ahead(s) => Ahead(t)) /\ Rest(t) \in Texts /\ LeftOf(Rest(t), Rest(s))
         /\ Reached(t) \subseteq Reached(s) /\ s.it <= t.it /\ t.it \in Nat
         /\ t.entries = s.entries /\ t.files = s.files /\ t.uid = s.uid
         /\ t.ended \in Seq(Nat)
<1>1. /\ t \in Readings(s) /\ Formed(t) /\ s.it <= t.it /\ LeftOf(Rest(t), Rest(s))
      /\ t.entries = s.entries /\ t.files = s.files /\ t.uid = s.uid
      /\ t.ended \in Seq(Nat)
  BY DEF Reached, Readings
<1>2. Readings(t) = Readings(s)
  BY <1>1, ReadingFormed DEF Formed
<1>3. s.it \in Nat /\ t.it \in Nat /\ Rest(s) \in Texts /\ Rest(t) \in Texts
  BY <1>1, RestTyped DEF Formed, StreamType
<1>4. ASSUME NEW u \in Reached(t) PROVE u \in Reached(s)
  <2>1. u \in Readings(s) /\ Formed(u) /\ t.it <= u.it /\ LeftOf(Rest(u), Rest(t)) /\ u.it \in Nat
    BY <1>2 DEF Reached, Readings
  <2> QED BY <1>1, <1>3, <2>1, LeftOfLeft DEF Reached
<1> QED BY <1>1, <1>3, <1>4, AheadOfReading

LEMMA ReachedItself ==
  ASSUME NEW s, Formed(s)
  PROVE  s \in Reached(s)
<1>1. s.it \in Nat /\ Rest(s) \in Texts
  BY RestTyped DEF Formed, StreamType
<1> QED BY <1>1, ItselfAReading, LeftOfItself DEF Reached

LEMMA SettledReaches ==
  ASSUME NEW s, Formed(s)
  PROVE  Settled(s) \in Reached(s) /\ Settled(Settled(s)) = Settled(s)
<1>1. Rest(s) \in Texts
  BY RestTyped
<1> QED BY <1>1, SettledMoves, LeftOfItself DEF Reached

LEMMA GetReaches ==
  ASSUME NEW s, Formed(s)
  PROVE  Get(s) \in Reached(s)
BY GetReads DEF Reached

\* Characters read one by one.
LEMMA GetsReaches ==
  ASSUME NEW s, Formed(s), NEW n \in Nat
  PROVE  Gets(s, n) \in Reached(s)
<1> DEFINE S == Reached(s)
           Step(t) == Get(t)
           step == [x \in Nat \X S |-> Step(x[2])]
           Is(f) == f = [k \in Nat |-> IF k = 0 THEN s ELSE Step(f[k - 1])]
<1>1. s \in S
  BY ReachedItself
<1>2. ASSUME NEW t \in S PROVE Step(t) \in S
  <2>1. Formed(t) /\ Reached(t) \subseteq Reached(s)
    BY ReachedIs
  <2> QED BY <2>1, GetReaches
<1> HIDE DEF S, Step
<1>3. \E f : Is(f)
  <2>1. step \in [Nat \X S -> S]
    BY <1>2
  <2>2. PICK f \in [Nat -> S] : Computes(f, s, step)
    <3> HIDE DEF step
    <3> QED BY <1>1, <2>1, PrimitiveRecursion
  <2>3. ASSUME NEW k \in Nat \ {0} PROVE f[k] = Step(f[k - 1])
    <3>1. k - 1 \in Nat /\ f[k - 1] \in S
      OBVIOUS
    <3> QED BY <2>2, <3>1 DEF Computes
  <2>4. f = [k \in Nat |-> f[k]] /\ f[0] = s
    BY <2>2 DEF Computes
  <2>5. \A k \in Nat : f[k] = IF k = 0 THEN s ELSE Step(f[k - 1])
    BY <2>3, <2>4
  <2> QED BY <2>4, <2>5, Zenon
<1> HIDE DEF Is
<1> DEFINE f == CHOOSE g : Is(g)
<1>4. Is(f)
  BY <1>3
<1> HIDE DEF f
<1>5. f[0] = s /\ \A k \in Nat : f[k + 1] = Step(f[k])
  <2>1. \A k \in Nat : f[k] = IF k = 0 THEN s ELSE Step(f[k - 1])
    BY <1>4, Zenon DEF Is
  <2>2. \A k \in Nat : k + 1 \in Nat /\ k + 1 # 0 /\ (k + 1) - 1 = k
    OBVIOUS
  <2>3. ASSUME NEW k \in Nat PROVE f[k + 1] = Step(f[k])
    BY <2>1, <2>2
  <2> QED BY <2>1, <2>3
<1> DEFINE T == {k \in Nat : f[k] \in S}
<1>6. Nat \subseteq T
  <2>1. 0 \in T /\ \A k \in Nat : k \in T => k + 1 \in T
    BY <1>1, <1>2, <1>5
  <2> HIDE DEF T
  <2> QED BY <2>1, Induction
<1>7. Gets(s, n) = f[n]
  BY DEF Gets, f, Is, Step
<1> QED BY <1>6, <1>7 DEF S

\* YYSKIP, n times: a stream at a character stays at characters.
LEMMA SkipsReaches ==
  ASSUME NEW s, Formed(s), NEW n \in Nat
  PROVE  Skips(s, n) \in Reached(s) /\ (Settled(s) = s => Settled(Skips(s, n)) = Skips(s, n))
<1> DEFINE S == Reached(s)
           Step(t) == Settled(Get(t))
           step == [x \in Nat \X S |-> Step(x[2])]
           Is(f) == f = [k \in Nat |-> IF k = 0 THEN s ELSE Step(f[k - 1])]
<1>1. s \in S
  BY ReachedItself
<1>2. ASSUME NEW t \in S PROVE Step(t) \in S
  <2>1. Formed(t) /\ Reached(t) \subseteq Reached(s)
    BY ReachedIs
  <2>2. Get(t) \in Reached(t) /\ Formed(Get(t)) /\ Reached(Get(t)) \subseteq Reached(t)
    BY <2>1, GetReaches, ReachedIs
  <2> QED BY <2>1, <2>2, SettledReaches
<1> HIDE DEF S, Step
<1>3. \E f : Is(f)
  <2>1. step \in [Nat \X S -> S]
    BY <1>2
  <2>2. PICK f \in [Nat -> S] : Computes(f, s, step)
    <3> HIDE DEF step
    <3> QED BY <1>1, <2>1, PrimitiveRecursion
  <2>3. ASSUME NEW k \in Nat \ {0} PROVE f[k] = Step(f[k - 1])
    <3>1. k - 1 \in Nat /\ f[k - 1] \in S
      OBVIOUS
    <3> QED BY <2>2, <3>1 DEF Computes
  <2>4. f = [k \in Nat |-> f[k]] /\ f[0] = s
    BY <2>2 DEF Computes
  <2>5. \A k \in Nat : f[k] = IF k = 0 THEN s ELSE Step(f[k - 1])
    BY <2>3, <2>4
  <2> QED BY <2>4, <2>5, Zenon
<1> HIDE DEF Is
<1> DEFINE f == CHOOSE g : Is(g)
<1>4. Is(f)
  BY <1>3
<1> HIDE DEF f
<1>5. f[0] = s /\ \A k \in Nat : f[k + 1] = Step(f[k])
  <2>1. \A k \in Nat : f[k] = IF k = 0 THEN s ELSE Step(f[k - 1])
    BY <1>4, Zenon DEF Is
  <2>2. \A k \in Nat : k + 1 \in Nat /\ k + 1 # 0 /\ (k + 1) - 1 = k
    OBVIOUS
  <2>3. ASSUME NEW k \in Nat PROVE f[k + 1] = Step(f[k])
    BY <2>1, <2>2
  <2> QED BY <2>1, <2>3
<1> DEFINE T == {k \in Nat : f[k] \in S}
<1>6. Nat \subseteq T
  <2>1. 0 \in T /\ \A k \in Nat : k \in T => k + 1 \in T
    BY <1>1, <1>2, <1>5
  <2> HIDE DEF T
  <2> QED BY <2>1, Induction
<1>7. Skips(s, n) = f[n]
  BY DEF Skips, f, Is, Step
<1>8. ASSUME Settled(s) = s PROVE Settled(f[n]) = f[n]
  <2>1. CASE n = 0
    BY <1>5, <1>8, <2>1
  <2>2. CASE n # 0
    <3>1. n - 1 \in Nat /\ (n - 1) + 1 = n
      BY <2>2
    <3>2. f[n] = Step(f[n - 1]) /\ f[n - 1] \in S
      BY <1>5, <1>6, <3>1
    <3>3. Formed(f[n - 1])
      BY <3>2, ReachedIs DEF S
    <3>4. Get(f[n - 1]) \in Reached(f[n - 1])
      BY <3>3, GetReaches
    <3>5. Formed(Get(f[n - 1]))
      BY <3>3, <3>4, ReachedIs
    <3> QED BY <3>2, <3>5, SettledReaches DEF Step
  <2> QED BY <2>1, <2>2
<1> QED BY <1>6, <1>7, <1>8 DEF S

\* How much of a text is read.
LEMMA RunTyped ==
  ASSUME NEW text \in Texts, NEW chars
  PROVE  Run(text, chars) \in Nat /\ Run(text, chars) <= Len(text)
<1> DEFINE others == {i \in 1 .. Len(text) : text[i] \notin chars}
<1>1. Len(text) \in Nat
  BY DEF Texts
<1>2. CASE others = {}
  BY <1>1, <1>2 DEF Run
<1>3. CASE others # {}
  <2>1. others \subseteq Nat
    OBVIOUS
  <2>2. Run(text, chars) = Min(others) - 1
    BY <1>3 DEF Run
  <2>3. others \subseteq 1 .. Len(text)
    OBVIOUS
  <2> HIDE DEF others
  <2>4. Min(others) \in others
    <3>1. \E n \in others : \A m \in others : n <= m
      BY <1>3, <2>1, LeastNumber
    <3> QED BY <3>1 DEF Min
  <2>5. Min(others) \in 1 .. Len(text)
    BY <2>3, <2>4
  <2> QED BY <1>1, <2>2, <2>5
<1> QED BY <1>2, <1>3

LEMMA FindTyped ==
  ASSUME NEW text \in Texts, NEW c
  PROVE  Find(text, c) \in Nat
BY RunTyped DEF Find

\* The beginning of a text is one.
LEMMA BeginningTyped ==
  ASSUME NEW text \in Texts, NEW chars
  PROVE  SubSeq(text, 1, Run(text, chars)) \in Texts
<1>1. Run(text, chars) \in Nat /\ Run(text, chars) <= Len(text) /\ text \in Seq(STRING)
  BY RunTyped DEF Texts
<1> DEFINE n == Run(text, chars)
<1> HIDE DEF n
<1>2. SubSeq(text, 1, n) \in Seq(STRING)
  BY <1>1 DEF n
<1> QED BY <1>2 DEF Texts, n

\* A reading that is put back where s is.
LEMMA BackReached ==
  ASSUME NEW s, Formed(s), NEW t \in Readings(s)
  PROVE  LET b == [t EXCEPT !.it = s.it, !.in = s.in, !.pos = s.pos] IN
         /\ b \in Reached(s) /\ b.it = s.it
         /\ AtEnd(b) = AtEnd(s) /\ (Settled(s) = s => Settled(b) = b)
<1> DEFINE b == [t EXCEPT !.it = s.it, !.in = s.in, !.pos = s.pos]
<1>1. s.it \in Nat /\ s.in \in FileRef \cup {NULL} /\ s.pos \in Nat /\ Rest(s) \in Texts
  BY RestTyped DEF Formed, StreamType
<1>2. /\ b.files = s.files /\ b.entries = s.entries /\ b.it = s.it /\ b.in = s.in /\ b.pos = s.pos
      /\ b.uid = s.uid /\ b.ended = t.ended /\ t.ended \in Seq(Nat)
      /\ b = [files |-> b.files, entries |-> b.entries, it |-> b.it, in |-> b.in, pos |-> b.pos,
              uid |-> b.uid, ended |-> b.ended]
  <2>1. /\ t.files = s.files /\ t.entries = s.entries /\ t.uid = s.uid
        /\ t.ended \in Seq(Nat)
    BY DEF Readings
  <2>2. t = [files |-> t.files, entries |-> t.entries, it |-> t.it, in |-> t.in, pos |-> t.pos,
             uid |-> t.uid, ended |-> t.ended]
    BY DEF Readings
  <2>3. /\ b.files = t.files /\ b.entries = t.entries /\ b.it = s.it /\ b.in = s.in /\ b.pos = s.pos
        /\ b.uid = t.uid /\ b.ended = t.ended
    BY <2>2
  <2>4. b = [files |-> b.files, entries |-> b.entries, it |-> b.it, in |-> b.in, pos |-> b.pos,
             uid |-> b.uid, ended |-> b.ended]
    <3>1. t \in StreamType
      BY DEF Formed, StreamType, Readings
    <3> DEFINE x == s.it
               y == s.in
               z == s.pos
    <3>2. b = [t EXCEPT !.it = x, !.in = y, !.pos = z]
      OBVIOUS
    <3> HIDE DEF b, x, y, z
    <3> QED BY <3>1, <3>2 DEF StreamType
  <2> HIDE DEF b
  <2> QED BY <2>1, <2>3, <2>4
<1> HIDE DEF b
<1>3. b \in Readings(s)
  BY <1>1, <1>2 DEF Readings
<1>4. Placed(b)
  BY <1>2 DEF Formed, Placed, Size, Text
<1>5. Formed(b)
  BY <1>3, <1>4, ReadingFormed
<1>6. Rest(b) = Rest(s)
  BY <1>2, <1>5, SameRest DEF Text
<1>7. b \in Reached(s)
  BY <1>1, <1>2, <1>3, <1>5, <1>6, LeftOfItself DEF Reached
<1>8. AtEnd(b) = AtEnd(s)
  BY <1>2 DEF AtEnd
<1>9. ASSUME Settled(s) = s PROVE Settled(b) = b
  <2>1. ~AtEnd(s) => ~Spent(s, s.it)
    BY <1>9, SettledMoves
  <2>2. ~AtEnd(b) => ~Spent(b, b.it)
    BY <1>2, <1>8, <2>1 DEF Spent, ReadPos, Text
  <2> QED BY <2>2 DEF Settled
<1> QED BY <1>2, <1>7, <1>8, <1>9 DEF b

\* GET_STRING, at a, of a token that begins at b.
LEMMA StringReaches ==
  ASSUME NEW b, Formed(b), Settled(b) = b, ~AtEnd(b),
         NEW a \in Reached(b), Settled(a) = a, ~AtEnd(a), ~StringFails(a, TellInternal(b))
  PROVE  AfterString(a, TellInternal(b)) \in Reached(b) /\ StringRead(a, TellInternal(b)) \in Texts
<1> DEFINE start == TellInternal(b)
           c == Seek(a, start)
           size == Tell(a) - start
<1>1. Formed(a) /\ a \in Readings(b) /\ ~Spent(a, a.it) /\ ~Spent(b, b.it)
  BY SettledMoves DEF Reached
<1>2. start \in Int /\ c = [a EXCEPT !.it = b.it, !.in = b.in, !.pos = b.pos]
  BY <1>1, SeekBack
<1>3. size \in Int
  <2>1. TellInternal(a) \in Int
    BY <1>1, SeekBack, ItselfAReading
  <2> HIDE DEF start
  <2> QED BY <1>2, <2>1 DEF Tell
<1>4. c \in Reached(b) /\ Settled(c) = c /\ ~AtEnd(c)
  <2> HIDE DEF c
  <2> QED BY <1>1, <1>2, BackReached
<1>5. ~ReadFails(c, size)
  BY DEF StringFails
<1>6. AfterString(a, start) = Read(c, size) /\ StringRead(a, start) = ReadText(c, size)
  BY DEF AfterString, StringRead
<1> HIDE DEF c, size
<1>7. Formed(c) /\ Reached(c) \subseteq Reached(b)
  BY <1>4, ReachedIs
<1>8. Read(c, size) \in Reached(c) /\ ReadText(c, size) \in Texts
  BY <1>3, <1>4, <1>5, <1>7, ReadReads DEF Reached
<1> QED BY <1>6, <1>7, <1>8

\* GET_CHAR.
LEMMA CharReaches ==
  ASSUME NEW a, Formed(a), Settled(a) = a, ~AtEnd(a)
  PROVE  AfterChar(a) \in Reached(a)
<1> DEFINE here == TellInternal(a)
           w == Seek(a, here - 1)
<1>1. ~Spent(a, a.it)
  BY SettledMoves
<1>2. here \in Int
  BY <1>1, SeekBack, ItselfAReading
<1>3. w \in Readings(a) /\ Formed(w)
  <2>1. here - 1 \in Int
    BY <1>2
  <2> QED BY <2>1, SeekForms
<1>4. AfterChar(a) = Seek(Get(w), here)
  BY DEF AfterChar, Tell
<1> HIDE DEF w
<1>5. Readings(w) = Readings(a)
  BY <1>3, ReadingFormed DEF Formed
<1>6. Get(w) \in Readings(a)
  BY <1>3, <1>5, GetReads
<1>7. Seek(Get(w), here) = [Get(w) EXCEPT !.it = a.it, !.in = a.in, !.pos = a.pos]
  BY <1>1, <1>6, SeekBack
<1> DEFINE g == Get(w)
           back == [g EXCEPT !.it = a.it, !.in = a.in, !.pos = a.pos]
<1>8. AfterChar(a) = back
  BY <1>4, <1>7
<1>9. g \in Readings(a)
  BY <1>6
<1> HIDE DEF g
<1>10. back \in Reached(a)
  BY <1>9, BackReached
<1> QED BY <1>8, <1>10

\* Lexing a token reads the stream, and no more.
LEMMA LexedReaches ==
  ASSUME NEW s, Formed(s)
  PROVE  Lexed(s).s \in Reached(s) /\ Lexed(s).text \in Texts
<1> DEFINE t == Settled(s)
           begin == Skips(t, Run(Rest(t), {" "}))
           rest == Rest(begin)
           c == rest[1]
           word == SubSeq(rest, 1, Run(rest, IdentifierChars))
           start == TellInternal(begin)
           after == Skips(begin, IF c \in IdentifierChars THEN Len(word) ELSE 1)
           Token(kind, text, u) == [kind |-> kind, text |-> text, s |-> u]
           Good(token) == token.s \in Reached(s) /\ token.text \in Texts
<1>1. /\ Lexed(s) =
           IF rest = <<>> THEN Token("end of file", <<>>, begin)
           ELSE IF AtEnd(after) THEN Token("end of file", <<>>, after)
           ELSE IF word \in {<<"n">>, <<"j">>} THEN Token(word[1], word, after)
           ELSE IF c \in IdentifierChars THEN
             IF StringFails(after, start) THEN Token("exception", <<>>, after)
             ELSE Token("identifier", StringRead(after, start), AfterString(after, start))
           ELSE IF c \in DOMAIN Strings THEN Token("string", Strings[c], after)
           ELSE IF c \in {"\n", ".define", ".macro", ".include", ".dbg"} THEN Token(c, <<>>, after)
           ELSE IF c = ".end" \/ CharFails(after) THEN Token("exception", <<>>, after)
           ELSE Token(CharRead(after), <<>>, AfterChar(after))
  BY DEF Lexed
<1>2. t \in Reached(s) /\ Settled(t) = t /\ Formed(t) /\ Rest(t) \in Texts /\ Reached(t) \subseteq Reached(s)
  BY SettledReaches, ReachedIs
<1> HIDE DEF t
<1>3. begin \in Reached(s) /\ Settled(begin) = begin
  <2> DEFINE n == Run(Rest(t), {" "})
  <2>1. n \in Nat
    BY <1>2, RunTyped
  <2> HIDE DEF n
  <2>2. Skips(t, n) \in Reached(t) /\ Settled(Skips(t, n)) = Skips(t, n)
    BY <1>2, <2>1, SkipsReaches
  <2> QED BY <1>2, <2>2 DEF n
<1> HIDE DEF begin
<1>4. Formed(begin) /\ rest \in Texts /\ Reached(begin) \subseteq Reached(s)
  BY <1>3, ReachedIs
<1>5. word \in Texts
  BY <1>4, BeginningTyped
<1>6. ~AtEnd(begin) \/ rest = <<>>
  BY DEF Rest
<1> HIDE DEF rest, word
<1>7. after \in Reached(begin) /\ Settled(after) = after
  <2> DEFINE n == IF c \in IdentifierChars THEN Len(word) ELSE 1
  <2>1. n \in Nat
    BY <1>5 DEF Texts
  <2> HIDE DEF n
  <2> SUFFICES Skips(begin, n) \in Reached(begin) /\ Settled(Skips(begin, n)) = Skips(begin, n)
    BY DEF n
  <2> QED BY <1>3, <1>4, <2>1, SkipsReaches
<1> HIDE DEF after, c
<1>8. after \in Reached(s) /\ Formed(after) /\ Reached(after) \subseteq Reached(s)
  BY <1>4, <1>7, ReachedIs
<1>9. \A kind : \A text \in Texts : \A u \in Reached(s) : Good(Token(kind, text, u))
  OBVIOUS
<1>10. ASSUME rest # <<>>, ~AtEnd(after), ~StringFails(after, start)
       PROVE  StringRead(after, start) \in Texts /\ AfterString(after, start) \in Reached(s)
  BY <1>3, <1>4, <1>6, <1>7, <1>10, StringReaches
<1>11. ASSUME ~AtEnd(after) PROVE AfterChar(after) \in Reached(s)
  BY <1>7, <1>8, <1>11, CharReaches
<1>12. \A d \in DOMAIN Strings : Strings[d] \in Texts
  BY TextAssumption
<1> HIDE DEF Token, Good, start
<1>13. Good(Lexed(s))
  <2>0. <<>> \in Texts
    BY TextsJoin
  <2>1. CASE rest = <<>>
    BY <1>1, <1>3, <1>9, <2>0, <2>1
  <2>2. CASE rest # <<>> /\ AtEnd(after)
    BY <1>1, <1>8, <1>9, <2>0, <2>2
  <2> DEFINE Identified == IF StringFails(after, start) THEN Token("exception", <<>>, after)
                           ELSE Token("identifier", StringRead(after, start), AfterString(after, start))
  <2>3. CASE rest # <<>> /\ ~AtEnd(after)
    <3>1. Good(Token(word[1], word, after))
      BY <1>5, <1>8, <1>9
    <3>2. Good(Identified)
      BY <1>8, <1>9, <1>10, <2>0, <2>3
    <3>3. c \in DOMAIN Strings => Good(Token("string", Strings[c], after))
      BY <1>8, <1>9, <1>12
    <3>4. Good(Token(c, <<>>, after)) /\ Good(Token("exception", <<>>, after))
      BY <1>8, <1>9, <2>0
    <3>5. Good(Token(CharRead(after), <<>>, AfterChar(after)))
      BY <1>9, <1>11, <2>0, <2>3
    <3>6. Lexed(s) =
           IF word \in {<<"n">>, <<"j">>} THEN Token(word[1], word, after)
           ELSE IF c \in IdentifierChars THEN Identified
           ELSE IF c \in DOMAIN Strings THEN Token("string", Strings[c], after)
           ELSE IF c \in {"\n", ".define", ".macro", ".include", ".dbg"} THEN Token(c, <<>>, after)
           ELSE IF c = ".end" \/ CharFails(after) THEN Token("exception", <<>>, after)
           ELSE Token(CharRead(after), <<>>, AfterChar(after))
      BY <1>1, <2>3
    <3> HIDE DEF Identified
    <3>7. CASE word \in {<<"n">>, <<"j">>}
      BY <3>1, <3>6, <3>7
    <3>8. CASE word \notin {<<"n">>, <<"j">>} /\ c \in IdentifierChars
      BY <3>2, <3>6, <3>8
    <3>9. CASE word \notin {<<"n">>, <<"j">>} /\ c \notin IdentifierChars /\ c \in DOMAIN Strings
      BY <3>3, <3>6, <3>9
    <3>10. CASE word \notin {<<"n">>, <<"j">>} /\ c \notin IdentifierChars /\ c \notin DOMAIN Strings
      BY <3>4, <3>5, <3>6, <3>10
    <3> QED BY <3>7, <3>8, <3>9, <3>10
  <2> QED BY <2>1, <2>2, <2>3
<1> QED BY <1>13 DEF Good

-----------------------------------------------------------------------------
(***************************************************************************)
(* The parser.                                                             *)
(***************************************************************************)

Kinds == {"", "call", "n", "j", "include", "dbg", "define", "macro"}
StatementType ==
  [kind : Kinds, name : Texts, list : Seq(Texts), argument : Texts, empty : BOOLEAN]
LabelType == [name : Texts, inMacro : BOOLEAN]
CallType == [uid : Nat, parameters : Seq(Texts), arguments : Seq(Texts)]
MacroType == [parameters : Seq(Texts), body : Texts]

\* What the parser keeps are texts, as the stream wants them.
Typed ==
  /\ program \in Programs
  /\ current \in StatementType
  /\ labels \in Seq(LabelType)
  /\ macroCallStack \in Seq(CallType)
  /\ macros \in Maps(Texts)
  /\ macroFunctions \in Maps(MacroType)

\* Until a text is inserted at no position the entries of the stream adjoin,
\* and what follows the current one runs to the end of its file.
EntriesAdjoin ==
  astray \in BOOLEAN /\ (~astray => Typed /\ Formed(stream) /\ Ahead(stream))

LEMMA PutTyped ==
  ASSUME NEW S, NEW map \in Maps(S), NEW key \in Texts, NEW value \in S
  PROVE  Put(map, key, value) \in Maps(S)
<1>1. PICK K \in SUBSET Texts : map \in [K -> S]
  BY DEF Maps
<1>2. Put(map, key, value) \in [K \cup {key} -> S]
  BY <1>1 DEF Put
<1>3. K \cup {key} \in SUBSET Texts
  BY <1>1
<1> QED BY <1>2, <1>3 DEF Maps

\* The client takes the callbacks that have run.
LEMMA TakenForms ==
  ASSUME NEW u, Formed(u)
  PROVE  LET v == [u EXCEPT !.ended = <<>>] IN
         /\ Formed(v) /\ (Ahead(u) => Ahead(v)) /\ Rest(v) = Rest(u)
         /\ v.files = u.files
<1> DEFINE v == [u EXCEPT !.ended = <<>>]
<1>1. v \in Readings(u) /\ v.it = u.it /\ v.in = u.in /\ v.pos = u.pos
      /\ v.entries = u.entries /\ v.files = u.files
  <2>1. /\ v.files = u.files /\ v.entries = u.entries /\ v.it = u.it /\ v.in = u.in /\ v.pos = u.pos
        /\ v.uid = u.uid /\ v.ended = <<>>
        /\ v = [files |-> v.files, entries |-> v.entries, it |-> v.it, in |-> v.in, pos |-> v.pos,
                uid |-> v.uid, ended |-> v.ended]
    <3>1. u \in StreamType
      BY DEF Formed
    <3>2. v = [u EXCEPT !.ended = <<>>]
      OBVIOUS
    <3> HIDE DEF v
    <3> QED BY <3>1, <3>2 DEF StreamType
  <2>2. u.it \in Nat /\ u.in \in FileRef \cup {NULL} /\ u.pos \in Nat /\ <<>> \in Seq(Nat)
    BY DEF Formed, StreamType
  <2> HIDE DEF v
  <2> QED BY <2>1, <2>2 DEF Readings
<1> HIDE DEF v
<1>2. Placed(v)
  BY <1>1 DEF Formed, Placed, Size, Text
<1>3. Formed(v)
  BY <1>1, <1>2, ReadingFormed
<1>4. Rest(v) = Rest(u)
  BY <1>1, <1>3, SameRest DEF Text
<1>5. Ahead(u) => Ahead(v)
  <2>1. u.it <= v.it
    BY <1>1 DEF Formed, StreamType
  <2> QED BY <1>1, <2>1, AheadOfReading
<1> QED BY <1>1, <1>3, <1>4, <1>5 DEF v

LEMMA ReturnedTyped ==
  ASSUME macroCallStack \in Seq(CallType), NEW u, u.ended \in Seq(Nat)
  PROVE  Returned(u) \in Seq(CallType)
<1> DEFINE m == Len(macroCallStack) - Len(u.ended)
<1>1. m \in Int /\ m <= Len(macroCallStack)
  OBVIOUS
<1> HIDE DEF m
<1>2. SubSeq(macroCallStack, 1, m) \in Seq(CallType)
  BY <1>1
<1> QED BY <1>2 DEF Returned, m

LEMMA LeftContinues ==
  ASSUME NEW a, NEW b \in Texts, NEW c, LeftOf(a, b), NEW texts, NEW text \in texts \cup {<<>>},
         c = text \o a
  PROVE  Continues(c, b, texts)
BY DEF LeftOf, Continues

\* A step that reads.
LEMMA ReadsKeeps ==
  ASSUME Formed(stream), Ahead(stream), macroCallStack \in Seq(CallType),
         NEW u \in Reached(stream), Reads(u)
  PROVE  /\ Formed(stream') /\ Ahead(stream') /\ macroCallStack' \in Seq(CallType)
         /\ Continues(Rest(stream'), Rest(stream), Range(stream'.files))
<1>1. /\ Formed(u) /\ Ahead(u) /\ Rest(u) \in Texts /\ LeftOf(Rest(u), Rest(stream))
      /\ Rest(stream) \in Texts /\ u.ended \in Seq(Nat)
  BY ReachedIs, RestTyped
<1>2. Formed(stream') /\ Ahead(stream') /\ Rest(stream') = Rest(u)
  BY <1>1, TakenForms DEF Reads
<1>3. macroCallStack' \in Seq(CallType)
  BY <1>1, ReturnedTyped DEF Reads
<1>4. Rest(u) = <<>> \o Rest(u)
  BY <1>1 DEF Texts
<1>5. Continues(Rest(u), Rest(stream), Range(stream'.files))
  BY <1>1, <1>4, LeftContinues
<1> QED BY <1>2, <1>3, <1>5

\* A step that inserts a text behind what it reads.
LEMMA InsertKeeps ==
  ASSUME Formed(stream), Ahead(stream), NEW u \in Reached(stream), ~Strays(u),
         NEW key \in Texts, NEW text \in Texts, NEW setUid \in BOOLEAN, NEW garbage,
         stream' = [PushEntry(AddFile(u, key, text), key, setUid, garbage) EXCEPT !.ended = <<>>]
  PROVE  /\ Formed(stream') /\ Ahead(stream')
         /\ Continues(Rest(stream'), Rest(stream), Range(stream'.files))
         /\ LET w == PushEntry(AddFile(u, key, text), key, setUid, garbage) IN
            w.ended \in Seq(Nat) /\ w.uid \in Nat
<1> DEFINE w == PushEntry(AddFile(u, key, text), key, setUid, garbage)
<1>1. /\ Formed(u) /\ Ahead(u) /\ LeftOf(Rest(u), Rest(stream)) /\ Rest(stream) \in Texts
  BY ReachedIs, RestTyped
<1>2. Formed(w) /\ Ahead(w) /\ \E k \in DOMAIN w.files : Rest(w) = w.files[k] \o Rest(u)
  BY SMTT(30), <1>1, AddedForms
<1> HIDE DEF w
<1>3. w.ended \in Seq(Nat) /\ w.uid \in Nat
  BY <1>2 DEF Formed, StreamType
<1>4. stream' = [w EXCEPT !.ended = <<>>]
  BY DEF w
<1>5. Formed(stream') /\ Ahead(stream') /\ Rest(stream') = Rest(w) /\ stream'.files = w.files
  BY <1>2, <1>4, TakenForms
<1>6. PICK k \in DOMAIN w.files : Rest(w) = w.files[k] \o Rest(u)
  BY <1>2
<1>7. w.files[k] \in Range(w.files)
  BY DEF Range
<1>8. Continues(Rest(w), Rest(stream), Range(w.files))
  BY <1>1, <1>6, <1>7, LeftContinues
<1> QED BY <1>3, <1>5, <1>8 DEF w

\* What every step does to a stream whose entries adjoin.
Keeps ==
  /\ Typed'
  /\ Formed(stream') /\ Ahead(stream')
  /\ Continues(Rest(stream'), Rest(stream), Range(stream'.files))

LEMMA UnmovedContinues ==
  ASSUME Formed(stream), UNCHANGED stream
  PROVE  Continues(Rest(stream'), Rest(stream), Range(stream'.files))
<1>1. Rest(stream) \in Texts /\ LeftOf(Rest(stream), Rest(stream))
  BY RestTyped, LeftOfItself
<1>2. Rest(stream) = <<>> \o Rest(stream)
  BY <1>1 DEF Texts
<1> QED BY <1>1, <1>2, LeftContinues

LEMMA StopKeeps ==
  ASSUME Typed, Formed(stream), Ahead(stream), NEW how, Stop(how)
  PROVE  Keeps
<1>1. UNCHANGED <<program, stream, current, labels, macroCallStack, macros, macroFunctions>>
  BY DEF Stop
<1>2. Typed'
  BY <1>1 DEF Typed
<1> QED BY <1>1, <1>2, UnmovedContinues DEF Keeps

\* A step that reads u, and leaves what the parser keeps typed.
LEMMA ReadKeeps ==
  ASSUME Typed, Formed(stream), Ahead(stream), NEW u \in Reached(stream), Reads(u),
         UNCHANGED program, current' \in StatementType, labels' \in Seq(LabelType),
         macros' \in Maps(Texts), macroFunctions' \in Maps(MacroType)
  PROVE  Keeps
<1>1. /\ Formed(stream') /\ Ahead(stream') /\ macroCallStack' \in Seq(CallType)
      /\ Continues(Rest(stream'), Rest(stream), Range(stream'.files))
  BY ReadsKeeps DEF Typed
<1> QED BY <1>1 DEF Keeps, Typed

\* And one that inserts a text.
LEMMA PushKeeps ==
  ASSUME Typed, Formed(stream), Ahead(stream), NEW u \in Reached(stream), ~Strays(u),
         NEW key \in Texts, NEW text \in Texts, NEW garbage,
         Reads(PushEntry(AddFile(u, key, text), key, FALSE, garbage)),
         UNCHANGED program, current' \in StatementType, labels' \in Seq(LabelType),
         macros' \in Maps(Texts), macroFunctions' \in Maps(MacroType)
  PROVE  Keeps
<1> DEFINE w == PushEntry(AddFile(u, key, text), key, FALSE, garbage)
<1>1. stream' = [w EXCEPT !.ended = <<>>] /\ ~Overrun(w) /\ macroCallStack' = Returned(w)
  BY DEF Reads
<1>2. /\ Formed(stream') /\ Ahead(stream') /\ w.ended \in Seq(Nat)
      /\ Continues(Rest(stream'), Rest(stream), Range(stream'.files))
  BY <1>1, InsertKeeps
<1> HIDE DEF w
<1>3. macroCallStack' \in Seq(CallType)
  BY <1>1, <1>2, ReturnedTyped DEF Typed
<1> QED BY <1>2, <1>3 DEF Keeps, Typed

\* The index of a parameter.
LEMMA ParameterTyped ==
  ASSUME NEW calls \in Seq(CallType), NEW name
  PROVE  /\ Parameter(calls, name) \in Nat
         /\ Parameter(calls, name) # 0 => calls # <<>> /\ Last(calls) \in CallType
<1>1. calls # <<>> => Last(calls) \in CallType
  BY DEF Last
<1>2. CASE calls = <<>> \/ name \notin Range(Last(calls).parameters)
  BY <1>2 DEF Parameter
<1>3. CASE calls # <<>> /\ name \in Range(Last(calls).parameters)
  <2> DEFINE q == Last(calls).parameters
             S == {i \in DOMAIN q : q[i] = name}
  <2>1. q \in Seq(Texts)
    BY <1>1, <1>3 DEF CallType
  <2>2. S \subseteq Nat /\ S # {}
    <3> HIDE DEF q
    <3> QED BY <1>3, <2>1 DEF Range, q
  <2> HIDE DEF S
  <2>3. PICK n \in S : \A m \in S : n <= m
    BY <2>2, LeastNumber
  <2>4. Min(S) \in S
    BY <2>3 DEF Min
  <2>5. Parameter(calls, name) = Min(S)
    BY <1>3 DEF Parameter, S
  <2> QED BY <1>1, <1>3, <2>2, <2>4, <2>5
<1> QED BY <1>2, <1>3

\* A statement of which one field is changed is one.
LEMMA StatementTyped ==
  /\ Nothing \in StatementType
  /\ \A kind \in Kinds : \A name \in Texts :
       [Nothing EXCEPT !.kind = kind, !.name = name] \in StatementType
  /\ \A s \in StatementType : \A name \in Texts : \A empty \in BOOLEAN :
       /\ [s EXCEPT !.name = name] \in StatementType
       /\ [s EXCEPT !.list = Append(@, name)] \in StatementType
       /\ [s EXCEPT !.list = Append(@, s.argument), !.argument = <<>>] \in StatementType
       /\ [s EXCEPT !.argument = @ \o name, !.empty = empty] \in StatementType
<1>1. <<>> \in Texts /\ <<>> \in Seq(Texts)
  BY TextsJoin
<1>2. Nothing \in StatementType
  BY <1>1 DEF Nothing, StatementType, Kinds
<1>3. ASSUME NEW kind \in Kinds, NEW name \in Texts
      PROVE  [Nothing EXCEPT !.kind = kind, !.name = name] \in StatementType
  BY <1>2 DEF StatementType
<1>4. ASSUME NEW s \in StatementType, NEW name \in Texts, NEW empty \in BOOLEAN
      PROVE  /\ [s EXCEPT !.name = name] \in StatementType
             /\ [s EXCEPT !.list = Append(@, name)] \in StatementType
             /\ [s EXCEPT !.list = Append(@, s.argument), !.argument = <<>>] \in StatementType
             /\ [s EXCEPT !.argument = @ \o name, !.empty = empty] \in StatementType
  <2>1. s.list \in Seq(Texts) /\ s.argument \in Texts
    BY DEF StatementType
  <2> DEFINE a == Append(s.list, name)
             b == Append(s.list, s.argument)
             c == s.argument \o name
  <2>2. a \in Seq(Texts) /\ b \in Seq(Texts) /\ c \in Texts
    <3>1. a \in Seq(Texts) /\ b \in Seq(Texts)
      <4> DEFINE T == Texts
      <4>1. s.list \in Seq(T) /\ s.argument \in T /\ name \in T
        BY <2>1
      <4> HIDE DEF T
      <4>2. a \in Seq(T) /\ b \in Seq(T)
        BY <4>1
      <4> QED BY <4>2 DEF T
    <3>2. c \in Texts
      BY <2>1, TextsJoin
    <3> QED BY <3>1, <3>2
  <2> HIDE DEF a, b, c
  <2>3. [s EXCEPT !.name = name] \in StatementType
    BY DEF StatementType
  <2>4. [s EXCEPT !.list = a] \in StatementType
    BY <2>2 DEF StatementType
  <2>5. [s EXCEPT !.list = b, !.argument = <<>>] \in StatementType
    BY <1>1, <2>2 DEF StatementType
  <2>6. [s EXCEPT !.argument = c, !.empty = empty] \in StatementType
    BY <2>2 DEF StatementType
  <2> QED BY <2>3, <2>4, <2>5, <2>6 DEF a, b, c
<1> QED BY <1>2, <1>3, <1>4

LEMMA TokenReaches ==
  ASSUME Formed(stream)
  PROVE  Lexed(stream).s \in Reached(stream) /\ Lexed(stream).text \in Texts
BY LexedReaches

LEMMA ReplaceKeeps ==
  ASSUME Typed, Formed(stream), Ahead(stream), NEW token, token.s \in Reached(stream),
         Replace(token), ~astray'
  PROVE  Keeps
<1> DEFINE calls == Returned(token.s)
           i == Parameter(calls, token.text)
           text == IF i = 0 THEN macros[token.text] ELSE Last(calls).arguments[i]
<1>1. /\ IsReplaced(token) /\ (i # 0 => i <= Len(Last(calls).arguments))
      /\ \E garbage \in Garbage : Reads(PushString(token.s, text, FALSE, garbage))
      /\ ~Strays(token.s)
      /\ UNCHANGED <<program, current, labels, macros, macroFunctions>>
  BY DEF Replace
<1>2. PICK garbage : Reads(PushString(token.s, text, FALSE, garbage))
  BY <1>1
<1>3. text \in Texts
  <2>1. calls \in Seq(CallType)
    <3>1. macroCallStack \in Seq(CallType)
      BY DEF Typed
    <3>2. token.s.ended \in Seq(Nat)
      BY ReachedIs
    <3> QED BY <3>1, <3>2, ReturnedTyped
  <2> HIDE DEF calls
  <2>2. CASE i = 0
    <3>1. token.text \in DOMAIN macros
      BY <1>1, <2>2 DEF IsReplaced, calls
    <3>2. PICK K \in SUBSET Texts : macros \in [K -> Texts]
      BY DEF Typed, Maps
    <3> QED BY <2>2, <3>1, <3>2
  <2>3. CASE i # 0
    <3>1. i \in Nat /\ Last(calls).arguments \in Seq(Texts)
      BY <2>1, <2>3, ParameterTyped DEF CallType
    <3> HIDE DEF i
    <3> QED BY <1>1, <2>3, <3>1 DEF i
  <2> QED BY <2>2, <2>3
<1> HIDE DEF text
<1>4. Reads(PushEntry(AddFile(token.s, text, text), text, FALSE, garbage))
  BY <1>2 DEF PushString
<1> QED BY <1>1, <1>3, <1>4, PushKeeps DEF Typed

LEMMA AcceptKeeps ==
  ASSUME Typed, Formed(stream), Ahead(stream), NEW token, token.s \in Reached(stream),
         NEW kinds, NEW now, NEW next, NEW statement \in StatementType,
         Accept(token, kinds, now, next, statement), labels' \in Seq(LabelType)
  PROVE  Keeps
BY ReadKeeps DEF Accept, Typed

LEMMA BeginKeeps ==
  ASSUME Typed, Formed(stream), Ahead(stream), NEW token, token.s \in Reached(stream),
         token.text \in Texts, BeginStatement(token)
  PROVE  Keeps
<1> DEFINE begins == {"statement", "nested"}
           Statement(kind) == [Nothing EXCEPT !.kind = kind, !.name = token.text]
<1>1. \E kinds, now, next : \E statement \in StatementType :
        Accept(token, kinds, now, next, statement)
  <2>1. Nothing \in StatementType /\ \A kind \in Kinds : Statement(kind) \in StatementType
    BY StatementTyped
  <2>2. \/ Accept(token, {"identifier"}, begins, "identifier", Statement("call"))
        \/ Accept(token, {"n"}, begins, "end", Statement("n"))
        \/ Accept(token, {"j"}, begins, "operand", Statement("j"))
        \/ Accept(token, {".include"}, begins, "string", Statement("include"))
        \/ Accept(token, {".dbg"}, begins, "string", Statement("dbg"))
        \/ Accept(token, {".define"}, begins, "define", Statement("define"))
        \/ Accept(token, {".macro"}, begins, "macro", Statement("macro"))
        \/ Accept(token, {"\n"}, begins, "nested", Nothing)
    BY DEF BeginStatement
  <2> HIDE DEF Statement, begins
  <2>3. /\ Statement("call") \in StatementType /\ Statement("n") \in StatementType
        /\ Statement("j") \in StatementType /\ Statement("include") \in StatementType
        /\ Statement("dbg") \in StatementType /\ Statement("define") \in StatementType
        /\ Statement("macro") \in StatementType
    BY <2>1 DEF Kinds
  <2> QED BY SMTT(30), <2>1, <2>2, <2>3
<1>2. labels' \in Seq(LabelType)
  BY DEF BeginStatement, Typed
<1> QED BY <1>1, <1>2, AcceptKeeps

LEMMA ContinueKeeps ==
  ASSUME Typed, Formed(stream), Ahead(stream), NEW token, token.s \in Reached(stream),
         token.text \in Texts, ContinueStatement(token)
  PROVE  Keeps
<1> DEFINE named == [current EXCEPT !.name = token.text]
           added == [current EXCEPT !.list = Append(@, token.text)]
<1>1. \E kinds, now, next : \E statement \in StatementType :
        Accept(token, kinds, now, next, statement)
  <2>1. current \in StatementType /\ named \in StatementType /\ added \in StatementType
    BY StatementTyped DEF Typed
  <2>2. \/ Accept(token, {"("}, {"identifier"}, "arguments", current)
        \/ Accept(token, {"identifier"}, {"operand"}, "end", named)
        \/ Accept(token, {"string"}, {"string"}, "end", named)
        \/ Accept(token, {"identifier"}, {"define"}, "line", named)
        \/ Accept(token, {"identifier"}, {"macro"}, "open", named)
        \/ Accept(token, {"("}, {"open"}, "parameters", current)
        \/ Accept(token, {"identifier"}, {"parameters", "parameter"}, "more", added)
        \/ Accept(token, {","}, {"parameters", "more"}, "parameter", current)
        \/ Accept(token, {")"}, {"parameters", "more"}, "header", current)
        \/ Accept(token, {"\n"}, {"header"}, "block", current)
    BY DEF ContinueStatement
  <2> HIDE DEF named, added
  <2> QED BY <2>1, <2>2
<1>2. labels' \in Seq(LabelType)
  BY DEF ContinueStatement, Typed
<1> QED BY <1>1, <1>2, AcceptKeeps

LEMMA LabelKeeps ==
  ASSUME Typed, Formed(stream), Ahead(stream), NEW token, token.s \in Reached(stream),
         ReadLabel(token)
  PROVE  Keeps
<1> DEFINE label == [name |-> current.name, inMacro |-> Returned(token.s) # <<>>]
<1>1. label \in LabelType /\ labels \in Seq(LabelType)
  BY DEF Typed, StatementType, LabelType
<1>2. Accept(token, {":"}, {"identifier"}, "nested", Nothing) /\ labels' = Append(labels, label)
  BY DEF ReadLabel
<1> HIDE DEF label
<1>3. labels' \in Seq(LabelType)
  <2> DEFINE T == LabelType
  <2>1. label \in T /\ labels \in Seq(T)
    BY <1>1
  <2> HIDE DEF T
  <2>2. Append(labels, label) \in Seq(T)
    BY <2>1
  <2> QED BY <1>2, <2>2 DEF T
<1>4. Nothing \in StatementType
  BY StatementTyped
<1> QED BY <1>2, <1>3, <1>4, AcceptKeeps

\* The ends of a statement that read the token, and change what the parser keeps
\* in no other way than by forgetting the statement.
LEMMA EndKeeps ==
  ASSUME Typed, Formed(stream), Ahead(stream), NEW token, token.s \in Reached(stream),
         EndOfFile(token) \/ EndInstruction(token) \/ EndDefinition(token) \/ FileMissing(token)
  PROVE  Keeps
<1>1. /\ Reads(token.s) /\ current' \in {current, Nothing}
      /\ UNCHANGED <<program, labels, macros, macroFunctions>>
  BY DEF EndOfFile, EndInstruction, EndDefinition, FileMissing, Ends
<1> QED BY <1>1, StatementTyped, ReadKeeps DEF Typed

LEMMA IncludeKeeps ==
  ASSUME Typed, Formed(stream), Ahead(stream), NEW token, token.s \in Reached(stream),
         EndInclude(token), ~astray'
  PROVE  Keeps
<1> DEFINE text == IF current.name \in DOMAIN program.files
                   THEN program.files[current.name] ELSE <<>>
<1>1. /\ \E garbage \in Garbage : Reads(Include(token.s, current.name, text, garbage))
      /\ ~Strays(token.s) /\ current' = Nothing
      /\ UNCHANGED <<program, labels, macros, macroFunctions>>
  BY DEF EndInclude, Ends
<1>2. text \in Texts /\ current.name \in Texts
  <2>1. \A name \in DOMAIN program.files : program.files[name] \in Texts
    BY TextAssumption DEF Typed
  <2> QED BY <2>1, TextsJoin DEF Typed, StatementType
<1> HIDE DEF text
<1>3. PICK garbage : Reads(PushEntry(AddFile(token.s, current.name, text), current.name, FALSE, garbage))
  BY <1>1 DEF Include
<1> QED BY <1>1, <1>2, <1>3, StatementTyped, PushKeeps DEF Typed

LEMMA DebugKeeps ==
  ASSUME Typed, Formed(stream), Ahead(stream), NEW token, token.s \in Reached(stream),
         EndDebug(token), ~astray'
  PROVE  Keeps
<1>1. /\ \E garbage \in Garbage : Reads(PushString(token.s, current.name, FALSE, garbage))
      /\ ~Strays(token.s) /\ current' = Nothing
      /\ UNCHANGED <<program, labels, macros, macroFunctions>>
  BY DEF EndDebug, Ends
<1>2. current.name \in Texts
  BY DEF Typed, StatementType
<1>3. PICK garbage : Reads(PushEntry(AddFile(token.s, current.name, current.name), current.name, FALSE, garbage))
  BY <1>1 DEF PushString
<1> QED BY <1>1, <1>2, <1>3, StatementTyped, PushKeeps DEF Typed

LEMMA CallKeeps ==
  ASSUME Typed, Formed(stream), Ahead(stream), NEW token, token.s \in Reached(stream),
         EndCall(token), ~astray'
  PROVE  Keeps
<1> DEFINE macro == IF current.name \in DOMAIN macroFunctions THEN macroFunctions[current.name]
                    ELSE [parameters |-> <<>>, body |-> <<>>]
           S(garbage) == PushString(token.s, macro.body, TRUE, garbage)
           call(s) == [uid |-> s.uid, parameters |-> macro.parameters, arguments |-> current.list]
<1>1. /\ \E garbage \in Garbage :
           /\ ~Overrun(S(garbage))
           /\ stream' = [S(garbage) EXCEPT !.ended = <<>>]
           /\ macroCallStack' = Append(Returned(S(garbage)), call(S(garbage)))
      /\ macroFunctions' = Put(macroFunctions, current.name, macro)
      /\ ~Strays(token.s) /\ current' = Nothing
      /\ UNCHANGED <<program, labels, macros>>
  BY DEF EndCall, Ends
<1>2. macro \in MacroType /\ current.name \in Texts /\ current.list \in Seq(Texts)
  <2>1. current.name \in Texts /\ current.list \in Seq(Texts)
    BY DEF Typed, StatementType
  <2>2. CASE current.name \in DOMAIN macroFunctions
    <3>1. PICK K \in SUBSET Texts : macroFunctions \in [K -> MacroType]
      BY DEF Typed, Maps
    <3> QED BY <2>1, <2>2, <3>1
  <2>3. CASE current.name \notin DOMAIN macroFunctions
    <3>1. [parameters |-> <<>>, body |-> <<>>] \in MacroType
      BY TextsJoin DEF MacroType
    <3> QED BY <2>1, <2>3, <3>1
  <2> QED BY <2>2, <2>3
<1> HIDE DEF macro
<1>3. macro.body \in Texts /\ macro.parameters \in Seq(Texts)
  BY <1>2 DEF MacroType
<1>4. PICK garbage : /\ ~Overrun(S(garbage))
                     /\ stream' = [S(garbage) EXCEPT !.ended = <<>>]
                     /\ macroCallStack' = Append(Returned(S(garbage)), call(S(garbage)))
  BY <1>1
<1> DEFINE w == S(garbage)
<1>5. w = PushEntry(AddFile(token.s, macro.body, macro.body), macro.body, TRUE, garbage)
  BY DEF PushString
<1>6. /\ Formed(stream') /\ Ahead(stream') /\ w.ended \in Seq(Nat) /\ w.uid \in Nat
      /\ Continues(Rest(stream'), Rest(stream), Range(stream'.files))
  <2> DEFINE body == macro.body
  <2>1. body \in Texts /\ ~Strays(token.s)
        /\ stream' = [PushEntry(AddFile(token.s, body, body), body, TRUE, garbage) EXCEPT !.ended = <<>>]
    BY <1>1, <1>3, <1>4, <1>5
  <2>2. w = PushEntry(AddFile(token.s, body, body), body, TRUE, garbage)
    BY <1>5
  <2> HIDE DEF body, w
  <2> QED BY <2>1, <2>2, InsertKeeps
<1> HIDE DEF w
<1>7. Returned(w) \in Seq(CallType)
  BY <1>4, <1>6, ReturnedTyped DEF Typed, w
<1>8. call(w) \in CallType
  BY <1>2, <1>3, <1>6 DEF CallType
<1>9. macroCallStack' = Append(Returned(w), call(w))
  BY <1>4 DEF w
<1> HIDE DEF call
<1>10. macroCallStack' \in Seq(CallType)
  BY <1>7, <1>8, <1>9
<1>11. macroFunctions' \in Maps(MacroType)
  BY <1>1, <1>2, PutTyped DEF Typed
<1> QED BY <1>1, <1>6, <1>10, <1>11, StatementTyped DEF Keeps, Typed

LEMMA LineKeeps ==
  ASSUME Typed, Formed(stream), Ahead(stream), ReadLine, ~astray'
  PROVE  Keeps
<1> DEFINE s == Settled(stream)
           n == Find(Rest(s), "\n")
           after == Skips(s, n)
           text == SubSeq(Rest(s), 1, n - 1)
<1>1. CASE n = 0 \/ AtEnd(after) \/ IsIdentifierDefined(current.name)
  <2>1. Stop("failed")
    BY <1>1 DEF ReadLine
  <2> QED BY <2>1, StopKeeps
<1>2. CASE ~(n = 0 \/ AtEnd(after) \/ IsIdentifierDefined(current.name))
  <2>1. /\ \E garbage \in Garbage : Reads(PushString(after, <<"\n">>, FALSE, garbage))
        /\ macros' = Put(macros, current.name, text)
        /\ astray' = (astray \/ Strays(after))
        /\ UNCHANGED <<program, current, labels, macroFunctions>>
    BY <1>2 DEF ReadLine
  <2>2. s \in Reached(stream) /\ Formed(s) /\ Reached(s) \subseteq Reached(stream) /\ Rest(s) \in Texts
    BY SettledReaches, ReachedIs
  <2> HIDE DEF s
  <2>3. n \in Nat
    BY <2>2, FindTyped
  <2>4. text \in Texts
    <3> DEFINE chars == Range(Rest(s)) \ {"\n"}
    <3>1. n - 1 = Run(Rest(s), chars)
      <4>1. n = Run(Rest(s), chars) + 1 /\ Run(Rest(s), chars) \in Nat
        BY <1>2, <2>2, RunTyped DEF Find
      <4> HIDE DEF n, chars
      <4> QED BY <4>1
    <3> HIDE DEF chars, n
    <3> QED BY <2>2, <3>1, BeginningTyped
  <2> HIDE DEF n, text
  <2>5. after \in Reached(stream)
    BY <2>2, <2>3, SkipsReaches
  <2> HIDE DEF after
  <2>6. PICK garbage : Reads(PushEntry(AddFile(after, <<"\n">>, <<"\n">>), <<"\n">>, FALSE, garbage))
    BY <2>1 DEF PushString
  <2>7. macros' \in Maps(Texts)
    BY <2>1, <2>4, PutTyped DEF Typed, StatementType
  <2>8. ~Strays(after) /\ <<"\n">> \in Texts
    BY <2>1, TextAssumption
  <2> QED BY <2>1, <2>5, <2>6, <2>7, <2>8, PushKeeps DEF Typed
<1> QED BY <1>1, <1>2

LEMMA BlockKeeps ==
  ASSUME Typed, Formed(stream), Ahead(stream), ReadBlock
  PROVE  Keeps
<1> DEFINE s == Settled(stream)
           n == Find(Rest(s), ".end")
           text == SubSeq(Rest(s), 1, n - 1)
           macro == [parameters |-> current.list, body |-> text]
<1>1. CASE IsIdentifierDefined(current.name)
  <2>1. Stop("failed")
    BY <1>1 DEF ReadBlock
  <2> QED BY <2>1, StopKeeps
<1>2. CASE ~IsIdentifierDefined(current.name)
  <2>1. /\ Reads(Gets(s, n)) /\ n # 0
        /\ macroFunctions' = Put(macroFunctions, current.name, macro)
        /\ UNCHANGED <<program, current, labels, macros>>
    BY <1>2 DEF ReadBlock
  <2>2. s \in Reached(stream) /\ Formed(s) /\ Reached(s) \subseteq Reached(stream) /\ Rest(s) \in Texts
    BY SettledReaches, ReachedIs
  <2> HIDE DEF s
  <2>3. n \in Nat
    BY <2>2, FindTyped
  <2>4. text \in Texts
    <3> DEFINE chars == Range(Rest(s)) \ {".end"}
    <3>1. n - 1 = Run(Rest(s), chars)
      <4>1. n = Run(Rest(s), chars) + 1 /\ Run(Rest(s), chars) \in Nat
        BY <2>1, <2>2, RunTyped DEF Find
      <4> HIDE DEF n, chars
      <4> QED BY <4>1
    <3> HIDE DEF chars, n
    <3> QED BY <2>2, <3>1, BeginningTyped
  <2> HIDE DEF n, text
  <2>5. Gets(s, n) \in Reached(stream)
    BY <2>2, <2>3, GetsReaches
  <2>6. macro \in MacroType
    BY <2>4 DEF MacroType, Typed, StatementType
  <2> HIDE DEF macro
  <2>7. macroFunctions' \in Maps(MacroType)
    BY <2>1, <2>6, PutTyped DEF Typed, StatementType
  <2> QED BY <2>1, <2>5, <2>7, ReadKeeps DEF Typed
<1> QED BY <1>1, <1>2

LEMMA DefineLabelKeeps ==
  ASSUME Typed, Formed(stream), Ahead(stream), DefineLabel
  PROVE  Keeps
<1> DEFINE label == Last(labels)
           frame == Last(macroCallStack)
           Free(name) == ~IsIdentifierDefined(name) /\ name \notin Range(frame.parameters)
           free == {x \in DOMAIN Copies : Free(label.name \o Copies[x])}
           copy == label.name \o Copies[Min(free)]
           now == [frame EXCEPT !.parameters = Append(@, label.name), !.arguments = Append(@, copy)]
<1>1. CASE \E how : Stop(how)
  BY <1>1, StopKeeps
<1>2. CASE ~\E how : Stop(how)
  <2>1. labels # <<>> /\ labels' = Front(labels)
        /\ UNCHANGED <<program, stream, current, macros, macroFunctions>>
    BY <1>2 DEF DefineLabel
  <2>2. \/ UNCHANGED macroCallStack
        \/ /\ macroCallStack # <<>> /\ free # {}
           /\ macroCallStack' = Append(Front(macroCallStack), now)
    BY <1>2 DEF DefineLabel
  <2>3. label \in LabelType /\ labels' \in Seq(LabelType)
    <3> DEFINE T == LabelType
    <3>1. labels \in Seq(T)
      BY DEF Typed
    <3> HIDE DEF T
    <3>2. label \in T /\ Front(labels) \in Seq(T)
      BY <2>1, <3>1 DEF Last, Front
    <3> QED BY <2>1, <3>2 DEF T
  <2>4. ASSUME macroCallStack # <<>>, free # {} PROVE Append(Front(macroCallStack), now) \in Seq(CallType)
    <3>1. frame \in CallType /\ Front(macroCallStack) \in Seq(CallType)
      <4> DEFINE T == CallType
      <4>1. macroCallStack \in Seq(T)
        BY DEF Typed
      <4> HIDE DEF T
      <4>2. frame \in T /\ Front(macroCallStack) \in Seq(T)
        BY <2>4, <4>1 DEF Last, Front
      <4> QED BY <4>2 DEF T
    <3>2. copy \in Texts
      <4>1. free \subseteq Nat /\ free \subseteq DOMAIN Copies /\ Copies \in Seq(Texts)
        BY TextAssumption
      <4> HIDE DEF free
      <4>2. PICK x \in free : \A y \in free : x <= y
        BY <2>4, <4>1, LeastNumber
      <4>3. Min(free) \in free
        BY <4>2 DEF Min
      <4>4. Copies[Min(free)] \in Texts
        <5> DEFINE m == Min(free)
                   T == Texts
        <5>1. m \in DOMAIN Copies /\ Copies \in Seq(T)
          BY <4>1, <4>3
        <5> HIDE DEF m, T
        <5>2. Copies[m] \in T
          BY <5>1
        <5> QED BY <5>2 DEF m, T
      <4> HIDE DEF label
      <4> QED BY <2>3, <4>4, TextsJoin DEF LabelType
    <3> DEFINE p == Append(frame.parameters, label.name)
               a == Append(frame.arguments, copy)
    <3>3. p \in Seq(Texts) /\ a \in Seq(Texts)
      <4> DEFINE T == Texts
      <4>1. frame.parameters \in Seq(T) /\ frame.arguments \in Seq(T) /\ label.name \in T /\ copy \in T
        BY <2>3, <3>1, <3>2 DEF CallType, LabelType
      <4> HIDE DEF T, frame, label, copy
      <4>2. p \in Seq(T) /\ a \in Seq(T)
        BY <4>1
      <4> QED BY <4>2 DEF T
    <3>4. now = [frame EXCEPT !.parameters = p, !.arguments = a]
      OBVIOUS
    <3> HIDE DEF p, a, frame, now
    <3>5. now \in CallType
      BY <3>1, <3>3, <3>4 DEF CallType
    <3> DEFINE T == CallType
               q == Front(macroCallStack)
    <3>6. q \in Seq(T) /\ now \in T
      BY <3>1, <3>5
    <3> HIDE DEF T, q
    <3>7. Append(q, now) \in Seq(T)
      BY <3>6
    <3> QED BY <3>7 DEF T, q
  <2> HIDE DEF free, now
  <2>5. macroCallStack' \in Seq(CallType)
    BY <2>2, <2>4 DEF Typed
  <2>6. Typed'
    BY <2>1, <2>3, <2>5 DEF Typed
  <2> QED BY <2>1, <2>6, UnmovedContinues DEF Keeps
<1> QED BY <1>1, <1>2

LEMMA ArgumentKeeps ==
  ASSUME Typed, Formed(stream), Ahead(stream), ReadArgument
  PROVE  Keeps
<1> DEFINE s == Settled(stream)
           rest == Rest(s)
           c == rest[1]
           word == SubSeq(rest, 1, Run(rest, IdentifierChars))
           size == IF c \in Letters THEN Len(word) ELSE IF c \in DOMAIN Strings THEN 2 ELSE 1
           after == Skips(s, size)
           start == TellInternal(s)
           calls == Returned(after)
           name == StringRead(after, start)
           i == Parameter(calls, name)
           With(text, empty) == [current EXCEPT !.argument = @ \o text, !.empty = empty]
           pushed == [current EXCEPT !.list = Append(@, current.argument), !.argument = <<>>]
           Becomes(now, next, t) ==
             /\ Reads(t)
             /\ current' = now
             /\ expect' = next
             /\ UNCHANGED <<program, labels, location, macros, macroFunctions, labelLocations, astray, output>>
           Continue(text, empty, t) == Becomes(With(text, empty), "arguments", t)
<1>1. IF rest = <<>> \/ AtEnd(after) THEN Stop("failed")
      ELSE
         \/ c = ")" /\ Becomes(IF current.empty THEN current ELSE pushed, "end", after)
         \/ c = "," /\ Becomes(pushed, "arguments", after)
         \/ /\ c \in DOMAIN Strings
            /\ Becomes([pushed EXCEPT !.list = Append(current.list, current.argument \o <<c>>)],
                       "end", after)
         \/ c \notin Letters \cup DOMAIN Strings \cup {")", ","} /\ Continue(<<c>>, FALSE, after)
         \/ c \in Letters /\ StringFails(after, start) /\ Stop("failed")
         \/ /\ c \in Letters
            /\ ~StringFails(after, start)
            /\ LET t == AfterString(after, start) IN
               \/ i # 0 /\ i > Len(Last(calls).arguments) /\ Stop("undefined")
               \/ i # 0 /\ i <= Len(Last(calls).arguments) /\ Continue(Last(calls).arguments[i], FALSE, t)
               \/ i = 0 /\ name \in DOMAIN macros /\ Continue(macros[name], current.empty, t)
               \/ i = 0 /\ name \notin DOMAIN macros /\ Continue(name, FALSE, t)
  BY DEF ReadArgument
<1> HIDE DEF Becomes, With
<1>2. CASE \E how : Stop(how)
  BY <1>2, StopKeeps
<1>3. CASE ~\E how : Stop(how)
  <2>1. s \in Reached(stream) /\ Settled(s) = s /\ Formed(s) /\ Reached(s) \subseteq Reached(stream)
        /\ rest \in Texts
    BY SettledReaches, ReachedIs
  <2>2. rest # <<>> /\ ~AtEnd(after)
    BY ZenonT(60), <1>1, <1>3
  <2>3. ~AtEnd(s)
    BY Zenon, <2>2 DEF Rest
  <2> HIDE DEF s
  <2>4. <<c>> \in Texts
    BY <2>1, <2>2 DEF Texts
  <2>5. word \in Texts
    BY <2>1, BeginningTyped
  <2> HIDE DEF rest, word
  <2>6. size \in Nat
    BY <2>5 DEF Texts
  <2> HIDE DEF size, c
  <2>7. after \in Reached(s) /\ Settled(after) = after
    BY <2>1, <2>6, SkipsReaches
  <2> HIDE DEF after
  <2>8. after \in Reached(stream)
    BY <2>1, <2>7
  <2>9. ASSUME ~StringFails(after, start)
        PROVE  AfterString(after, start) \in Reached(stream) /\ name \in Texts
    BY <2>1, <2>2, <2>3, <2>7, <2>9, StringReaches
  <2> HIDE DEF name, start
  <2>10. ASSUME NEW now \in StatementType, NEW next, NEW t \in Reached(stream), Becomes(now, next, t)
         PROVE  Keeps
    BY SMTT(30), <2>10, ReadKeeps DEF Becomes, Typed
  <2>11. ASSUME NEW text \in Texts, NEW empty \in BOOLEAN PROVE With(text, empty) \in StatementType
    BY StatementTyped DEF With, Typed
  <2>12. current \in StatementType /\ pushed \in StatementType /\ current.empty \in BOOLEAN
    BY StatementTyped DEF Typed, StatementType
  <2>13. [pushed EXCEPT !.list = Append(current.list, current.argument \o <<c>>)] \in StatementType
    <3> DEFINE a == current.argument \o <<c>>
               T == Texts
               q == current.list
    <3>1. q \in Seq(T) /\ a \in T
      <4>1. q \in Seq(T) /\ current.argument \in Texts
        BY <2>12 DEF StatementType
      <4> QED BY <2>4, <4>1, TextsJoin
    <3> HIDE DEF T, q, a, pushed
    <3>2. Append(q, a) \in Seq(T)
      BY <3>1
    <3> DEFINE b == Append(q, a)
    <3>3. b \in Seq(T)
      BY <3>2
    <3> HIDE DEF b
    <3>4. [pushed EXCEPT !.list = b] \in StatementType
      BY <2>12, <3>3 DEF StatementType, T
    <3> QED BY <3>4 DEF a, b, q
  <2> DEFINE strung == [pushed EXCEPT !.list = Append(current.list, current.argument \o <<c>>)]
             t == AfterString(after, start)
  <2>14. ASSUME i # 0, i <= Len(Last(calls).arguments)
         PROVE  Last(calls).arguments[i] \in Texts
    <3>1. calls \in Seq(CallType)
      <4>1. after.ended \in Seq(Nat)
        BY <2>8, ReachedIs
      <4> QED BY <2>14, <4>1, ReturnedTyped DEF Typed
    <3> HIDE DEF calls
    <3>2. i \in Nat /\ Last(calls).arguments \in Seq(Texts)
      BY <2>14, <3>1, ParameterTyped DEF CallType
    <3> HIDE DEF i
    <3> QED BY <2>14, <3>2
  <2>15. ASSUME name \in DOMAIN macros PROVE macros[name] \in Texts
    <3>1. PICK K \in SUBSET Texts : macros \in [K -> Texts]
      BY DEF Typed, Maps
    <3> QED BY <2>15, <3>1
  <2> HIDE DEF pushed, strung, t, calls, i
  <2>16. CASE c = ")" /\ Becomes(IF current.empty THEN current ELSE pushed, "end", after)
    <3>1. (IF current.empty THEN current ELSE pushed) \in StatementType
      BY <2>12
    <3> QED BY <2>8, <2>10, <2>16, <3>1
  <2>17. CASE c = "," /\ Becomes(pushed, "arguments", after)
    BY <2>8, <2>10, <2>12, <2>17
  <2>18. CASE c \in DOMAIN Strings /\ Becomes(strung, "end", after)
    BY <2>8, <2>10, <2>13, <2>18 DEF strung
  <2>19. CASE Becomes(With(<<c>>, FALSE), "arguments", after)
    <3>1. With(<<c>>, FALSE) \in StatementType
      BY <2>4, <2>11
    <3> QED BY <2>8, <2>10, <2>19, <3>1
  <2>20. CASE /\ ~StringFails(after, start)
              /\ \/ i # 0 /\ i <= Len(Last(calls).arguments) /\ Continue(Last(calls).arguments[i], FALSE, t)
                 \/ i = 0 /\ name \in DOMAIN macros /\ Continue(macros[name], current.empty, t)
                 \/ i = 0 /\ name \notin DOMAIN macros /\ Continue(name, FALSE, t)
    <3>1. t \in Reached(stream) /\ name \in Texts
      BY <2>9, <2>20 DEF t
    <3>2. PICK text \in Texts : \E empty \in BOOLEAN : Continue(text, empty, t)
      BY <2>12, <2>14, <2>15, <2>20, <3>1
    <3>3. PICK empty \in BOOLEAN : Becomes(With(text, empty), "arguments", t)
      BY <3>2
    <3>4. With(text, empty) \in StatementType
      BY <2>11
    <3> QED BY <2>10, <3>1, <3>3, <3>4
  <2> QED BY <1>1, <1>3, <2>2, <2>16, <2>17, <2>18, <2>19, <2>20 DEF strung, t
<1> QED BY <1>2, <1>3

LEMMA TokenKeeps ==
  ASSUME Typed, Formed(stream), Ahead(stream), ReadToken, ~astray'
  PROVE  Keeps
<1> DEFINE token == Lexed(stream)
<1>1. \/ LexerFails(token)
      \/ Replace(token)
      \/ ReplaceByNothing(token)
      \/ BeginStatement(token)
      \/ ContinueStatement(token)
      \/ ReadLabel(token)
      \/ EndOfFile(token)
      \/ SyntaxError(token)
      \/ EndInstruction(token)
      \/ EndDefinition(token)
      \/ EndInclude(token)
      \/ EndDebug(token)
      \/ FileMissing(token)
      \/ EndCall(token)
  BY Zenon DEF ReadToken
<1>2. token.s \in Reached(stream) /\ token.text \in Texts
  BY LexedReaches
<1> HIDE DEF token
<1>3. CASE LexerFails(token) \/ ReplaceByNothing(token) \/ SyntaxError(token)
  <2>1. \E how : Stop(how)
    BY <1>3 DEF LexerFails, ReplaceByNothing, SyntaxError
  <2> QED BY <2>1, StopKeeps
<1>4. CASE Replace(token)
  BY <1>2, <1>4, ReplaceKeeps
<1>5. CASE BeginStatement(token)
  BY <1>2, <1>5, BeginKeeps
<1>6. CASE ContinueStatement(token)
  BY <1>2, <1>6, ContinueKeeps
<1>7. CASE ReadLabel(token)
  BY <1>2, <1>7, LabelKeeps
<1>8. CASE EndOfFile(token) \/ EndInstruction(token) \/ EndDefinition(token) \/ FileMissing(token)
  BY <1>2, <1>8, EndKeeps
<1>9. CASE EndInclude(token)
  BY <1>2, <1>9, IncludeKeeps
<1>10. CASE EndDebug(token)
  BY <1>2, <1>10, DebugKeeps
<1>11. CASE EndCall(token)
  BY <1>2, <1>11, CallKeeps
<1> QED BY <1>1, <1>3, <1>4, <1>5, <1>6, <1>7, <1>8, <1>9, <1>10, <1>11

\* No step takes an insertion at no position back.
LEMMA AstrayStays ==
  ASSUME astray \in BOOLEAN, Next \/ UNCHANGED vars
  PROVE  astray' \in BOOLEAN /\ (~astray' => ~astray)
<1>1. UNCHANGED astray \/ \E u : astray' = (astray \/ Strays(u))
  <2>1. CASE \E how : Stop(how)
    BY <2>1 DEF Stop
  <2>2. ASSUME NEW token, NEW kinds, NEW now, NEW next, NEW statement,
               Accept(token, kinds, now, next, statement)
        PROVE  UNCHANGED astray
    BY <2>2 DEF Accept
  <2>3. CASE ReadToken
    <3>1. PICK token : \/ LexerFails(token)
                       \/ Replace(token)
                       \/ ReplaceByNothing(token)
                       \/ BeginStatement(token)
                       \/ ContinueStatement(token)
                       \/ ReadLabel(token)
                       \/ EndOfFile(token)
                       \/ SyntaxError(token)
                       \/ EndInstruction(token)
                       \/ EndDefinition(token)
                       \/ EndInclude(token)
                       \/ EndDebug(token)
                       \/ FileMissing(token)
                       \/ EndCall(token)
      BY <2>3, Zenon DEF ReadToken
    <3>2. CASE LexerFails(token) \/ ReplaceByNothing(token) \/ SyntaxError(token)
      BY <2>1, <3>2 DEF LexerFails, ReplaceByNothing, SyntaxError
    <3>3. CASE BeginStatement(token)
      BY <2>2, <3>3, Zenon DEF BeginStatement
    <3>4. CASE ContinueStatement(token)
      BY <2>2, <3>4, Zenon DEF ContinueStatement
    <3>5. CASE ReadLabel(token)
      BY <2>2, <3>5, Zenon DEF ReadLabel
    <3>6. CASE \/ EndOfFile(token) \/ EndInstruction(token) \/ EndDefinition(token) \/ FileMissing(token)
      BY <3>6 DEF EndOfFile, EndInstruction, EndDefinition, FileMissing
    <3>7. CASE Replace(token) \/ EndInclude(token) \/ EndDebug(token) \/ EndCall(token)
      BY <3>7 DEF Replace, EndInclude, EndDebug, EndCall
    <3> QED BY <3>1, <3>2, <3>3, <3>4, <3>5, <3>6, <3>7
  <2>4. CASE ReadLine
    BY <2>1, <2>4, Zenon DEF ReadLine
  <2>5. CASE ReadBlock
    BY <2>1, <2>5, Zenon DEF ReadBlock
  <2>6. CASE ReadArgument
    BY <2>1, <2>6, Zenon DEF ReadArgument
  <2>7. CASE DefineLabel
    BY <2>1, <2>7, Zenon DEF DefineLabel
  <2>8. CASE StatementReduced \/ Terminated \/ UNCHANGED vars
    BY <2>8 DEF StatementReduced, Terminated, vars
  <2> QED BY <2>3, <2>4, <2>5, <2>6, <2>7, <2>8 DEF Next
<1> QED BY <1>1

LEMMA StepKeeps ==
  ASSUME Typed, Formed(stream), Ahead(stream), Next \/ UNCHANGED vars, ~astray'
  PROVE  Keeps
<1>1. CASE ReadToken
  BY <1>1, TokenKeeps
<1>2. CASE ReadLine
  BY <1>2, LineKeeps
<1>3. CASE ReadBlock
  BY <1>3, BlockKeeps
<1>4. CASE ReadArgument
  BY <1>4, ArgumentKeeps
<1>5. CASE DefineLabel
  BY <1>5, DefineLabelKeeps
<1>6. CASE StatementReduced \/ Terminated \/ UNCHANGED vars
  <2>1. UNCHANGED <<program, stream, current, labels, macroCallStack, macros, macroFunctions>>
    BY <1>6 DEF StatementReduced, Terminated, vars
  <2>2. Typed'
    BY <2>1 DEF Typed
  <2> QED BY <2>1, <2>2, UnmovedContinues DEF Keeps
<1> QED BY <1>1, <1>2, <1>3, <1>4, <1>5, <1>6 DEF Next

\* open: one entry, the main file's.
LEMMA OpenForms ==
  ASSUME NEW text \in Texts
  PROVE  LET s == Include(NewStream, MainName, text, 0) IN Formed(s) /\ Ahead(s)
<1> DEFINE s == Include(NewStream, MainName, text, 0)
           files == [k \in {MainName} |-> text]
           entry == [file |-> <<MainName>>, start |-> 0, end |-> Len(text), offset |-> 0, uid |-> 0]
           r == [files |-> files, entries |-> <<entry>>, it |-> 1, in |-> <<MainName>>, pos |-> 0,
                 uid |-> 0, ended |-> <<>>]
<1>1. MainName \in Texts /\ Len(text) \in Nat
  BY TextAssumption DEF MainName, Texts
<1>2. s = r
  <2> DEFINE a == AddFile(NewStream, MainName, text)
             none == [files |-> files, entries |-> <<>>, it |-> 1, in |-> NULL,
                      pos |-> 0, uid |-> 0, ended |-> <<>>]
  <2>1. a = none
    BY DEF AddFile, NewStream
  <2>2. SettledAtStub(none) = none
    BY DEF SettledAtStub, AtEnd
  <2>3. PushEntry(none, MainName, FALSE, 0) = r
    <3> DEFINE entry2 == [file |-> <<MainName>>, start |-> 0, end |-> 0 + Len(none.files[MainName]),
                          offset |-> 0, uid |-> IF FALSE THEN none.uid + 1 ELSE 0]
    <3>1. PushEntry(none, MainName, FALSE, 0) =
            [none EXCEPT !.entries = <<entry2>>, !.it = 1, !.in = <<MainName>>, !.pos = 0,
                         !.uid = IF FALSE THEN @ + 1 ELSE @]
      BY <2>2 DEF PushEntry
    <3>2. entry2 = entry
      BY <1>1
    <3> HIDE DEF entry, entry2, files
    <3> QED BY <3>1, <3>2
  <2> HIDE DEF none, a, r
  <2> QED BY <2>1, <2>3 DEF Include, a
<1> HIDE DEF s
<1>3. files \in Files
  <2>1. files \in [{MainName} -> Texts] /\ {MainName} \in SUBSET Texts
    BY <1>1
  <2> HIDE DEF files
  <2> QED BY <2>1 DEF Files, Maps
<1>4. files[MainName] = text /\ MainName \in DOMAIN files
  OBVIOUS
<1> HIDE DEF files
<1>5. entry \in EntryType /\ <<MainName>> \in FileRef
  BY <1>1 DEF EntryType, FileRef
<1>6. /\ s.files = files /\ s.entries = <<entry>> /\ s.it = 1 /\ s.in = <<MainName>> /\ s.pos = 0
      /\ Len(s.entries) = 1 /\ s.entries[1] = entry
  BY <1>2
<1>7. s \in StreamType
  <2>1. <<entry>> \in Seq(EntryType) /\ <<>> \in Seq(Nat)
    BY <1>5
  <2> HIDE DEF entry
  <2> QED BY <1>2, <1>3, <1>5, <2>1 DEF StreamType
<1>8. Size(s, 1) = Len(text)
  BY <1>4, <1>6 DEF Size, Text
<1>9. Pieces(s) /\ Adjoining(s) /\ Placed(s) /\ Ahead(s)
  <2>1. Pieces(s)
    BY <1>1, <1>4, <1>6, <1>8 DEF Pieces
  <2>2. Adjoining(s)
    BY <1>6 DEF Adjoining
  <2>3. Placed(s)
    BY <1>1, <1>6, <1>8 DEF Placed
  <2>4. Ahead(s)
    BY <1>1, <1>6, <1>8 DEF Ahead
  <2> QED BY <2>1, <2>2, <2>3, <2>4
<1> QED BY <1>6, <1>7, <1>9 DEF Formed, s

\* EntriesAdjoin is an inductive invariant, of every set of source files.
LEMMA AdjoinInitially ==
  ASSUME Init
  PROVE  EntriesAdjoin
<1>1. stream = Include(NewStream, MainName, program.main, 0) /\ program.main \in Texts
      /\ program \in Programs
  BY TextAssumption DEF Init
<1>2. Formed(stream) /\ Ahead(stream)
  BY <1>1, OpenForms
<1>3. macros \in Maps(Texts) /\ macroFunctions \in Maps(MacroType)
  <2>1. ASSUME NEW S PROVE EmptyMap \in Maps(S)
    <3>1. EmptyMap \in [{} -> S] /\ {} \in SUBSET Texts
      BY DEF EmptyMap
    <3> QED BY <3>1 DEF Maps
  <2> QED BY <2>1 DEF Init
<1>4. labels \in Seq(LabelType) /\ macroCallStack \in Seq(CallType) /\ current \in StatementType
  <2>1. labels = <<>> /\ macroCallStack = <<>> /\ current = Nothing
    BY DEF Init
  <2>2. ASSUME NEW S PROVE <<>> \in Seq(S)
    OBVIOUS
  <2>3. Nothing \in StatementType
    BY StatementTyped
  <2> QED BY <2>1, <2>2, <2>3
<1> QED BY <1>1, <1>2, <1>3, <1>4 DEF Init, EntriesAdjoin, Typed

LEMMA AdjoinAfterwards ==
  ASSUME EntriesAdjoin, [Next]_vars
  PROVE  /\ EntriesAdjoin'
         /\ ~astray' => Continues(Rest(stream'), Rest(stream), Range(stream'.files))
<1>1. astray' \in BOOLEAN /\ (~astray' => ~astray)
  BY AstrayStays DEF EntriesAdjoin
<1>2. ~astray' => Keeps
  BY <1>1, StepKeeps DEF EntriesAdjoin
<1> QED BY <1>1, <1>2 DEF EntriesAdjoin, Keeps

\* SeekInvertsTell: whatever has been included, defined, called and replaced, as
\* long as no text was inserted at no position, the lexer goes back to the
\* character it started the token at: seekg finds the entry tellg counted from
\* among all the halves that insertions have left.
THEOREM TokensReadBack == Spec => []SeekInvertsTell
<1>1. Init => EntriesAdjoin
  BY AdjoinInitially
<1>2. EntriesAdjoin /\ [Next]_vars => EntriesAdjoin'
  BY AdjoinAfterwards
<1>3. EntriesAdjoin => SeekInvertsTell
  <2> SUFFICES ASSUME Formed(stream), ~Eof(stream)
               PROVE  LET s == Settled(stream) IN Seek(s, TellInternal(s)) = s
    BY DEF EntriesAdjoin, SeekInvertsTell
  <2> DEFINE s == Settled(stream)
  <2>1. Formed(s) /\ ~AtEnd(s) /\ ~Spent(s, s.it)
    BY SettledMoves DEF Eof
  <2> HIDE DEF s
  <2>2. Seek(s, TellInternal(s)) = [s EXCEPT !.it = s.it, !.in = s.in, !.pos = s.pos]
    BY <2>1, SeekBack, ItselfAReading
  <2>3. s \in StreamType
    BY <2>1 DEF Formed
  <2>4. [s EXCEPT !.it = s.it, !.in = s.in, !.pos = s.pos] = s
    BY <2>3 DEF StreamType
  <2> QED BY <2>2, <2>4 DEF s
<1> QED BY <1>1, <1>2, <1>3, PTL DEF Spec

\* ReadsOnOrInserts: the pieces a source has been cut into are one text, of which
\* a step reads the beginning and before which it puts a text.
THEOREM TextsAreInserted == Spec => ReadsOnOrInserts
<1>1. Init => EntriesAdjoin
  BY AdjoinInitially
<1>2. EntriesAdjoin /\ [Next]_vars => EntriesAdjoin'
  BY AdjoinAfterwards
<1>3. EntriesAdjoin /\ [Next]_vars =>
        [~astray' => Continues(Rest(stream'), Rest(stream), Range(stream'.files))]_vars
  BY AdjoinAfterwards
<1> QED BY <1>1, <1>2, <1>3, PTL DEF Spec, ReadsOnOrInserts
=============================================================================
