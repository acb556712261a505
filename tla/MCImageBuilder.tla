--------------------------- MODULE MCImageBuilder ---------------------------
(***************************************************************************)
(* A builder of at most a word and a half of data and two words of text.   *)
(***************************************************************************)
EXTENDS ImageBuilder

MCWords == { [instr |-> i, field |-> NoField] : i \in Instr \ {ZeroInstr} }
MCStrings == { <<>>,
               << <<[instr |-> "a", field |-> NoField], 0>> >>,
               << <<[instr |-> "a", field |-> NoField], 0>>, ZeroByte >> }
MCAlignments == {2, 4}
MCSizes == {0, 1, 3}

=============================================================================
