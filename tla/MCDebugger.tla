----------------------------- MODULE MCDebugger -----------------------------
(***************************************************************************)
(* Two programs for the debugger: one that toggles a word of its data, one *)
(* that copies a word of its text over another and then calls.             *)
(***************************************************************************)
EXTENDS Debugger

R == {"zero", "v0", "a0", "a1", "a2", "t0", "gp", "sp", "fp", "ra"}

I(opcode, r0, r1, immediate) ==
  [opcode |-> opcode, register0 |-> r0, register1 |-> r1, register2 |-> "zero",
   immediate |-> immediate % HALF_RANGE, absolute |-> 0]

Exit == I("SYS", "zero", "zero", 0)

Toggling == << I("LUI", "a1", "zero", 16), I("LW", "t0", "a1", -4), I("XORI", "t0", "t0", 1),
               I("SW", "t0", "a1", -12), Exit >>

Copying == << I("LW", "t0", "zero", 0), I("SW", "t0", "zero", 8),
              I("BGEZAL", "zero", "zero", 4), I("ORI", "t0", "zero", 0), Exit >>

MCDecode == [word \in (1 .. 5) \cup (17 .. 21) |->
               IF word < 16 THEN Toggling[word] ELSE Copying[word - 16]]

MCPrograms == { [text |-> [i \in 1 .. 5 |-> i], data |-> <<0, 0, 0, 0>>],
                [text |-> [i \in 1 .. 5 |-> 16 + i], data |-> <<0, 0, 0, 0>>] }

\* Instructions, the middle of one, the data, nothing.
MCAddresses == {4, 6, 12, 4096, 2000}

=============================================================================
