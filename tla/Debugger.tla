------------------------------ MODULE Debugger ------------------------------
(***************************************************************************)
(* kasm::Debugger: the command line over a virtual machine, with           *)
(* breakpoints that overwrite words of the program's own memory with an    *)
(* illegal opcode and are noticed through the signal it raises.            *)
(*                                                                         *)
(* A command is one action when it is done at the prompt; e, c and u start *)
(* run(), whose instructions are steps of their own.  Repeating the last   *)
(* command with an empty line is choosing it again.  r, m and d print, and *)
(* change nothing.                                                         *)
(***************************************************************************)
EXTENDS VirtualMachine

CONSTANT Addresses    \* the addresses that commands name

ASSUME AddressesAssumption == Addresses \subseteq WordValue

\* 0xFFFFFFFF
BREAK == WORD_RANGE - 1

ASSUME BreakAssumption == BREAK \notin DOMAIN Decode

VARIABLES
  breakpoints,  \* address -> the word that the breakpoint replaced
  until,        \* the addresses of breakpoints to be hit once
  mode          \* "prompt", "executing", or "over": cli() was left

\* History variable: the program has met its own breakpoints, see Meddles.
VARIABLE meddled

debuggerVars == <<machineVars, breakpoints, until, mode, meddled>>

Mode == {"prompt", "executing", "over"}

Patched == UNION {WordLocations(a) : a \in DOMAIN breakpoints}

\* The memory of the program without its breakpoints.
Unpatched ==
  [l \in DOMAIN memory |->
     IF l \in Patched
     THEN LET a == CHOOSE a \in DOMAIN breakpoints : l \in WordLocations(a)
          IN  ByteOfWord(breakpoints[a], l[2] - Locate(a)[2])
     ELSE memory[l]]

\* The machine that runs the program alone.
Alone == INSTANCE VirtualMachine WITH memory <- Unpatched

\* The next instruction reads or writes what a breakpoint replaced: its own
\* bytes, if they overlap a breakpoint at another address, or its operand.
Meddles ==
  /\ pc \notin DOMAIN breakpoints
  /\ \/ WordLocations(pc) \cap Patched # {}
     \/ /\ Fetchable
        /\ LoadWord(memory, pc) \in DOMAIN Decode
        /\ LET d == Decode[LoadWord(memory, pc)]
           IN  \/ d.opcode \in {"LB", "LW", "SB", "SW"} /\ Operand(d) \cap Patched # {}
               \/ d.opcode = "SYS" /\ Buffer \cap Patched # {}

-----------------------------------------------------------------------------
(***************************************************************************)
(* setBreakpoint and removeBreakpoint.                                     *)
(***************************************************************************)

InMemory(a) == WordLocations(a) \subseteq DOMAIN memory

WithEntry(a) ==
  [b \in DOMAIN breakpoints \cup {a} |->
     IF b = a THEN LoadWord(memory, a) ELSE breakpoints[b]]

\* Mutant of SetBreakpoint: a breakpoint is set over itself.
SetBreakpointAgain(a) ==
  /\ breakpoints' = WithEntry(a)
  /\ memory' = StoreWord(memory, a, BREAK)
  /\ meddled' = (meddled \/ (a \notin DOMAIN breakpoints /\ WordLocations(a) \cap Patched # {}))

SetBreakpoint(a) ==
  IF a \in DOMAIN breakpoints THEN UNCHANGED <<breakpoints, memory, meddled>>
  ELSE /\ breakpoints' = WithEntry(a)
       /\ memory' = StoreWord(memory, a, BREAK)
       /\ meddled' = (meddled \/ WordLocations(a) \cap Patched # {})

\* Mutant of RemoveBreakpoint: the word is restored, the entry kept.
RemoveBreakpointKept(a) ==
  IF a \in DOMAIN breakpoints
  THEN /\ memory' = StoreWord(memory, a, breakpoints[a])
       /\ UNCHANGED breakpoints
  ELSE UNCHANGED <<memory, breakpoints>>

RemoveBreakpoint(a) ==
  IF a \in DOMAIN breakpoints
  THEN /\ memory' = StoreWord(memory, a, breakpoints[a])
       /\ breakpoints' = [b \in DOMAIN breakpoints \ {a} |-> breakpoints[b]]
  ELSE UNCHANGED <<memory, breakpoints>>

-----------------------------------------------------------------------------
(***************************************************************************)
(* The commands of cli().                                                  *)
(***************************************************************************)

machineButMemory == <<textSegmentLength, pc, hi, lo, registers, shouldExit, exitCode,
                      files, fileID>>

DebuggerInit ==
  /\ Init
  /\ breakpoints = <<>>
  /\ until = {}
  /\ mode = "prompt"
  /\ meddled = FALSE

\* Undefined behaviour in a command.
Wreck ==
  /\ trap' = "undefined"
  /\ mode' = "over"
  /\ UNCHANGED <<machineButMemory, frames, memory, breakpoints, meddled>>

\* e
Execute ==
  /\ mode = "prompt"
  /\ Reset
  /\ frames' = <<>>
  /\ mode' = "executing"
  /\ UNCHANGED <<breakpoints, until, meddled>>

\* c
Continue ==
  /\ mode = "prompt"
  /\ mode' = "executing"
  /\ UNCHANGED <<machineVars, breakpoints, until, meddled>>

\* Mutant of StepInstruction: a signal of the instruction goes unnoticed.
StepInstructionUnguarded ==
  /\ mode = "prompt"
  /\ Step /\ Record
  /\ mode' = "prompt"
  /\ meddled' = (meddled \/ Meddles)
  /\ UNCHANGED <<breakpoints, until>>

\* i; what the instruction throws is caught as when running.
StepInstruction ==
  /\ mode = "prompt"
  /\ Step /\ Record
  /\ mode' = IF trap' = "none" THEN "prompt" ELSE "executing"
  /\ meddled' = (meddled \/ Meddles)
  /\ UNCHANGED <<breakpoints, until>>

\* b
Break(a) ==
  /\ mode = "prompt"
  /\ UNCHANGED until
  /\ IF a \in DOMAIN breakpoints \/ InMemory(a)
     THEN SetBreakpoint(a) /\ UNCHANGED <<machineButMemory, frames, trap, mode>>
     ELSE Wreck

\* u
RunUntil(a) ==
  /\ mode = "prompt"
  /\ until' = until \cup {a}
  /\ IF a \in DOMAIN breakpoints \/ InMemory(a)
     THEN /\ SetBreakpoint(a)
          /\ mode' = "executing"
          /\ UNCHANGED <<machineButMemory, frames, trap>>
     ELSE Wreck

\* m, of an address where no memory is.
PeakMemory(a) ==
  /\ mode = "prompt"
  /\ Locate(a) \notin DOMAIN memory
  /\ UNCHANGED until
  /\ Wreck

\* r, with the number of no register; of a register it prints.
PeakRegister ==
  /\ mode = "prompt"
  /\ UNCHANGED until
  /\ Wreck

\* q; or a number that std::stoi does not read, whose exception nobody catches.
Quit ==
  /\ mode = "prompt"
  /\ mode' = "over"
  /\ UNCHANGED <<machineVars, breakpoints, until, meddled>>

-----------------------------------------------------------------------------
(***************************************************************************)
(* run(), and the exceptions that leave it.                                *)
(***************************************************************************)

Run ==
  /\ mode = "executing"
  /\ Iterate
  /\ meddled' = (meddled \/ Meddles)
  /\ UNCHANGED <<breakpoints, until, mode>>

Return ==
  /\ mode = "executing"
  /\ trap = "none" /\ ~Running
  /\ mode' = "prompt"
  /\ UNCHANGED <<machineVars, breakpoints, until, meddled>>

\* Mutant of Catch: the address stays in until.
CatchKeepsUntil ==
  /\ mode = "executing"
  /\ trap = "ILLEGAL_OPCODE"
  /\ trap' = "none"
  /\ mode' = "prompt"
  /\ IF pc \in until THEN RemoveBreakpoint(pc)
     ELSE UNCHANGED <<memory, breakpoints>>
  /\ UNCHANGED <<machineButMemory, frames, until, meddled>>

\* Mutant of Catch: the signal is caught inside run's loop.
CatchAndGoOn ==
  /\ mode = "executing"
  /\ trap = "ILLEGAL_OPCODE"
  /\ trap' = "none"
  /\ until' = until \ {pc}
  /\ IF pc \in until THEN RemoveBreakpoint(pc)
     ELSE UNCHANGED <<memory, breakpoints>>
  /\ UNCHANGED <<machineButMemory, frames, mode, meddled>>

\* Mutant of Catch: the handler is outside of cli's loop, which the signal leaves.
CatchOutside ==
  /\ mode = "executing"
  /\ trap = "ILLEGAL_OPCODE"
  /\ trap' = "none"
  /\ mode' = "over"
  /\ until' = until \ {pc}
  /\ IF pc \in until THEN RemoveBreakpoint(pc)
     ELSE UNCHANGED <<memory, breakpoints>>
  /\ UNCHANGED <<machineButMemory, frames, meddled>>

Catch ==
  /\ mode = "executing"
  /\ trap = "ILLEGAL_OPCODE"
  /\ trap' = "none"
  /\ mode' = "prompt"
  /\ until' = until \ {pc}
  /\ IF pc \in until THEN RemoveBreakpoint(pc)
     ELSE UNCHANGED <<memory, breakpoints>>
  /\ UNCHANGED <<machineButMemory, frames, meddled>>

\* Nothing else is caught.
Abort ==
  /\ mode = "executing"
  /\ trap \in {"exception", "undefined"}
  /\ mode' = "over"
  /\ UNCHANGED <<machineVars, breakpoints, until, meddled>>

Over == mode = "over" /\ UNCHANGED debuggerVars

Executing == Run \/ Return \/ Catch \/ Abort

Command ==
  \/ Execute \/ Continue \/ StepInstruction \/ PeakRegister \/ Quit
  \/ \E a \in Addresses : Break(a) \/ RunUntil(a) \/ PeakMemory(a)

DebuggerNext == Command \/ Executing \/ Over

DebuggerSpec == DebuggerInit /\ [][DebuggerNext]_debuggerVars

\* run() keeps running; the user need not type.
FairDebuggerSpec == DebuggerSpec /\ WF_debuggerVars(Executing)

-----------------------------------------------------------------------------
(***************************************************************************)
(* Properties.                                                             *)
(***************************************************************************)

\* A signal is pending only while a command executes.
DebuggerTypeOK ==
  /\ TypeOK
  /\ DOMAIN breakpoints \subseteq Addresses
  /\ \A a \in DOMAIN breakpoints : breakpoints[a] \in WordValue
  /\ until \subseteq Addresses
  /\ mode \in Mode
  /\ mode = "prompt" => trap = "none"
  /\ meddled \in BOOLEAN

\* Every address in until has a breakpoint: a run that is to stop there does,
\* and the signal at that address is taken for a stop, once, and never for the
\* program's own illegal opcode.
UntilHasBreakpoint == mode # "over" => until \subseteq DOMAIN breakpoints

\* A program that leaves its breakpoints alone does under the debugger what it
\* does alone: every step is one of the machine on memory without breakpoints,
\* a restart, or nothing, however breakpoints are set, hit and removed.
ProgramUndisturbed ==
  [][ ~meddled' => \/ Alone!Step
                   \/ Alone!Reset
                   \/ UNCHANGED <<Unpatched, machineButMemory>> ]_debuggerVars

\* The instruction at a breakpoint is never executed, by any command, even if
\* the breakpoint was hit before, or was removed and set again.
StopsAtBreakpoints ==
  [][ (Run \/ StepInstruction) /\ ~meddled /\ pc \in DOMAIN breakpoints =>
        trap' = "ILLEGAL_OPCODE" /\ UNCHANGED machine ]_debuggerVars

\* A program that comes to an end, and makes no system call that throws, gives the
\* prompt back: a signal, of a breakpoint or of an opcode of its own, neither
\* leaves cli nor is raised for ever.  (What is undefined may do anything.)
PromptReturns == mode = "executing" ~> (mode = "prompt" \/ trap = "undefined")

=============================================================================
