------------------------------ MODULE Toolchain ------------------------------
(***************************************************************************)
(* A source is assembled, and the words are loaded into the emulator and   *)
(* run there: module Assembler, then the processor of module Risc16.       *)
(*                                                                         *)
(* They are two programs that a user runs one after the other, the second  *)
(* one on the file the first one has left (the target asmc of the Makefile *)
(* runs the assembler only).                                               *)
(***************************************************************************)
EXTENDS Assembler

CONSTANTS
  RomEnd, BitAnd(_, _),
  MaxTicks      \* bound: the instructions executed

(* The third register is the low bits of an immediate.                     *)
ASSUME LayoutAssumption == Imm % NRegs = 0 /\ RomEnd \in Nat

ASSUME AndAssumption == \A a, b \in 0 .. W - 1 : BitAnd(a, b) \in 0 .. W - 1

VARIABLES
  mem, rx, pc, rom_ptr, ram_ptr,   \* the processor's
  loaded,                          \* the emulator runs
  ticks

Cpu == INSTANCE Risc16

emulator == <<mem, rx, pc, rom_ptr, ram_ptr, loaded, ticks>>
toolvars == <<vars, emulator>>

-----------------------------------------------------------------------------

Assemble == Next /\ UNCHANGED emulator

(* The assembler opens its output before pass one, and exit flushes it:    *)
(* however the program was refused there is a file, with the words of the  *)
(* lines before the one refused, or without any when pass one refused it.  *)
(* What a crash leaves in the file depends on stdio, and is not loaded.    *)
Load ==
  /\ ~loaded /\ status \in {"assembled", "exit0", "exit1"}
  /\ loaded' = TRUE
  /\ mem' = Cpu!Loaded(out)
  /\ UNCHANGED <<vars, rx, pc, rom_ptr, ram_ptr, ticks>>

Tick ==
  /\ loaded /\ ticks < MaxTicks
  /\ Cpu!Execute
  /\ ticks' = ticks + 1
  /\ UNCHANGED <<vars, loaded>>

ToolInit == Init /\ Cpu!CpuInit(<<>>) /\ loaded = FALSE /\ ticks = 0

ToolNext == Assemble \/ Load \/ Tick

ToolSpec == ToolInit /\ [][ToolNext]_toolvars

-----------------------------------------------------------------------------
(* What a line means to who wrote it *)

Sets(r, n) ==
  /\ rx' = IF r = 0 THEN rx ELSE [rx EXCEPT ![r] = U16(n)]
  /\ mem' = mem
  /\ pc' = U16(pc + 1)

Goes(target) == pc' = target /\ UNCHANGED <<mem, rx>>

(* Where a branch goes that is taken: so many words further, or to a label. *)
BranchTarget(t) ==
  IF t.isNumber THEN pc + 1 + t.value ELSE get_label_address(t.name)

(* What the instruction at pc does when it is the first word of the line   *)
(* l.  The processor takes an immediate for a number without a sign and    *)
(* cannot branch to Imm and beyond: nothing is said of a negative one, nor *)
(* of a target out there.                                                  *)
MeansWhatItSays(l) ==
  LET a      == l.args[1].value
      reg(k) == Cpu!RegRead(l.args[k].value)
      n(k)   == raw(l.args[k])
  IN  CASE l.op = "nop"  -> Sets(0, 0)
        [] l.op = "add"  -> Sets(a, reg(2) + reg(3))
        [] l.op = "nand" -> Sets(a, W - 1 - BitAnd(reg(2), reg(3)))
        [] l.op = "addi" /\ n(3) >= 0 -> Sets(a, reg(2) + n(3))
        [] l.op = "lw"   /\ n(3) >= 0 -> Sets(a, mem[U16(reg(2) + n(3))])
        [] l.op = "lui" \/ l.op = "movi" -> Sets(a, n(2) - (n(2) % Low))
        [] l.op = "lli"  -> Sets(a, reg(1) + (n(2) % Low))
        [] l.op = "sw" /\ n(3) >= 0 ->
             LET there == U16(reg(2) + n(3))
             IN  /\ mem' = IF there \in Cpu!RamStart .. Cpu!RamEnd - 1
                           THEN [mem EXCEPT ![there] = reg(1)] ELSE mem
                 /\ rx' = rx /\ pc' = U16(pc + 1)
        [] l.op = "beq" ->
             IF reg(1) # reg(2) THEN Goes(U16(pc + 1))
             ELSE BranchTarget(l.args[3]) \in 0 .. Imm - 1 => Goes(BranchTarget(l.args[3]))
        [] l.op = "jalr" ->
             pc' = reg(2) /\ rx' = IF a = 0 THEN rx ELSE [rx EXCEPT ![a] = U16(pc + 1)]
        [] OTHER -> TRUE

(* A program runs as it was written, line by line: the words the assembler *)
(* puts together are the instructions the processor takes apart, with the  *)
(* registers and numbers of the source; a branch goes to the line its      *)
(* label is on; a movi leaves all of its argument in the register.  Where  *)
(* pass two refused the program, that is so of the lines before the one    *)
(* refused; where pass one did, the file is empty and nothing is said.  Of *)
(* a program longer than the memory two lines have the same address, and   *)
(* nothing is said either.                                                 *)
RunsAsWritten ==
  [][loaded /\ loaded' /\ pc < RomEnd /\ out # <<>> /\ Len(out) <= W =>
       \A i \in 1 .. at - 1 :
         /\ starts[i] = pc => MeansWhatItSays(source[i])
         /\ LET n == raw(source[i].args[2])
                a == source[i].args[1].value
            IN  starts[i] + 1 = pc /\ source[i].op = "movi" /\ rx[a] = U16(n - (n % Low))
                => Sets(a, n)]_toolvars

=============================================================================
