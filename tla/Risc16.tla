------------------------------- MODULE Risc16 -------------------------------
(***************************************************************************)
(* The processor of the risc16 emulator (risc16/cmdi.cpp, modules.cpp):    *)
(* memory, registers, and one action for each of the eight instructions.   *)
(*                                                                         *)
(* The layout of an instruction is that of the code's masks, with the      *)
(* widths as parameters: three bits of opcode, two registers, and an       *)
(* immediate whose low bits are the third register.  The emulator has      *)
(* NRegs = 8, Imm = 128 and so words of sixteen bits; the runs have        *)
(* narrower ones.                                                          *)
(***************************************************************************)
EXTENDS Integers, Sequences

CONSTANTS
  NRegs,       \* N_OF_REGS
  Imm,         \* how many values an immediate of addi, lw, sw or beq has
  RomEnd,      \* ROM_END
  BitAnd(_, _) \* the bitwise and of two words

W == 8 * NRegs * NRegs * Imm     \* MEM_CAPACITY, and what an uint16_t holds

Words == 0 .. W - 1
Regs  == 0 .. NRegs - 1

RamStart == RomEnd + 1
RamEnd   == W - 1

ASSUME WidthsAssumption ==
  /\ NRegs \in Nat \ {0} /\ Imm \in Nat \ {0}
  /\ RomEnd \in Nat /\ RomEnd < RamEnd

ASSUME AndAssumption == \A a, b \in Words : BitAnd(a, b) \in Words

VARIABLES
  mem,         \* the word at each address
  rx,          \* the registers; rx[0] is there and never used
  pc,
  rom_ptr,     \* the address of the last instruction
  ram_ptr      \* the address of the last load or store

cpu == <<mem, rx, pc, rom_ptr, ram_ptr>>

(* A mutation for the runs: registers and pointers are wider than a word. *)
U16_Wide(n) == n

U16(n) == n % W     \* the conversion to uint16_t

-----------------------------------------------------------------------------
(* reg_unit and mem_unit *)

RegRead(r) == IF r = 0 THEN 0 ELSE rx[r]

(* A mutation for the runs: a write to register 0 is not ignored. *)
RegWrite_Zero(r, n) == [rx EXCEPT ![r] = U16(n)]

RegWrite(r, n) == IF r = 0 THEN rx ELSE [rx EXCEPT ![r] = U16(n)]

(* mem_unit::write: what is not forced does not reach the ROM. *)
MemWrite(addr, data, force) ==
  IF addr >= RamStart \/ force THEN [mem EXCEPT ![addr] = data] ELSE mem

-----------------------------------------------------------------------------
(* fetch and decode: the fields of the word at pc *)

Instr == mem[pc]

opcode == Instr \div (W \div 8)
rA     == (Instr \div (NRegs * Imm)) % NRegs
rB     == (Instr \div Imm) % NRegs
rC     == Instr % NRegs
imm7   == Instr % Imm
imm10  == Instr % (NRegs * Imm)

-----------------------------------------------------------------------------
(* execute *)

(* What the instructions that only compute a register have in common.     *)
(* They and jalr look whether the register is 0, as RegWrite does again.   *)
Result(n) == IF rA = 0 THEN rx ELSE RegWrite(rA, n)

Computes(n) ==
  /\ rx' = Result(n)
  /\ pc' = U16(pc + 1) /\ rom_ptr' = pc
  /\ UNCHANGED <<mem, ram_ptr>>

Add  == opcode = 0 /\ Computes(RegRead(rB) + RegRead(rC))
Addi == opcode = 1 /\ Computes(RegRead(rB) + imm7)
Nand == opcode = 2 /\ Computes(-1 - BitAnd(RegRead(rB), RegRead(rC)))
Lui  == opcode = 3 /\ Computes(imm10 * 8 * NRegs)

Address == U16(imm7 + RegRead(rB))

(* A mutation for the runs: a store may reach RAM_END. *)
Stored_AtEnd == MemWrite(Address, RegRead(rA), FALSE)

(* The bound of __sw leaves out RAM_END, which the rest of the emulator    *)
(* takes for a word of the RAM.                                            *)
Stored ==
  IF Address \in RamStart .. RamEnd - 1
  THEN MemWrite(Address, RegRead(rA), FALSE)
  ELSE mem

Sw ==
  /\ opcode = 4
  /\ ram_ptr' = Address
  /\ mem' = Stored
  /\ pc' = U16(pc + 1) /\ rom_ptr' = pc
  /\ UNCHANGED rx

Lw ==
  /\ opcode = 5
  /\ ram_ptr' = Address
  /\ rx' = RegWrite(rA, mem[Address])
  /\ pc' = U16(pc + 1) /\ rom_ptr' = pc
  /\ UNCHANGED mem

(* The target of a branch that is taken is masked like an immediate.       *)
Target == U16(pc + 1 + imm7) % Imm

Beq ==
  /\ opcode = 6
  /\ pc' = IF RegRead(rA) = RegRead(rB) THEN Target ELSE U16(pc + 1)
  /\ rom_ptr' = pc
  /\ UNCHANGED <<mem, rx, ram_ptr>>

(* The new pc is read before the old one is written, which may be to the   *)
(* same register.                                                          *)
Jalr ==
  /\ opcode = 7
  /\ pc' = RegRead(rB) /\ rom_ptr' = pc
  /\ rx' = Result(pc + 1)
  /\ UNCHANGED <<mem, ram_ptr>>

Execute == Add \/ Addi \/ Nand \/ Lui \/ Sw \/ Lw \/ Beq \/ Jalr

-----------------------------------------------------------------------------

(* mem_unit::fill: the loop that reads the program stops before ROM_END.   *)
Loaded(program) ==
  [a \in Words |-> IF a < Len(program) /\ a < RomEnd THEN program[a + 1] ELSE 0]

CpuInit(program) ==
  /\ mem = Loaded(program)
  /\ rx = [r \in Regs |-> 0]
  /\ pc = 0 /\ rom_ptr = 0 /\ ram_ptr = 0

CpuTypeOK ==
  /\ mem \in [Words -> Words]
  /\ rx \in [Regs -> Words]
  /\ pc \in Words /\ rom_ptr \in Words /\ ram_ptr \in Words

=============================================================================
