------------------------------ MODULE MCRisc16 ------------------------------
(***************************************************************************)
(* Model checking Risc16Debugger with two registers and words of seven     *)
(* bits: three of opcode, one for each register, two of immediate.         *)
(***************************************************************************)
EXTENDS Risc16Debugger, FiniteSets, Bitwise

AndBits(a, b) == a & b

(* An instruction with its two registers and its immediate or register. *)
I(op, a, b, c) == op * 16 + a * 8 + b * 4 + c

(* nand r1, r0, r0 makes 127, the address of the last word; sw stores      *)
(* there; addi wraps to 1; sw stores at 3, in the ROM; beq goes back to 2, *)
(* from where the addresses climb until they reach the RAM.                *)
Stores == <<I(2, 1, 0, 0), I(4, 1, 1, 0), I(1, 1, 1, 2), I(4, 1, 1, 2), I(6, 0, 0, 1)>>

(* lui r1; sw r1 just under the last word; lw r0 and lw r1 from there; add *)
(* r0; jalr r1, r1 into the zeros, which are add r0, r0, r0.               *)
Loads == <<I(3, 1, 1, 3), I(4, 1, 1, 3), I(5, 0, 1, 3), I(5, 1, 1, 3), I(0, 0, 1, 1), I(7, 1, 1, 0)>>

TwoPrograms == {Stores, Loads}

(* The last address of the ROM and, cut to seven bits, of the RAM. *)
TypedInts == {7, -1}

(* The states TLC explores further: one word of the RAM written, one       *)
(* breakpoint, a few ticks, no walk across the zeros of the RAM, and not   *)
(* where the error is shown, which nothing reads.                          *)
FewChanges ==
  /\ rom_beginp = 0 /\ ram_beginp = RamStart
  /\ ~err
  /\ Cardinality({a \in RamStart .. RamEnd : mem[a] # 0}) <= 1
  /\ Cardinality(bpoints) <= 1
  /\ ticks <= 7
  /\ pc <= RamStart \/ pc = RamEnd

(* A view that has moved moves on as long as nothing else has. *)
OnlyViews == mode = "keys" /\ ~err /\ bpoints = {} /\ cpu = <<Loaded(Stores), rx, 0, 0, 0>>

FewChangesOrViews == FewChanges \/ OnlyViews

(* In the run about refused lines there is one register and words of three *)
(* bits: an instruction is an opcode.                                      *)
Opcodes == {<<1, 6, 7>>, <<5, 4, 1>>}

TypedOpcodes == {2, 8 + 5}

=============================================================================
