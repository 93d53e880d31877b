---------------------------- MODULE Risc16Proofs ----------------------------
(***************************************************************************)
(* The safety properties of module Risc16Debugger, for every number of     *)
(* registers, width of the immediate, division of the memory into ROM and  *)
(* RAM, program, and number that can be typed.                             *)
(***************************************************************************)
EXTENDS Risc16Debugger, TLAPS

-----------------------------------------------------------------------------
(* Words *)

(* There are eight words at least: as many as there are opcodes. *)
LEMMA WordCount == W \in Nat /\ W >= 8
<1>1. NRegs * NRegs \in Nat /\ NRegs * NRegs >= 1
  BY WidthsAssumption
<1> DEFINE squared == NRegs * NRegs
<1>2. squared * Imm \in Nat /\ squared * Imm >= 1
  <2> HIDE DEF squared
  <2>1. squared \in Nat /\ squared >= 1
    BY <1>1 DEF squared
  <2> QED
    BY <2>1, WidthsAssumption
<1>3. W = 8 * (squared * Imm)
  BY <1>1, WidthsAssumption DEF W
<1> QED
  <2> DEFINE fields == squared * Imm
  <2>1. fields \in Nat /\ fields >= 1
    BY <1>2
  <2>2. W = 8 * fields
    BY <1>3
  <2> HIDE DEF fields
  <2> QED
    BY <2>1, <2>2

(* A conversion to uint16_t gives a word. *)
LEMMA Converted == ASSUME NEW n \in Int PROVE U16(n) \in Words
BY WordCount DEF U16, Words

(* A word is a number; stated word by word, as arithmetic needs it. *)
LEMMA WordsAreIntegers == \A w \in Words : w \in Int /\ w >= 0 /\ w < W
BY WordCount DEF Words

(* The bounds of the memory's two halves are addresses. *)
LEMMA Halves ==
  /\ 0 \in Words /\ RomEnd \in Words
  /\ RamStart \in Words /\ RamEnd \in Words
  /\ RamStart = RomEnd + 1 /\ RamStart <= RamEnd
BY WordCount, WidthsAssumption DEF Words, RamStart, RamEnd

-----------------------------------------------------------------------------
(* The processor *)

(* The registers an instruction names are there. *)
LEMMA Fields ==
  ASSUME CpuTypeOK
  PROVE  /\ rA \in Regs /\ rB \in Regs /\ rC \in Regs
         /\ imm7 \in Nat /\ imm10 \in Nat
<1>1. Instr \in Nat
  BY WordCount DEF CpuTypeOK, Instr, Words
<1> DEFINE perOp == NRegs * Imm
<1>2. perOp \in Nat /\ perOp >= 1
  BY WidthsAssumption
<1> HIDE DEF perOp
<1>3. Instr \div perOp \in Nat /\ Instr % perOp \in Nat
  BY <1>1, <1>2
<1>4. Instr \div Imm \in Nat /\ Instr % Imm \in Nat
  BY <1>1, WidthsAssumption
<1> DEFINE a == Instr \div perOp
           b == Instr \div Imm
<1>5. a \in Nat /\ b \in Nat
  BY <1>3, <1>4
<1>6. rA = a % NRegs /\ rB = b % NRegs
  BY DEF rA, rB, perOp
<1> HIDE DEF a, b
<1>7. rA \in Regs /\ rB \in Regs /\ rC \in Regs
  BY <1>1, <1>5, <1>6, WidthsAssumption DEF Regs, rC
<1> QED
  BY <1>3, <1>4, <1>7 DEF imm7, imm10, perOp

(* Reading any register gives a word, register 0 zero. *)
LEMMA ReadIsWord ==
  ASSUME CpuTypeOK, NEW r \in Regs
  PROVE  RegRead(r) \in Words
BY Halves DEF CpuTypeOK, RegRead

(* Writing any register leaves words in all of them, and register 0 alone. *)
LEMMA WriteKeepsWords ==
  ASSUME CpuTypeOK, NEW r \in Regs, NEW n \in Int
  PROVE  /\ RegWrite(r, n) \in [Regs -> Words]
         /\ RegWrite(r, n)[0] = rx[0]
<1>1. U16(n) \in Words
  BY Converted
<1>2. 0 \in Regs
  BY WidthsAssumption DEF Regs
<1>3. rx \in [Regs -> Words]
  BY DEF CpuTypeOK
<1>4. CASE r = 0
  BY <1>3, <1>4 DEF RegWrite
<1>5. CASE r # 0
  <2>1. RegWrite(r, n) = [rx EXCEPT ![r] = U16(n)]
    BY <1>5 DEF RegWrite
  <2> DEFINE word == U16(n)
  <2>2. word \in Words
    BY <1>1
  <2> HIDE DEF word
  <2>3. [rx EXCEPT ![r] = word] \in [Regs -> Words] /\ [rx EXCEPT ![r] = word][0] = rx[0]
    BY <1>2, <1>3, <1>5, <2>2
  <2> QED
    BY <2>1, <2>3 DEF word
<1> QED
  BY <1>4, <1>5

(* What an instruction does to the processor: its types stay, register 0   *)
(* stays, and of the memory nothing changes but the word at ram_ptr, when  *)
(* that is in the RAM and not its last word; then pc moves on.             *)
LEMMA ExecuteStep ==
  ASSUME CpuTypeOK, Execute
  PROVE  /\ CpuTypeOK'
         /\ rx'[0] = rx[0]
         /\ \A a \in Words : mem'[a] # mem[a] =>
              pc' # pc /\ a = ram_ptr' /\ a \in RamStart .. RamEnd - 1
<1>1. /\ rA \in Regs /\ rB \in Regs /\ rC \in Regs
      /\ imm7 \in Nat /\ imm10 \in Nat
  BY Fields
<1>2. /\ RegRead(rA) \in Words /\ RegRead(rB) \in Words /\ RegRead(rC) \in Words
      /\ RegRead(rA) \in Int /\ RegRead(rB) \in Int /\ RegRead(rC) \in Int
  <2>1. RegRead(rA) \in Words /\ RegRead(rB) \in Words /\ RegRead(rC) \in Words
    BY <1>1, ReadIsWord
  <2> QED
    BY <2>1, WordsAreIntegers
<1>3. pc \in Words /\ pc \in Int /\ U16(pc + 1) \in Words
  <2>1. pc \in Words /\ pc \in Int
    BY WordCount DEF CpuTypeOK, Words
  <2>2. pc + 1 \in Int
    BY <2>1
  <2> QED
    BY <2>1, <2>2, Converted
<1>4. ASSUME NEW n \in Int, Computes(n)
      PROVE  CpuTypeOK' /\ rx'[0] = rx[0] /\ mem' = mem
  <2>1. rx' \in [Regs -> Words] /\ rx'[0] = rx[0]
    BY <1>1, <1>4, WriteKeepsWords DEF Computes, Result, CpuTypeOK
  <2>2. /\ pc' = U16(pc + 1) /\ rom_ptr' = pc
        /\ mem' = mem /\ ram_ptr' = ram_ptr
    BY <1>4 DEF Computes
  <2>3. mem \in [Words -> Words] /\ ram_ptr \in Words
    BY DEF CpuTypeOK
  <2>4. mem' \in [Words -> Words]
    BY <2>2, <2>3
  <2> QED
    BY <1>3, <2>1, <2>2, <2>3, <2>4 DEF CpuTypeOK
<1>5. Address \in Words
  BY <1>1, <1>2, Converted DEF Address
<1>6. CASE Add
  <2>1. RegRead(rB) + RegRead(rC) \in Int
    BY <1>2
  <2> QED
    BY <1>4, <1>6, <2>1 DEF Add
<1>7. CASE Addi
  <2>1. RegRead(rB) + imm7 \in Int
    BY <1>1, <1>2
  <2> QED
    BY <1>4, <1>7, <2>1 DEF Addi
<1>8. CASE Nand
  <2>1. -1 - BitAnd(RegRead(rB), RegRead(rC)) \in Int
    BY <1>2, AndAssumption, WordsAreIntegers
  <2> QED
    BY <1>4, <1>8, <2>1 DEF Nand
<1>9. CASE Lui
  <2>1. imm10 * 8 * NRegs \in Int
    BY <1>1, WidthsAssumption
  <2> QED
    BY <1>4, <1>9, <2>1 DEF Lui
<1>10. CASE Sw
  <2>1. /\ mem' \in [Words -> Words]
        /\ \A a \in Words : mem'[a] # mem[a] => a = Address /\ a \in RamStart .. RamEnd - 1
    BY <1>2, <1>5, <1>10 DEF Sw, Stored, MemWrite, CpuTypeOK
  <2>2. U16(pc + 1) # pc
    BY <1>3, WordCount DEF U16, Words
  <2>3. rx'[0] = rx[0] /\ pc' = U16(pc + 1) /\ ram_ptr' = Address
    BY <1>10 DEF Sw
  <2>4. CpuTypeOK'
    BY <1>3, <1>5, <1>10, <2>1 DEF Sw, CpuTypeOK
  <2> QED
    BY <2>1, <2>2, <2>3, <2>4
<1>11. CASE Lw
  <2>1. mem[Address] \in Int
    BY <1>5, WordsAreIntegers DEF CpuTypeOK
  <2>2. rx' \in [Regs -> Words] /\ rx'[0] = rx[0]
    BY <1>1, <1>11, <2>1, WriteKeepsWords DEF Lw
  <2> QED
    BY <1>3, <1>5, <1>11, <2>2 DEF Lw, CpuTypeOK
<1>12. CASE Beq
  <2>1. Target \in Words
    <3>1. pc + 1 + imm7 \in Int
      BY <1>1, <1>3
    <3>2. U16(pc + 1 + imm7) \in Words
      BY <3>1, Converted
    <3> DEFINE t == U16(pc + 1 + imm7)
    <3>3. t \in 0 .. W - 1
      BY <3>2 DEF Words
    <3>4. Target = t % Imm
      BY DEF Target
    <3> HIDE DEF t
    <3>5. t % Imm \in 0 .. t
      BY <3>3, WordCount, WidthsAssumption
    <3> QED
      BY <3>3, <3>4, <3>5, WordCount DEF Words
  <2> QED
    BY <1>3, <1>12, <2>1 DEF Beq, CpuTypeOK
<1>13. CASE Jalr
  <2>1. rx' \in [Regs -> Words] /\ rx'[0] = rx[0]
    <3>1. pc + 1 \in Int
      BY <1>3
    <3> QED
      BY <1>1, <1>13, <3>1, WriteKeepsWords DEF Jalr, Result, CpuTypeOK
  <2> QED
    BY <1>2, <1>3, <1>13, <2>1 DEF Jalr, CpuTypeOK
<1> QED
  BY <1>6, <1>7, <1>8, <1>9, <1>10, <1>11, <1>12, <1>13 DEF Execute

-----------------------------------------------------------------------------
(* The debugger *)

(* The end of a view leaves room for the view in front of it. *)
LEMMA ViewEndInside ==
  ASSUME NEW addr \in Nat, NEW first \in Nat, NEW last \in Nat,
         first + ViewRange <= last
  PROVE  ViewEnd(addr, first, last) \in first + ViewRange .. last
BY ViewAssumption DEF ViewEnd

(* A view that begins at some address or after it, and ends in the memory, *)
(* has its two ends in the memory.                                         *)
LEMMA ViewInWords ==
  ASSUME NEW begin \in Int, NEW end \in Int, NEW first \in Nat, NEW last,
         last \in Nat, last <= RamEnd,
         end = begin + ViewRange, begin >= first, end <= last
  PROVE  {begin, end} \subseteq Words
BY ViewAssumption, WordCount DEF Words, RamEnd

(* What is typed is cut to a word. *)
LEMMA TypedWords == {U16(n) : n \in Typed} \subseteq Words
BY TypedAssumption, Converted

(* The argument a command is carried out with is a word. *)
LEMMA ArgumentsAreWords ==
  ASSUME TypeOK
  PROVE  /\ set_argaddr => arg_addr' \in Words /\ err' \in BOOLEAN
         /\ set_argdata => arg_data' \in Words /\ err' \in BOOLEAN
BY TypedWords DEF TypeOK, set_argaddr, set_argdata

(* A program that is loaded leaves words everywhere. *)
LEMMA LoadedWords ==
  ASSUME NEW p \in Programs
  PROVE  Loaded(p) \in [Words -> Words]
<1>1. p \in Seq(Words)
  BY ProgramsAssumption
<1>2. ASSUME NEW a \in Words, a < Len(p) PROVE p[a + 1] \in Words
  <2>1. a \in Nat
    BY WordsAreIntegers
  <2>2. a + 1 \in 1 .. Len(p)
    BY <1>1, <1>2, <2>1
  <2> QED
    BY <1>1, <2>2
<1> QED
  BY <1>2, Halves DEF Loaded

(* A poke writes one word, wherever it is. *)
LEMMA PokeWrites ==
  ASSUME TypeOK, Poke
  PROVE  /\ arg_addr' \in Words /\ arg_data' \in Words /\ err' \in BOOLEAN
         /\ mem' = [mem EXCEPT ![arg_addr'] = arg_data']
BY TypedWords DEF TypeOK, Poke, MemWrite

(* The inductive invariant.  Its parts lean on each other only in the      *)
(* types: register 0 and the views need words to be read and typed.        *)
IInv == TypeOK /\ ZeroIsZero /\ ViewsInside

(* The steps that execute an instruction. *)
Executing == Dot \/ Tick \/ RunStep

LEMMA InitIInv == Init => IInv
<1> SUFFICES ASSUME Init PROVE IInv
  OBVIOUS
<1>1. PICK p \in Programs : CpuInit(p)
  BY DEF Init
<1>2. CpuTypeOK /\ ZeroIsZero
  BY <1>1, LoadedWords, Halves, WidthsAssumption
  DEF CpuInit, CpuTypeOK, ZeroIsZero, Regs
<1>3. ViewsInside
  BY Halves, ViewAssumption, WidthsAssumption, WordsAreIntegers DEF Init, ViewsInside
<1>4. {rom_beginp, rom_endp, ram_beginp, ram_endp} \subseteq Words
  BY Halves, ViewAssumption, WordCount DEF Init, Words, RamEnd
<1> QED
  BY <1>2, <1>3, <1>4, Halves DEF Init, IInv, TypeOK

(* The processor keeps its types in every step, and register 0 is left     *)
(* alone.                                                                  *)
LEMMA CpuKept ==
  ASSUME IInv, [Next]_vars
  PROVE  CpuTypeOK' /\ ZeroIsZero'
<1> USE DEF IInv, TypeOK
<1>1. CASE Executing
  <2>1. Execute
    BY <1>1 DEF Executing, Dot, Tick, RunStep
  <2> QED
    BY <2>1, ExecuteStep DEF ZeroIsZero
<1>2. CASE ResetRegisters
  BY <1>2, Halves, WidthsAssumption DEF ResetRegisters, CpuTypeOK, ZeroIsZero, Regs
<1>3. CASE Poke
  <2>1. mem' \in [Words -> Words]
    BY <1>3, PokeWrites DEF CpuTypeOK
  <2> QED
    BY <1>3, <2>1 DEF Poke, CpuTypeOK, ZeroIsZero
<1>4. CASE SetPc
  BY <1>4, ArgumentsAreWords DEF SetPc, CpuTypeOK, ZeroIsZero
<1>5. CASE UNCHANGED cpu
  BY <1>5 DEF cpu, CpuTypeOK, ZeroIsZero
<1>6. Executing \/ ResetRegisters \/ Poke \/ SetPc \/ UNCHANGED cpu
  BY DEF Next, Key, Executing, Swallowed, ScrollRom, ScrollRam, Run, NoCommand, Jump,
         AddBreak, DelBreak, ExeNTicks, TicksDone, RunTest, RunEnds, vars
<1> QED
  BY <1>1, <1>2, <1>3, <1>4, <1>5, <1>6

(* The views keep their length and their half of the memory. *)
LEMMA ViewsKept ==
  ASSUME IInv, [Next]_vars
  PROVE  /\ ViewsInside'
         /\ {rom_beginp', rom_endp', ram_beginp', ram_endp'} \subseteq Words
<1>1. /\ rom_beginp \in Int /\ rom_endp \in Int
      /\ ram_beginp \in Int /\ ram_endp \in Int
      /\ ViewRange \in Nat /\ RomEnd \in Nat /\ RamStart \in Nat /\ RamEnd \in Nat
  <2>1. /\ rom_beginp \in Words /\ rom_endp \in Words
        /\ ram_beginp \in Words /\ ram_endp \in Words
    BY DEF IInv, TypeOK
  <2>2. RomEnd \in Nat /\ RamStart \in Nat /\ RamEnd \in Nat
    BY WordCount, WidthsAssumption DEF RamStart, RamEnd
  <2> QED
    BY <2>1, <2>2, WordsAreIntegers, ViewAssumption
<1>2. ViewsInside
  BY DEF IInv
<1>3. ViewsInside'
  <2>1. CASE ScrollRom
    BY <1>1, <1>2, <2>1 DEF ScrollRom, ViewsInside
  <2>2. CASE ScrollRam
    BY <1>1, <1>2, <2>2 DEF ScrollRam, ViewsInside
  <2>3. CASE Jump
    <3>1. arg_addr' \in Nat
      BY <2>3, ArgumentsAreWords, WordsAreIntegers DEF Jump, IInv
    <3>2. CASE arg_addr' <= RomEnd
      <4>1. ViewEnd(arg_addr', 0, RomEnd) \in 0 + ViewRange .. RomEnd
        BY <1>1, <3>1, ViewEndInside, ViewAssumption
      <4> QED
        BY <1>1, <1>2, <2>3, <3>2, <4>1 DEF Jump, ViewsInside
    <3>3. CASE ~(arg_addr' <= RomEnd)
      <4>1. ViewEnd(arg_addr', RamStart, RamEnd) \in RamStart + ViewRange .. RamEnd
        BY <1>1, <3>1, ViewEndInside, ViewAssumption
      <4> QED
        BY <1>1, <1>2, <2>3, <3>3, <4>1 DEF Jump, ViewsInside
    <3> QED
      BY <3>2, <3>3
  <2>4. CASE UNCHANGED view
    BY <1>2, <2>4 DEF view, ViewsInside
  <2>5. ScrollRom \/ ScrollRam \/ Jump \/ UNCHANGED view
    BY DEF Next, Key, Dot, Swallowed, ResetRegisters, Run, NoCommand, Poke, SetPc,
           AddBreak, DelBreak, ExeNTicks, Tick, TicksDone, RunStep, RunTest, RunEnds, vars
  <2> QED
    BY <2>1, <2>2, <2>3, <2>4, <2>5
<1>4. /\ rom_beginp' \in Int /\ rom_endp' \in Int
      /\ ram_beginp' \in Int /\ ram_endp' \in Int
  <2>1. CASE ScrollRom
    BY <1>1, <2>1 DEF ScrollRom
  <2>2. CASE ScrollRam
    BY <1>1, <2>2 DEF ScrollRam
  <2>3. CASE Jump
    <3>1. arg_addr' \in Nat
      BY <2>3, ArgumentsAreWords, WordsAreIntegers DEF Jump, IInv
    <3> QED
      BY <1>1, <2>3, <3>1 DEF Jump, ViewEnd
  <2>4. CASE UNCHANGED view
    BY <1>1, <2>4 DEF view
  <2>5. ScrollRom \/ ScrollRam \/ Jump \/ UNCHANGED view
    BY DEF Next, Key, Dot, Swallowed, ResetRegisters, Run, NoCommand, Poke, SetPc,
           AddBreak, DelBreak, ExeNTicks, Tick, TicksDone, RunStep, RunTest, RunEnds, vars
  <2> QED
    BY <2>1, <2>2, <2>3, <2>4, <2>5
<1>5. /\ rom_endp' = rom_beginp' + ViewRange /\ rom_endp' <= RomEnd
      /\ ram_endp' = ram_beginp' + ViewRange /\ ram_endp' <= RamEnd
      /\ rom_beginp' >= 0 /\ ram_beginp' >= RamStart
  BY <1>3 DEF ViewsInside
<1>6. {rom_beginp', rom_endp'} \subseteq Words
  <2>1. PICK b \in Int, e \in Int : b = rom_beginp' /\ e = rom_endp'
    BY <1>4
  <2>2. e = b + ViewRange /\ e <= RomEnd /\ b >= 0
    BY <1>5, <2>1
  <2>3. {b, e} \subseteq Words
    BY <1>1, <2>2, ViewInWords, WidthsAssumption
  <2> QED
    BY <2>1, <2>3
<1>7. {ram_beginp', ram_endp'} \subseteq Words
  <2>1. PICK b \in Int, e \in Int : b = ram_beginp' /\ e = ram_endp'
    BY <1>4
  <2>2. e = b + ViewRange /\ e <= RamEnd /\ b >= RamStart
    BY <1>5, <2>1
  <2>3. {b, e} \subseteq Words
    BY <1>1, <2>2, ViewInWords
  <2> QED
    BY <2>1, <2>3
<1> QED
  BY <1>3, <1>6, <1>7

LEMMA NextIInv == IInv /\ [Next]_vars => IInv'
<1> SUFFICES ASSUME IInv, [Next]_vars PROVE IInv'
  OBVIOUS
<1>1. CpuTypeOK' /\ ZeroIsZero' /\ ViewsInside'
  BY CpuKept, ViewsKept
<1>2. {rom_beginp', rom_endp', ram_beginp', ram_endp'} \subseteq Words
  BY ViewsKept
<1>3. started' \in BOOLEAN /\ mode' \in {"keys", "ticks", "run", "step"}
  BY DEF IInv, TypeOK, Next, Key, Dot, Swallowed, ScrollRom, ScrollRam, ResetRegisters,
         Run, NoCommand, Jump, Poke, SetPc, AddBreak, DelBreak, ExeNTicks, Tick,
         TicksDone, RunStep, RunTest, RunEnds, vars
<1>4. arg_addr' \in Words /\ arg_data' \in Words /\ err' \in BOOLEAN
  BY ArgumentsAreWords, PokeWrites
  DEF IInv, TypeOK, Next, Key, Dot, Swallowed, ScrollRom, ScrollRam, ResetRegisters,
      Run, NoCommand, Jump, SetPc, AddBreak, DelBreak, ExeNTicks, Tick,
      TicksDone, RunStep, RunTest, RunEnds, vars, args
<1>5. bpoints' \subseteq Words
  BY <1>4
  DEF IInv, TypeOK, Next, Key, Dot, Swallowed, ScrollRom, ScrollRam, ResetRegisters,
      Run, NoCommand, Jump, Poke, SetPc, AddBreak, DelBreak, ExeNTicks, Tick,
      TicksDone, RunStep, RunTest, RunEnds, vars
<1>6. ticks' \in Words
  <2>1. CASE Tick
    <3>1. ticks \in Int /\ ticks > 0 /\ ticks < W
      BY <2>1, WordsAreIntegers DEF IInv, TypeOK, Tick
    <3> QED
      BY <2>1, <3>1, WordCount DEF Tick, Words
  <2>2. CASE ExeNTicks
    BY <1>4, <2>2 DEF ExeNTicks
  <2>3. Tick \/ ExeNTicks \/ ticks' = ticks
    BY DEF Next, Key, Dot, Swallowed, ScrollRom, ScrollRam, ResetRegisters, Run,
           NoCommand, Jump, Poke, SetPc, AddBreak, DelBreak, TicksDone, RunStep,
           RunTest, RunEnds, vars
  <2> QED
    BY <2>1, <2>2, <2>3 DEF IInv, TypeOK
<1> QED
  BY <1>1, <1>2, <1>3, <1>4, <1>5, <1>6 DEF IInv, TypeOK

LEMMA Invariance == Spec => []IInv
  BY InitIInv, NextIInv, PTL DEF Spec

-----------------------------------------------------------------------------
(* The theorems *)

(* The processor holds words, the arguments are words however large or     *)
(* negative the number typed, and so are the breakpoints and the views.    *)
THEOREM TypeCorrect == Spec => []TypeOK
<1>1. IInv => TypeOK
  BY DEF IInv
<1> QED
  BY <1>1, Invariance, PTL

(* Register 0 is zero whatever the program and the debugger do. *)
THEOREM RegisterZeroIsZero == Spec => []ZeroIsZero
<1>1. IInv => ZeroIsZero
  BY DEF IInv
<1> QED
  BY <1>1, Invariance, PTL

(* The views stay in their halves of the memory, with their full length,   *)
(* however they are scrolled and wherever they jump.                       *)
THEOREM ViewsStayInside == Spec => []ViewsInside
<1>1. IInv => ViewsInside
  BY DEF IInv
<1> QED
  BY <1>1, Invariance, PTL

(* No program writes the ROM, the last word of the RAM, or more than one   *)
(* word in a step; the debugger writes the word it is told to.             *)
THEOREM ProgramsKeepToRam == Spec => ProgramsStayInRam
<1> DEFINE Written(a) ==
      \/ pc' # pc /\ a = ram_ptr' /\ a \in RamStart .. RamEnd - 1
      \/ UNCHANGED <<rx, pc, rom_ptr, ram_ptr>> /\ a = arg_addr' /\ mem'[a] = arg_data'
<1>1. ASSUME IInv, [Next]_vars, NEW a \in Words, mem'[a] # mem[a]
      PROVE  Written(a)
  <2>1. CASE Executing
    <3>1. Execute
      BY <2>1 DEF Executing, Dot, Tick, RunStep
    <3> QED
      BY <1>1, <3>1, ExecuteStep DEF IInv, TypeOK
  <2>2. CASE Poke
    <3>1. mem' = [mem EXCEPT ![arg_addr'] = arg_data'] /\ arg_addr' \in Words
      BY <1>1, <2>2, PokeWrites DEF IInv
    <3>2. a = arg_addr' /\ mem'[a] = arg_data'
      BY <1>1, <3>1 DEF IInv, TypeOK, CpuTypeOK
    <3> QED
      BY <2>2, <3>2 DEF Poke
  <2>3. CASE UNCHANGED mem
    BY <1>1, <2>3
  <2>4. Executing \/ Poke \/ UNCHANGED mem
    BY <1>1 DEF Next, Key, Executing, Swallowed, ScrollRom, ScrollRam, ResetRegisters,
                Run, NoCommand, Jump, SetPc, AddBreak, DelBreak, ExeNTicks, TicksDone,
                RunTest, RunEnds, vars, cpu
  <2> QED
    BY <2>1, <2>2, <2>3, <2>4
<1>2. IInv /\ [Next]_vars =>
        [\A a \in Words : mem'[a] # mem[a] => Written(a)]_vars
  BY <1>1
<1> QED
  BY <1>2, Invariance, PTL DEF Spec, ProgramsStayInRam

(* A run that is past its tests stands at no breakpoint: between the tests *)
(* and the instruction nothing moves pc or sets a breakpoint.              *)
StepsOff == mode = "step" => pc \notin bpoints

LEMMA TestedSteps == Spec => []StepsOff
<1>1. Init => StepsOff
  BY DEF Init, StepsOff
<1>2. StepsOff /\ [Next]_vars => StepsOff'
  <2> SUFFICES ASSUME StepsOff, [Next]_vars, mode' = "step" PROVE pc' \notin bpoints'
    BY DEF StepsOff
  <2>1. CASE RunTest
    BY <2>1 DEF RunTest, AtBreak, cpu
  <2>2. CASE UNCHANGED vars
    BY <2>2 DEF StepsOff, vars, cpu
  <2>3. RunTest \/ UNCHANGED vars
    BY DEF Next, Key, Dot, Swallowed, ScrollRom, ScrollRam, ResetRegisters, Run,
           NoCommand, Jump, Poke, SetPc, AddBreak, DelBreak, ExeNTicks, Tick,
           TicksDone, RunStep, RunEnds, AtKeys
  <2> QED
    BY <2>1, <2>2, <2>3
<1> QED
  BY <1>1, <1>2, PTL DEF Spec

(* No run executes an instruction at a breakpoint, wherever it starts and  *)
(* however it jumps.                                                       *)
THEOREM BreakpointsStopRuns == Spec => RunsStopAtBreakpoints
<1>1. StepsOff /\ [Next]_vars =>
        [(mode \in {"run", "step"} /\ pc \in bpoints) => UNCHANGED cpu]_vars
  <2> SUFFICES ASSUME StepsOff, Next, mode \in {"run", "step"}, pc \in bpoints
               PROVE  UNCHANGED cpu
    OBVIOUS
  <2>1. RunTest \/ RunEnds
    BY DEF StepsOff, Next, Key, Dot, Swallowed, ScrollRom, ScrollRam, ResetRegisters, Run,
           NoCommand, Jump, Poke, SetPc, AddBreak, DelBreak, ExeNTicks, Tick, TicksDone,
           RunStep, AtKeys
  <2> QED
    BY <2>1 DEF RunTest, RunEnds
<1> QED
  BY <1>1, TestedSteps, PTL DEF Spec, RunsStopAtBreakpoints

=============================================================================
