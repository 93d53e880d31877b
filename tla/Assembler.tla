------------------------------ MODULE Assembler ------------------------------
(***************************************************************************)
(* The assembler of the risc16 emulator (risc16/assembler/assembler.c).    *)
(* Two passes over the lines of a source: the first collects the labels,   *)
(* the second writes the words, and each counts addresses for itself.  A   *)
(* step is one line of one pass.                                           *)
(*                                                                         *)
(* A line is what readAndParse makes of it: a label, an opcode and the     *)
(* tokens after it, in which the words of a comment are tokens too; lines  *)
(* it skips are not in a source.  The widths are those of module Risc16.   *)
(***************************************************************************)
EXTENDS Integers, Sequences

CONSTANTS
  NRegs, Imm,   \* how many registers there are, and values of an immediate
  Sources,      \* the sources that may be assembled
  MaxLabels,    \* MAXNUMLABELS
  LongNames     \* the names of MAXLABELLENGTH characters or more

W == 8 * NRegs * NRegs * Imm   \* the values a short has
Low == 8 * NRegs               \* the values lli has room for
Code == Imm \div 8             \* the codes sys and exc have room for

Regs == 0 .. NRegs - 1

NULL == "NULL"
NoName == ""     \* of a line whose first word is a colon

(* A token as isNumber, atoi and strcmp see it; value is the number, or    *)
(* what follows the r of a register, or -1.                                *)
Token == [isNumber : BOOLEAN, value : Int, name : STRING]

Line == [label : STRING, op : STRING, args : Seq(Token)]

ASSUME SourcesAssumption == Sources \subseteq Seq(Line)

ASSUME FieldsAssumption ==
  /\ NRegs \in Nat \ {0} /\ Imm \in Nat
  /\ Low <= Imm /\ Imm % 8 = 0 /\ Code > 1
  /\ MaxLabels \in Nat

VARIABLES
  source,
  status,      \* the pass, "assembled", or how it has failed
  at,          \* the line that is read next
  address,
  labels,      \* Labels and Addresses
  out,         \* the words written to the output file
  starts       \* the address at which the first pass met each line

vars == <<source, status, at, address, labels, out, starts>>

(* The conversions to short, and to what %04hx prints of one.              *)
Short(n) == ((n + W \div 2) % W) - W \div 2

(* A mutation for the runs: a word is printed wider than a short. *)
U16_Wide(n) == n

U16(n) == n % W

line == source[at]

-----------------------------------------------------------------------------
(* Looking up labels *)

First(S) == CHOOSE i \in S : \A j \in S : i <= j

(* The search ends at a label without characters, which is never found.    *)
get_label_address(s) ==
  LET found == {i \in DOMAIN labels : labels[i].name \in {s, NoName}}
  IN  IF found = {} \/ labels[First(found)].name = NoName THEN -1
      ELSE labels[First(found)].address

-----------------------------------------------------------------------------
(* Pass one *)

(* A mutation for the runs: one more comma is missing. *)
Needed_NoComma(op) ==
  CASE op \in {"add", "addi", "nand", "lw", "sw", "beq"} -> 3
    [] op \in {"jalrlui", "llimovi"}                     -> 2
    [] op \in {".fill", ".space", "sys", "exc"}          -> 1
    [] OTHER                                             -> 0

(* The table formats, in which a comma is missing: "jalr" and "lui" are    *)
(* one string there, that no opcode is equal to.                           *)
Needed(op) ==
  CASE op \in {"add", "addi", "nand", "lw", "sw", "beq"} -> 3
    [] op \in {"jalrlui", "lli", "movi"}                 -> 2
    [] op \in {".fill", ".space", "sys", "exc"}          -> 1
    [] OTHER                                             -> 0

(* A mutation for the runs: movi is counted as one word. *)
Size_OneWord(l) == IF l.op = ".space" THEN l.args[1].value ELSE 1

Size(l) ==
  CASE l.op = "movi"   -> 2
    [] l.op = ".space" -> l.args[1].value
    [] OTHER           -> 1

(* A mutation for the runs: a label may be declared twice. *)
Refused_NoDuplicates(l) ==
  \/ Len(l.args) < Needed(l.op)
  \/ l.label # NULL /\ (Len(labels) >= MaxLabels \/ l.label \in LongNames)
  \/ l.op = ".space" /\ ~l.args[1].isNumber

(* Too few arguments, a label that is there already, one too many or too   *)
(* long, or a .space without a number.  A label with an address below zero *)
(* is taken for one that is not there.                                     *)
Refused(l) ==
  \/ Len(l.args) < Needed(l.op)
  \/ l.label # NULL /\ \/ get_label_address(l.label) >= 0
                       \/ Len(labels) >= MaxLabels
                       \/ l.label \in LongNames
  \/ l.op = ".space" /\ ~l.args[1].isNumber

CollectLine ==
  /\ status = "one" /\ at <= Len(source)
  /\ line.op # NULL /\ ~Refused(line)
  /\ labels' = IF line.label = NULL THEN labels
               ELSE Append(labels, [name |-> line.label, address |-> address])
  /\ address' = Short(address + Size(line))
  /\ starts' = Append(starts, address)
  /\ at' = at + 1
  /\ UNCHANGED <<source, status, out>>

RefuseLine ==
  /\ status = "one" /\ at <= Len(source)
  /\ line.op # NULL /\ Refused(line)
  /\ status' = "exit1"
  /\ UNCHANGED <<source, at, address, labels, out, starts>>

(* A line that is only a label: strcmp is given a null pointer. *)
NoOpcode ==
  /\ status = "one" /\ at <= Len(source)
  /\ line.op = NULL
  /\ status' = "crash"
  /\ UNCHANGED <<source, at, address, labels, out, starts>>

Rewind ==
  /\ status = "one" /\ at > Len(source)
  /\ status' = "two"
  /\ at' = 1 /\ address' = 0
  /\ UNCHANGED <<source, labels, out, starts>>

-----------------------------------------------------------------------------
(* Pass two *)

(* How many registers an opcode is followed by, and how many arguments. *)
RegisterArgs(op) ==
  CASE op \in {"add", "nand"}                       -> 3
    [] op \in {"addi", "lw", "sw", "beq", "jalr"}   -> 2
    [] op \in {"lui", "lli", "movi"}                -> 1
    [] OTHER                                        -> 0

Args(op) ==
  CASE op \in {"add", "nand", "addi", "lw", "sw", "beq"} -> 3
    [] op \in {"jalr", "lui", "lli", "movi"}             -> 2
    [] op \in {"sys", "exc", ".fill", ".space"}          -> 1
    [] OTHER                                             -> 0

Opcodes ==
  {"add", "addi", "nand", "lui", "lw", "sw", "jalr", "beq", "nop", "halt",
   "sys", "exc", "lli", "movi", ".fill", ".space"}

(* raw: a number, or the address of a label, or -1 when there is none. *)
raw(t) == Short(IF t.isNumber THEN t.value ELSE get_label_address(t.name))

(* A mutation for the runs: a branch is relative to itself. *)
Offset_ToItself(t) ==
  Short(IF t.isNumber THEN t.value ELSE get_label_address(t.name) - address)

Offset(t) ==
  Short(IF t.isNumber THEN t.value ELSE get_label_address(t.name) - address - 1)

InRange(n) == n >= -(Imm \div 2) /\ n < Imm \div 2

NoRegister(l) ==
  \E k \in 1 .. RegisterArgs(l.op) : k <= Len(l.args) /\ l.args[k].value \notin Regs

TooFar(l) == l.op = "beq" /\ ~InRange(Offset(l.args[3]))

(* How a line may end the program.  The operands are evaluated in an order *)
(* of the compiler's choice, but the offset of a branch before its         *)
(* registers.  An argument that is not there is a null pointer; a register *)
(* that is none is an error that exits with 0.                             *)
Failures(l) ==
  IF TooFar(l) THEN {"exit1"}
  ELSE {e \in {"crash", "exit0", "exit1"} :
          CASE e = "crash" -> Len(l.args) < Args(l.op)
            [] e = "exit0" -> NoRegister(l)
            [] e = "exit1" -> \/ l.op \notin Opcodes
                              \/ l.op \in {"addi", "lw", "sw"} /\ ~InRange(raw(l.args[3]))
                              \/ l.op = ".space" /\ raw(l.args[1]) <= 0}

(* The fields of an instruction, put together. *)
Instruction(op, a, b, low) == op * (W \div 8) + a * (NRegs * Imm) + b * Imm + low

(* The upper bits of n, as lui takes them, and the lower ones, as lli does. *)
Upper(n) == (n \div Low) % (NRegs * Imm)
Lower(n) == n % Low

(* The words of a line. *)
Emitted(l) ==
  LET r(k) == l.args[k].value
  IN  CASE l.op = "add"  -> <<Instruction(0, r(1), r(2), r(3))>>
        [] l.op = "addi" -> <<Instruction(1, r(1), r(2), raw(l.args[3]) % Imm)>>
        [] l.op = "nand" -> <<Instruction(2, r(1), r(2), r(3))>>
        [] l.op = "lui"  -> <<Instruction(3, r(1), 0, Upper(raw(l.args[2])))>>
        [] l.op = "sw"   -> <<Instruction(4, r(1), r(2), raw(l.args[3]) % Imm)>>
        [] l.op = "lw"   -> <<Instruction(5, r(1), r(2), raw(l.args[3]) % Imm)>>
        [] l.op = "beq"  -> <<Instruction(6, r(1), r(2), Offset(l.args[3]) % Imm)>>
        [] l.op = "jalr" -> <<Instruction(7, r(1), r(2), 0)>>
        [] l.op = "nop"  -> <<Instruction(0, 0, 0, 0)>>
        [] l.op = "halt" -> <<Instruction(7, 0, 0, 7 * Code + 1)>>
        [] l.op = "sys"  -> <<Instruction(7, 0, 0, 1 * Code + (raw(l.args[1]) % Code))>>
        [] l.op = "exc"  -> <<Instruction(7, 0, 0, 7 * Code + (raw(l.args[1]) % Code))>>
        [] l.op = "lli"  -> <<Instruction(1, r(1), r(1), Lower(raw(l.args[2])))>>
        [] l.op = "movi" -> <<Instruction(3, r(1), 0, Upper(raw(l.args[2]))),
                              Instruction(1, r(1), r(1), Lower(raw(l.args[2])))>>
        [] l.op = ".fill"  -> <<U16(raw(l.args[1]))>>
        [] l.op = ".space" -> [k \in 1 .. raw(l.args[1]) |-> 0]

EmitLine ==
  /\ status = "two" /\ at <= Len(source)
  /\ Failures(line) = {}
  /\ out' = out \o Emitted(line)
  /\ address' = Short(address + Len(Emitted(line)))
  /\ at' = at + 1
  /\ UNCHANGED <<source, status, labels, starts>>

(* What has been written so far stays in the output file, which exit       *)
(* flushes.                                                                *)
FailLine ==
  /\ status = "two" /\ at <= Len(source)
  /\ status' \in Failures(line)
  /\ UNCHANGED <<source, at, address, labels, out, starts>>

Finish ==
  /\ status = "two" /\ at > Len(source)
  /\ status' = "assembled"
  /\ UNCHANGED <<source, at, address, labels, out, starts>>

-----------------------------------------------------------------------------

Init ==
  /\ source \in Sources
  /\ status = "one" /\ at = 1 /\ address = 0
  /\ labels = <<>> /\ out = <<>> /\ starts = <<>>

Next ==
  \/ CollectLine \/ RefuseLine \/ NoOpcode \/ Rewind
  \/ EmitLine \/ FailLine \/ Finish

Spec == Init /\ [][Next]_vars

-----------------------------------------------------------------------------
(* What the assembler promises *)

(* Type invariant. *)
TypeOK ==
  /\ source \in Seq(Line)
  /\ status \in {"one", "two", "assembled", "exit0", "exit1", "crash"}
  /\ at \in 1 .. Len(source) + 1
  /\ address \in Int
  /\ labels \in Seq([name : STRING, address : Int])
  /\ out \in Seq(0 .. W - 1)
  /\ starts \in Seq(Int)

(* The two passes count alike: the second one reaches a line with the      *)
(* address the first one had there, and writes its first word there; and   *)
(* so a label stands for the place of its line in the output.              *)
PassesAgree ==
  /\ status = "two" =>
       /\ address = Short(Len(out))
       /\ at <= Len(source) => address = starts[at]
  /\ \A k \in DOMAIN labels : \E i \in DOMAIN starts :
       labels[k].name = source[i].label /\ labels[k].address = starts[i]

(* What a label means in the second pass is the line it is on, wherever it *)
(* is used, unless the addresses have gone below zero, or a label without  *)
(* characters hides those after it.                                        *)
LabelsResolve ==
  status \in {"two", "assembled"} =>
    \A i \in DOMAIN source :
      /\ source[i].label # NULL
      /\ \A j \in 1 .. i : source[j].label # NoName /\ starts[j] >= 0
      => get_label_address(source[i].label) = starts[i]

(* Pass one protects pass two: no line that comes there lacks an argument  *)
(* which is then read, except of a jalr or a lui, for the comma that is    *)
(* missing in the table.                                                   *)
ArgumentsChecked ==
  status = "two" => \A i \in DOMAIN source :
    Len(source[i].args) >= Args(source[i].op) \/ source[i].op \in {"jalr", "lui"}

=============================================================================
