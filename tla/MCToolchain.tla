----------------------------- MODULE MCToolchain -----------------------------
(***************************************************************************)
(* Model checking Toolchain with two registers and words of nine bits:     *)
(* three of opcode, one for each register, four of immediate.              *)
(***************************************************************************)
EXTENDS Toolchain, Bitwise

AndBits(a, b) == a & b

-----------------------------------------------------------------------------
(* Tokens and lines *)

num(n)  == [isNumber |-> TRUE, value |-> n, name |-> "number"]
name(s) == [isNumber |-> FALSE, value |-> -1, name |-> s]

r0 == [isNumber |-> FALSE, value |-> 0, name |-> "r0"]
r1 == [isNumber |-> FALSE, value |-> 1, name |-> "r1"]
r5 == [isNumber |-> FALSE, value |-> 5, name |-> "r5"]

l(label, op, args) == [label |-> label, op |-> op, args |-> args]
i(op, args) == l(NULL, op, args)

(* Lines about labels and sizes. *)
Labelled ==
  { l("x", "nop", <<>>), l("x", "movi", <<r1, name("y")>>), l("y", "beq", <<r0, r1, name("x")>>),
    l("x", ".space", <<num(2)>>), l("y", ".space", <<num(255)>>), l(NoName, ".fill", <<name("y")>>),
    i("beq", <<r0, r0, name("y")>>), i("addi", <<r1, r0, name("x")>>), l("x", NULL, <<>>),
    l("longer", "halt", <<>>) }

(* Lines about arguments that are missing, too large or not there. *)
Odd ==
  { i("jalr", <<r5>>), i("lui", <<r1, num(40)>>), i("add", <<r1, r5, r1>>), i("beq", <<r5, r0, num(9)>>),
    i(".space", <<num(0)>>), i(".space", <<num(257)>>), i(".space", <<name("x")>>), i("movi", <<r1>>),
    i("dec", <<r1>>), i("lli", <<r5, num(-1)>>), i("sw", <<r1, r0, num(-9)>>), i("sys", <<num(3)>>),
    i("exc", <<num(-1)>>) }

-----------------------------------------------------------------------------
(* Programs that run *)

(* As in asm/hello.asm: count down, and stay at the end. *)
CountDown ==
  << i("movi", <<r1, num(2)>>),
     l("loop", "beq", <<r1, r0, name("end")>>),
     i("nand", <<r1, r1, r1>>),
     i("addi", <<r1, r1, num(1)>>),
     i("nand", <<r1, r1, r1>>),
     i("beq", <<r0, r0, name("loop")>>),
     l("end", "beq", <<r0, r0, name("end")>> ) >>

(* A subroutine behind data, and a store to the RAM and back.              *)
Call ==
  << i("movi", <<r1, name("sub")>>),
     i("jalr", <<r1, r1>>),
     l("there", ".fill", <<num(-256)>>),
     i(".space", <<num(3)>>),
     l("sub", "add", <<r1, r1, r0>>),
     i("lw", <<r1, r0, name("there")>>),
     i("sw", <<r1, r1, num(7)>>),
     i("lui", <<r1, num(-1)>>),
     i("lli", <<r1, num(7)>>),
     i("nop", <<>>),
     i("sys", <<num(1)>>) >>

(* A register that is none, or an immediate out of range, ends the         *)
(* assembler, and the first half runs.                                     *)
Half == << i("movi", <<r1, num(21)>>), i("add", <<r1, r1, r5>>) >>

NegativeHalf == << i("movi", <<r1, num(-21)>>), i("addi", <<r1, r1, num(9)>>) >>

Programs == {CountDown, Call, Half, NegativeHalf}

SomeSources ==
  LET short == Labelled \cup Odd
  IN  Programs \cup {<<a, b>> : a, b \in short} \cup {<<a, b, c>> : a, b, c \in short}

(* Only the programs are run. *)
FewRuns == loaded => source \in Programs

=============================================================================
