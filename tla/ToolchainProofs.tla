--------------------------- MODULE ToolchainProofs ---------------------------
(***************************************************************************)
(* The safety properties of modules Assembler and Toolchain, for every set *)
(* of sources, number of registers, width of the immediate, bound on the   *)
(* labels and split of the memory: first of the assembler alone, then of   *)
(* what it writes when it is run.                                          *)
(***************************************************************************)
EXTENDS Toolchain, WellFoundedInduction, TLAPS

-----------------------------------------------------------------------------
(* Words and addresses *)

LEMMA WordCount == W \in Nat /\ W >= 1
<1>1. NRegs * NRegs \in Nat /\ NRegs * NRegs >= 1
  BY FieldsAssumption
<1>2. Imm \in Nat /\ Imm >= 1
  BY FieldsAssumption DEF Low
<1> DEFINE squared == NRegs * NRegs
<1>3. W = 8 * (squared * Imm)
  BY <1>1, <1>2, FieldsAssumption DEF W
<1> HIDE DEF squared
<1>4. squared * Imm \in Nat /\ squared * Imm >= 1
  BY <1>1, <1>2 DEF squared
<1> DEFINE fields == squared * Imm
<1>5. fields \in Nat /\ fields >= 1 /\ W = 8 * fields
  BY <1>3, <1>4
<1> HIDE DEF fields
<1> QED
  BY <1>5

(* A remainder does not see what whole words are added. *)
LEMMA Wraps ==
  ASSUME NEW w \in Nat, w >= 1, NEW x \in Int, NEW y \in Int
  PROVE  ((x % w) + y) % w = (x + y) % w
<1> DEFINE q == x \div w
           r == x % w
           p == (r + y) \div w
           s == (r + y) % w
<1>1. q \in Int /\ r \in 0 .. w - 1 /\ x = w * q + r
  OBVIOUS
<1>2. p \in Int /\ s \in 0 .. w - 1 /\ r + y = w * p + s
  BY <1>1
<1>3. x + y = w * (q + p) + s
  <2>1. w * (q + p) = w * q + w * p
    BY <1>1, <1>2
  <2> QED
    BY <1>1, <1>2, <2>1
<1> HIDE DEF q, r, p, s
<1> DEFINE k == q + p
<1>4. k \in Int
  BY <1>1, <1>2
<1> HIDE DEF k
<1>5. x + y = w * k + s
  BY <1>3 DEF k
<1>6. (w * k + s) % w = s
  BY <1>2, <1>4
<1> QED
  BY <1>5, <1>6 DEF s, r

(* The address of a line after another is the same whether the sum before  *)
(* was cut to a short or not.                                              *)
LEMMA ShortOfSum ==
  ASSUME NEW a \in Int, NEW b \in Int
  PROVE  Short(Short(a) + b) = Short(a + b)
<1> DEFINE h == W \div 2
<1>1. h \in Int
  BY WordCount
<1> HIDE DEF h
<1>2. (((a + h) % W) + b) % W = (a + h + b) % W
  <2>1. a + h \in Int
    BY <1>1
  <2> QED
    BY <2>1, Wraps, WordCount, Zenon
<1>3. (a + h) % W \in Int
  BY WordCount, <1>1
<1>4. Short(a) + b + h = ((a + h) % W) + b
  BY <1>1, <1>3 DEF Short, h
<1>5. a + b + h = a + h + b
  BY <1>1
<1> QED
  BY <1>2, <1>4, <1>5 DEF Short, h

LEMMA ShortIsInt == \A n \in Int : Short(n) \in Int
BY WordCount DEF Short

-----------------------------------------------------------------------------
(* The words of a line *)

LEMMA Products ==
  \A a, b \in Int : a * b \in Int /\ (a >= 0 /\ b >= 0 => a * b >= 0) /\ (a >= 1 /\ b >= 1 => a * b >= 1)
OBVIOUS

(* Fields below their bounds stay apart: the largest ones make the largest *)
(* word.  The second register and the immediate are one field here.        *)
LEMMA WideFits ==
  ASSUME NEW op \in 0 .. 7, NEW a \in Regs, NEW low \in 0 .. NRegs * Imm - 1
  PROVE  Instruction(op, a, 0, low) \in 0 .. W - 1
<1> DEFINE field == NRegs * Imm
           row   == NRegs * field
<1>1. NRegs \in Nat /\ NRegs >= 1 /\ Imm \in Nat /\ Imm >= 1
  BY FieldsAssumption DEF Low
<1>2. field \in Nat /\ field >= 1
  BY <1>1, Products
<1>3. low \in 0 .. field - 1
  OBVIOUS
<1>4. a * (NRegs * Imm) = a * field /\ 0 * Imm = 0
  BY <1>1
<1>5. W = 8 * row
  <2>1. NRegs * NRegs * Imm = NRegs * (NRegs * Imm)
    BY <1>1
  <2>2. 8 * NRegs * NRegs * Imm = 8 * (NRegs * NRegs * Imm)
    BY <1>1
  <2> QED
    BY <2>1, <2>2 DEF W
<1> HIDE DEF field
<1>6. row \in Nat /\ row >= 1
  BY <1>1, <1>2, Products
<1>7. a * field + low \in 0 .. row - 1
  <2>1. a \in Int /\ a >= 0 /\ NRegs - 1 - a >= 0 /\ NRegs - 1 - a \in Int
    BY <1>1 DEF Regs
  <2>2. (NRegs - 1 - a) * field >= 0 /\ a * field >= 0 /\ a * field \in Int
    BY <2>1, <1>2, Products
  <2>3. (NRegs - 1 - a) * field = NRegs * field - field - a * field
    BY <2>1, <1>1, <1>2
  <2> QED
    BY <2>2, <2>3, <1>2, <1>3, <1>6
<1> DEFINE rest == a * field + low
<1> HIDE DEF row
<1>8. W \div 8 = row
  BY <1>5, <1>6
<1>9. rest \in 0 .. row - 1
  BY <1>7
<1>10. Instruction(op, a, 0, low) = op * row + rest
  <2>1. a * field \in Int
    BY <1>1, <1>2, Products DEF Regs
  <2> QED
    BY <2>1, <1>3, <1>4, <1>6, <1>8, <1>2 DEF Instruction, field
<1> HIDE DEF rest
<1>11. op * row + rest \in 0 .. 8 * row - 1
  <2>1. op * row \in Int /\ op * row >= 0 /\ (7 - op) * row >= 0
    BY <1>6, Products
  <2>2. (7 - op) * row = 7 * row - op * row
    BY <1>6
  <2> QED
    BY <2>1, <2>2, <1>6, <1>9
<1> QED
  BY <1>10, <1>11, <1>5

LEMMA Fits ==
  ASSUME NEW op \in 0 .. 7, NEW a \in Regs, NEW b \in Regs, NEW low \in 0 .. Imm - 1
  PROVE  Instruction(op, a, b, low) \in 0 .. W - 1
<1>1. NRegs \in Nat /\ NRegs >= 1 /\ Imm \in Nat /\ Imm >= 1
  BY FieldsAssumption DEF Low
<1>2. b \in Int /\ b >= 0 /\ NRegs - 1 - b >= 0 /\ NRegs - 1 - b \in Int
  BY <1>1 DEF Regs
<1>3. b * Imm \in Int /\ b * Imm >= 0 /\ (NRegs - 1 - b) * Imm >= 0
  BY <1>1, <1>2, Products
<1>4. (NRegs - 1 - b) * Imm = NRegs * Imm - Imm - b * Imm
  BY <1>1, <1>2
<1>5. NRegs * Imm \in Int
  BY <1>1
<1>6. b * Imm + low \in 0 .. NRegs * Imm - 1
  BY <1>1, <1>3, <1>4, <1>5
<1>7. Instruction(op, a, 0, b * Imm + low) \in 0 .. W - 1
  BY <1>6, WideFits
<1>8. Instruction(op, a, 0, b * Imm + low) = Instruction(op, a, b, low)
  <2>1. W \div 8 \in Int
    BY WordCount
  <2>2. op * (W \div 8) \in Int /\ a * (NRegs * Imm) \in Int /\ 0 * Imm = 0
    BY <2>1, <1>1, <1>5, Products DEF Regs
  <2> QED
    BY <2>2, <1>3 DEF Instruction
<1> QED
  BY <1>7, <1>8

(* What the fields of a word are cut to. *)
LEMMA FieldsFit ==
  ASSUME NEW n \in Int
  PROVE  /\ Regs \subseteq 0 .. Imm - 1 /\ 0 \in Regs
         /\ n % Imm \in 0 .. Imm - 1
         /\ Upper(n) \in 0 .. NRegs * Imm - 1
         /\ Lower(n) \in 0 .. Imm - 1
         /\ 1 * Code + (n % Code) \in 0 .. Imm - 1
         /\ 7 * Code + (n % Code) \in 0 .. Imm - 1
         /\ 7 * Code + 1 \in 0 .. Imm - 1
         /\ U16(n) \in 0 .. W - 1
<1>1. /\ NRegs \in Nat /\ NRegs >= 1 /\ Imm \in Nat /\ Imm >= 8 * NRegs
      /\ Low \in Nat /\ Low >= 1 /\ Low <= Imm
  BY FieldsAssumption DEF Low
<1>2. Code \in Nat /\ Code >= 2 /\ 8 * Code = Imm
  BY <1>1, FieldsAssumption DEF Code
<1>3. NRegs * Imm \in Nat /\ NRegs * Imm >= 1
  BY <1>1, Products
<1> DEFINE field == NRegs * Imm
<1>5. n \div Low \in Int /\ n % Low \in 0 .. Low - 1
  BY <1>1
<1>6. Upper(n) \in 0 .. NRegs * Imm - 1
  <2> HIDE DEF field
  <2>1. (n \div Low) % field \in 0 .. field - 1
    BY <1>3, <1>5 DEF field
  <2> QED
    BY <2>1 DEF Upper, field
<1>7. Lower(n) \in 0 .. Imm - 1
  BY <1>1, <1>5 DEF Lower
<1>8. n % Code \in 0 .. Code - 1
  BY <1>2
<1>9. n % Imm \in 0 .. Imm - 1 /\ Regs \subseteq 0 .. Imm - 1 /\ 0 \in Regs
  BY <1>1 DEF Regs
<1>10. U16(n) \in 0 .. W - 1
  BY WordCount DEF U16
<1> QED
  BY <1>2, <1>6, <1>7, <1>8, <1>9, <1>10

-----------------------------------------------------------------------------
(* Looking up a label *)

(* A set of places has a first one. *)
LEMMA FirstIsThere ==
  ASSUME NEW S, S \subseteq Nat, S # {}
  PROVE  First(S) \in S /\ \A j \in S : First(S) <= j
<1> DEFINE below == {p \in Nat \X Nat : p[1] < p[2]}
<1>1. IsWellFoundedOn(below, Nat)
  BY NatLessThanWellFounded DEF OpToRel
<1>2. PICK x \in S : \A y \in S : <<y, x>> \notin below
  BY <1>1, WFMin
<1>3. \A y \in S : x <= y
  <2> SUFFICES ASSUME NEW y \in S, ~(x <= y) PROVE FALSE
    OBVIOUS
  <2>1. x \in Nat /\ y \in Nat /\ y < x
    OBVIOUS
  <2>2. <<y, x>> \in below
    BY <2>1
  <2> QED
    BY <1>2, <2>2
<1> QED
  BY <1>2, <1>3 DEF First

Label == [name : STRING, address : Int]

LEMMA LookupIsInt ==
  ASSUME labels \in Seq(Label), NEW s \in STRING
  PROVE  get_label_address(s) \in Int
<1> DEFINE found == {i \in DOMAIN labels : labels[i].name \in {s, NoName}}
<1>1. CASE found = {}
  BY <1>1 DEF get_label_address
<1>2. CASE found # {}
  <2>1. found \subseteq Nat /\ found \subseteq DOMAIN labels
    OBVIOUS
  <2>2. First(found) \in DOMAIN labels
    BY <1>2, <2>1, FirstIsThere
  <2>3. labels[First(found)] \in Label
    BY <2>2
  <2> HIDE DEF found
  <2>4. get_label_address(s) \in {-1, labels[First(found)].address}
    BY DEF get_label_address, found
  <2> QED
    BY <2>3, <2>4 DEF Label
<1> QED
  BY <1>1, <1>2

LEMMA ArgumentsAreInt ==
  ASSUME labels \in Seq(Label), address \in Int, NEW t \in Token
  PROVE  raw(t) \in Int /\ Offset(t) \in Int /\ t.value \in Int
<1>1. t.value \in Int
  BY DEF Token
<1>2. get_label_address(t.name) \in Int
  BY LookupIsInt DEF Token
<1>3. raw(t) \in Int
  <2> DEFINE n == IF t.isNumber THEN t.value ELSE get_label_address(t.name)
  <2>1. n \in Int
    BY <1>1, <1>2
  <2>2. raw(t) = Short(n)
    BY DEF raw
  <2> HIDE DEF n
  <2> QED
    BY <2>1, <2>2, ShortIsInt
<1>4. Offset(t) \in Int
  <2> DEFINE n == IF t.isNumber THEN t.value ELSE get_label_address(t.name) - address - 1
  <2>1. n \in Int
    BY <1>1, <1>2
  <2>2. Offset(t) = Short(n)
    BY DEF Offset
  <2> HIDE DEF n
  <2> QED
    BY <2>1, <2>2, ShortIsInt
<1> QED
  BY <1>1, <1>3, <1>4

(* What pass one has found of a line it has collected. *)
Collected(l) ==
  /\ l.op # NULL
  /\ Len(l.args) >= Needed(l.op)
  /\ l.op = ".space" => l.args[1].isNumber

(* What pass two has found of a line it writes. *)
LEMMA WrittenLines ==
  ASSUME NEW l \in Line, Failures(l) = {}
  PROVE  /\ Len(l.args) >= Args(l.op)
         /\ ~NoRegister(l)
         /\ l.op \in Opcodes
         /\ l.op = ".space" => ~(raw(l.args[1]) <= 0)
<1>1. ~TooFar(l)
  BY DEF Failures
<1>2. \A e \in {"crash", "exit0", "exit1"} :
        ~(CASE e = "crash" -> Len(l.args) < Args(l.op)
            [] e = "exit0" -> NoRegister(l)
            [] e = "exit1" -> \/ l.op \notin Opcodes
                              \/ l.op \in {"addi", "lw", "sw"} /\ ~InRange(raw(l.args[3]))
                              \/ l.op = ".space" /\ raw(l.args[1]) <= 0)
  BY <1>1 DEF Failures
<1>3. ~(Len(l.args) < Args(l.op))
  BY <1>2
<1>4. ~NoRegister(l)
  BY <1>2
<1>5. l.op \in Opcodes /\ ~(l.op = ".space" /\ raw(l.args[1]) <= 0)
  BY <1>2
<1>6. Len(l.args) \in Nat /\ Args(l.op) \in Nat
  BY DEF Line, Args
<1> QED
  BY <1>3, <1>4, <1>5, <1>6

LEMMA AppendIsSeq == ASSUME NEW S, NEW s \in Seq(S), NEW e \in S PROVE Append(s, e) \in Seq(S)
OBVIOUS

LEMMA OneWord == ASSUME NEW S, NEW n \in S PROVE <<n>> \in Seq(S) /\ Len(<<n>>) = 1
OBVIOUS

LEMMA TwoWords == ASSUME NEW S, NEW m \in S, NEW n \in S PROVE <<m, n>> \in Seq(S) /\ Len(<<m, n>>) = 2
OBVIOUS

(* A line that is written becomes words, and as many as pass one counted,  *)
(* up to whole turns around the addresses.                                 *)
LEMMA Written ==
  ASSUME labels \in Seq(Label), address \in Int, NEW l \in Line,
         Failures(l) = {}, Collected(l)
  PROVE  /\ Emitted(l) \in Seq(0 .. W - 1)
         /\ Len(Emitted(l)) = IF l.op = ".space" THEN Short(Size(l)) ELSE Size(l)
         /\ Size(l) \in Int
<1> DEFINE r(k) == l.args[k].value
<1>1. /\ Len(l.args) >= Args(l.op) /\ ~NoRegister(l) /\ l.op \in Opcodes
      /\ l.op = ".space" => ~(raw(l.args[1]) <= 0)
  BY WrittenLines
<1>2. \A k \in 1 .. Args(l.op) :
        l.args[k] \in Token /\ raw(l.args[k]) \in Int /\ Offset(l.args[k]) \in Int
  <2> SUFFICES ASSUME NEW k \in 1 .. Args(l.op)
               PROVE  l.args[k] \in Token /\ raw(l.args[k]) \in Int /\ Offset(l.args[k]) \in Int
    OBVIOUS
  <2>1. l.args \in Seq(Token) /\ Args(l.op) \in Int
    BY DEF Line, Args
  <2>2. l.args[k] \in Token
    BY <1>1, <2>1
  <2> QED
    BY <2>2, ArgumentsAreInt
<1>3. \A k \in 1 .. RegisterArgs(l.op) : r(k) \in Regs
  <2> SUFFICES ASSUME NEW k \in 1 .. RegisterArgs(l.op) PROVE r(k) \in Regs
    OBVIOUS
  <2>1. k <= Len(l.args)
    BY <1>1 DEF Line, Args, RegisterArgs
  <2> QED
    BY <1>1, <2>1 DEF NoRegister
<1>4. 0 \in Regs /\ Regs \subseteq 0 .. Imm - 1
  BY FieldsFit
<1> HIDE DEF r
<1> DEFINE word == 0 .. W - 1
           Fine == /\ Emitted(l) \in Seq(word)
                   /\ Len(Emitted(l)) = IF l.op = ".space" THEN Short(Size(l)) ELSE Size(l)
                   /\ Size(l) \in Int
<1> SUFFICES Fine
  OBVIOUS
<1>a. ASSUME NEW n \in word, Emitted(l) = <<n>>, l.op \notin {"movi", ".space"}
      PROVE  Fine
  <2>1. Size(l) = 1
    BY <1>a DEF Size
  <2>2. Emitted(l) \in Seq(word) /\ Len(Emitted(l)) = 1
    BY <1>a, OneWord
  <2> QED
    BY <1>a, <2>1, <2>2
<1> HIDE DEF Fine, word
<1>b. word = 0 .. W - 1
  BY DEF word
<1>5. CASE l.op \in {"add", "nand"}
  <2>1. r(1) \in Regs /\ r(2) \in Regs /\ r(3) \in 0 .. Imm - 1
    BY <1>3, <1>4, <1>5 DEF RegisterArgs
  <2>2. \A op \in 0 .. 7 : Instruction(op, r(1), r(2), r(3)) \in 0 .. W - 1
    BY <2>1, Fits
  <2>3. Emitted(l) \in {<<Instruction(0, r(1), r(2), r(3))>>, <<Instruction(2, r(1), r(2), r(3))>>}
    BY <1>5 DEF Emitted, r
  <2> QED
    BY <1>5, <1>a, <1>b, <2>2, <2>3
<1>6. CASE l.op \in {"addi", "sw", "lw"}
  <2>1. r(1) \in Regs /\ r(2) \in Regs
    BY <1>3, <1>6 DEF RegisterArgs
  <2>2. raw(l.args[3]) \in Int
    BY <1>2, <1>6 DEF Args
  <2>3. \A op \in 0 .. 7 : Instruction(op, r(1), r(2), raw(l.args[3]) % Imm) \in 0 .. W - 1
    BY <2>1, <2>2, Fits, FieldsFit
  <2>4. Emitted(l) \in {<<Instruction(op, r(1), r(2), raw(l.args[3]) % Imm)>> : op \in {1, 4, 5}}
    <3>1. CASE l.op = "addi"
      BY <3>1 DEF Emitted, r
    <3>2. CASE l.op = "sw"
      BY <3>2 DEF Emitted, r
    <3>3. CASE l.op = "lw"
      BY <3>3 DEF Emitted, r
    <3> QED
      BY <1>6, <3>1, <3>2, <3>3
  <2>5. PICK op \in {1, 4, 5} : Emitted(l) = <<Instruction(op, r(1), r(2), raw(l.args[3]) % Imm)>>
    BY <2>4
  <2>6. Instruction(op, r(1), r(2), raw(l.args[3]) % Imm) \in word
    <3>1. op \in 0 .. 7
      OBVIOUS
    <3> QED
      BY <1>b, <2>3, <3>1, Zenon
  <2> QED
    BY <1>6, <1>a, <2>5, <2>6
<1>7. CASE l.op = "beq"
  <2>1. r(1) \in Regs /\ r(2) \in Regs
    BY <1>3, <1>7 DEF RegisterArgs
  <2>2. Offset(l.args[3]) \in Int
    BY <1>2, <1>7 DEF Args
  <2>3. Instruction(6, r(1), r(2), Offset(l.args[3]) % Imm) \in 0 .. W - 1
    <3>1. Offset(l.args[3]) % Imm \in 0 .. Imm - 1
      BY <2>2, FieldsFit
    <3> QED
      BY <2>1, <3>1, Fits
  <2>4. Emitted(l) = <<Instruction(6, r(1), r(2), Offset(l.args[3]) % Imm)>>
    BY <1>7 DEF Emitted, r
  <2> QED
    BY <1>7, <1>a, <1>b, <2>3, <2>4
<1>8. CASE l.op \in {"jalr", "nop", "halt"}
  <2>1. 7 * Code + 1 \in 0 .. Imm - 1 /\ 0 \in 0 .. Imm - 1
    BY <1>4, FieldsFit
  <2>2. l.op = "jalr" => r(1) \in Regs /\ r(2) \in Regs
    BY <1>3 DEF RegisterArgs
  <2>3. l.op = "jalr" => Instruction(7, r(1), r(2), 0) \in 0 .. W - 1
    BY <2>1, <2>2, Fits
  <2>4. Instruction(0, 0, 0, 0) \in 0 .. W - 1 /\ Instruction(7, 0, 0, 7 * Code + 1) \in 0 .. W - 1
    BY <1>4, <2>1, Fits
  <2>5. Emitted(l) = IF l.op = "jalr" THEN <<Instruction(7, r(1), r(2), 0)>>
                     ELSE IF l.op = "nop" THEN <<Instruction(0, 0, 0, 0)>>
                     ELSE <<Instruction(7, 0, 0, 7 * Code + 1)>>
    BY <1>8 DEF Emitted, r
  <2> QED
    BY <1>8, <1>a, <1>b, <2>3, <2>4, <2>5
<1>9. CASE l.op \in {"sys", "exc"}
  <2>1. raw(l.args[1]) \in Int
    BY <1>2, <1>9 DEF Args
  <2>2. /\ Instruction(7, 0, 0, 1 * Code + (raw(l.args[1]) % Code)) \in 0 .. W - 1
        /\ Instruction(7, 0, 0, 7 * Code + (raw(l.args[1]) % Code)) \in 0 .. W - 1
    <3>1. /\ 1 * Code + (raw(l.args[1]) % Code) \in 0 .. Imm - 1
          /\ 7 * Code + (raw(l.args[1]) % Code) \in 0 .. Imm - 1
      BY <2>1, FieldsFit
    <3> QED
      BY <1>4, <3>1, Fits
  <2>3. Emitted(l) \in {<<Instruction(7, 0, 0, 1 * Code + (raw(l.args[1]) % Code))>>,
                        <<Instruction(7, 0, 0, 7 * Code + (raw(l.args[1]) % Code))>>}
    BY <1>9 DEF Emitted
  <2> QED
    BY <1>9, <1>a, <1>b, <2>2, <2>3
<1>10. CASE l.op \in {"lui", "lli", "movi"}
  <2>1. r(1) \in Regs /\ raw(l.args[2]) \in Int
    BY <1>2, <1>3, <1>10 DEF Args, RegisterArgs
  <2>2. Instruction(3, r(1), 0, Upper(raw(l.args[2]))) \in 0 .. W - 1
    <3>1. Upper(raw(l.args[2])) \in 0 .. NRegs * Imm - 1
      BY <2>1, FieldsFit
    <3> QED
      BY <2>1, <3>1, WideFits
  <2>3. Instruction(1, r(1), r(1), Lower(raw(l.args[2]))) \in 0 .. W - 1
    <3>1. Lower(raw(l.args[2])) \in 0 .. Imm - 1
      BY <2>1, FieldsFit
    <3> QED
      BY <2>1, <3>1, Fits
  <2> DEFINE high == Instruction(3, r(1), 0, Upper(raw(l.args[2])))
             rest == Instruction(1, r(1), r(1), Lower(raw(l.args[2])))
  <2>4. Emitted(l) = IF l.op = "lui" THEN <<high>> ELSE IF l.op = "lli" THEN <<rest>> ELSE <<high, rest>>
    BY <1>10 DEF Emitted, r
  <2> HIDE DEF high, rest
  <2> QED
    <3>1. high \in word /\ rest \in word
      BY <1>b, <2>2, <2>3 DEF high, rest
    <3>2. CASE l.op \in {"lui", "lli"}
      BY <1>a, <2>4, <3>1, <3>2
    <3>3. CASE l.op = "movi"
      <4>1. Size(l) = 2
        BY <3>3 DEF Size
      <4>2. <<high, rest>> \in Seq(word) /\ Len(<<high, rest>>) = 2
        BY <3>1, TwoWords
      <4> QED
        BY <2>4, <3>3, <4>1, <4>2 DEF Fine
    <3> QED
      BY <1>10, <3>2, <3>3
<1>11. CASE l.op = ".fill"
  <2>1. raw(l.args[1]) \in Int
    BY <1>2, <1>11 DEF Args
  <2>2. U16(raw(l.args[1])) \in 0 .. W - 1
    BY <2>1, FieldsFit
  <2>3. Emitted(l) = <<U16(raw(l.args[1]))>>
    BY <1>11 DEF Emitted
  <2> QED
    BY <1>11, <1>a, <1>b, <2>2, <2>3
<1>12. CASE l.op = ".space"
  <2>1. raw(l.args[1]) \in Int /\ raw(l.args[1]) > 0 /\ l.args[1] \in Token
    BY <1>1, <1>2, <1>12 DEF Args
  <2>2. Emitted(l) = [k \in 1 .. raw(l.args[1]) |-> 0]
    BY <1>12 DEF Emitted
  <2>3. raw(l.args[1]) = Short(l.args[1].value)
    BY <1>12 DEF raw, Collected
  <2>4. Size(l) = l.args[1].value /\ l.args[1].value \in Int
    BY <1>12, <2>1 DEF Size, Token
  <2>5. 0 \in 0 .. W - 1
    BY WordCount
  <2> DEFINE count == raw(l.args[1])
  <2>6. count \in Nat /\ Emitted(l) = [k \in 1 .. count |-> 0]
    BY <2>1, <2>2
  <2> HIDE DEF count
  <2>7. Emitted(l) \in Seq(0 .. W - 1) /\ Len(Emitted(l)) = count
    BY <2>5, <2>6
  <2> QED
    BY <1>12, <2>3, <2>4, <2>7, <1>b DEF count, Fine
<1> QED
  BY <1>1, <1>5, <1>6, <1>7, <1>8, <1>9, <1>10, <1>11, <1>12 DEF Opcodes

-----------------------------------------------------------------------------
(* The two passes *)

(* The address of a line, when the lines before it are counted as pass one *)
(* counts them.                                                            *)
Start(i) == IF i = 1 THEN 0 ELSE Short(starts[i - 1] + Size(source[i - 1]))

(* Pass one has recorded the lines it has collected, and pass two counts   *)
(* its lines and its words to the same addresses.                          *)
CountsInv ==
  /\ Len(starts) <= Len(source)
  /\ \A i \in DOMAIN starts : starts[i] = Start(i) /\ Collected(source[i])
  /\ status = "one" => Len(starts) = at - 1 /\ address = Start(at)
  /\ status = "two" => address = Start(at) /\ address = Short(Len(out))
  /\ status \in {"two", "assembled", "exit0"} => Len(starts) = Len(source)
  /\ status = "one" => out = <<>>
  /\ at - 1 <= Len(starts)

LabelsInv ==
  \A k \in DOMAIN labels : \E i \in DOMAIN starts :
    labels[k].name = source[i].label /\ labels[k].address = starts[i]

IInv == TypeOK /\ CountsInv /\ LabelsInv

LEMMA Lines ==
  ASSUME TypeOK, NEW i \in 1 .. Len(source)
  PROVE  source[i] \in Line
BY DEF TypeOK

LEMMA SizeIsInt ==
  ASSUME NEW l \in Line, Collected(l)
  PROVE  Size(l) \in Int
<1>1. CASE l.op = ".space"
  <2>1. l.args \in Seq(Token) /\ Len(l.args) >= 1
    BY <1>1 DEF Collected, Needed, Line
  <2>2. l.args[1] \in Token
    BY <2>1
  <2> QED
    BY <1>1, <2>2 DEF Size, Token
<1>2. CASE l.op # ".space"
  BY <1>2 DEF Size
<1> QED
  BY <1>1, <1>2

(* Nothing has been read: no label, no word, and nothing to agree about.   *)
THEOREM InitIsSound == Init => IInv
<1> SUFFICES ASSUME Init PROVE IInv
  OBVIOUS
<1>1. source \in Seq(Line)
  BY SourcesAssumption DEF Init
<1>2. TypeOK
  BY <1>1 DEF Init, TypeOK
<1>3. CountsInv
  <2>1. Short(0) = 0
    <3>1. W \div 2 \in Nat /\ W \div 2 < W
      BY WordCount
    <3> QED
      BY <3>1, WordCount DEF Short
  <2> QED
    BY <1>1, <2>1 DEF Init, CountsInv, Start
<1>4. LabelsInv
  BY DEF Init, LabelsInv
<1> QED
  BY <1>2, <1>3, <1>4 DEF IInv

LEMMA CollectLineIsSound == IInv /\ CollectLine => IInv'
<1> SUFFICES ASSUME IInv, CollectLine PROVE IInv'
  OBVIOUS
<1> USE DEF IInv
<1>1. /\ status = "one" /\ at \in Nat /\ at >= 1 /\ at <= Len(source) /\ at' = at + 1
      /\ line = source[at] /\ Len(source) \in Nat
      /\ starts' = Append(starts, address) /\ starts \in Seq(Int) /\ address \in Int
      /\ source' = source /\ status' = status /\ out' = out
      /\ address' = Short(address + Size(line))
  BY DEF CollectLine, TypeOK, line
<1>2. line \in Line
  BY <1>1, Lines
<1>3. Collected(line)
  <2>1. line.op # NULL /\ ~(Len(line.args) < Needed(line.op))
        /\ ~(line.op = ".space" /\ ~line.args[1].isNumber)
    BY DEF CollectLine, Refused
  <2>2. Len(line.args) \in Nat /\ Needed(line.op) \in Nat
    BY <1>2 DEF Line, Needed
  <2> QED
    BY <2>1, <2>2 DEF Collected
<1>4. address' \in Int
  <2>1. Size(line) \in Int
    BY <1>2, <1>3, SizeIsInt
  <2> QED
    BY <1>1, <2>1, ShortIsInt
<1>5. TypeOK'
  <2>1. labels' \in Seq([name : STRING, address : Int])
    <3>1. line.label \in STRING
      BY <1>2 DEF Line
    <3>2. [name |-> line.label, address |-> address] \in [name : STRING, address : Int]
      BY <1>1, <3>1
    <3>3. labels \in Seq([name : STRING, address : Int])
      BY DEF TypeOK
    <3>4. labels' \in {labels, Append(labels, [name |-> line.label, address |-> address])}
      BY DEF CollectLine
    <3> QED
      BY <3>2, <3>3, <3>4, AppendIsSeq, Zenon
  <2> QED
    BY <1>1, <1>4, <2>1 DEF TypeOK
<1>6. CountsInv'
  <2>1. Len(starts') = at /\ starts'[at] = address /\ DOMAIN starts' = 1 .. at
        /\ \A i \in 1 .. at - 1 : i \in DOMAIN starts /\ starts'[i] = starts[i]
    BY <1>1 DEF CountsInv
  <2>2. address = Start(at)
    BY <1>1 DEF CountsInv
  <2>3. \A i \in 1 .. at : Start(i)' = Start(i)
    BY <1>1, <2>1 DEF Start
  <2>4. address' = Start(at)'
    <3>1. at' # 1 /\ at' - 1 = at
      BY <1>1
    <3>2. Start(at)' = Short(starts'[at] + Size(source[at]))
      BY <1>1, <3>1 DEF Start
    <3> QED
      BY <1>1, <2>1, <3>2
  <2>5. ASSUME NEW i \in DOMAIN starts' PROVE starts'[i] = Start(i)' /\ Collected(source'[i])
    <3>1. CASE i = at
      BY <1>1, <1>3, <2>1, <2>2, <2>3, <3>1
    <3>2. CASE i # at
      <4>1. i \in 1 .. at - 1
        BY <1>1, <2>1, <3>2
      <4>2. starts[i] = Start(i) /\ Collected(source[i])
        BY <2>1, <4>1 DEF CountsInv
      <4> QED
        BY <1>1, <2>1, <2>3, <4>1, <4>2
    <3> QED
      BY <3>1, <3>2
  <2>6. \A i \in DOMAIN starts' : starts'[i] = Start(i)' /\ Collected(source[i])'
    BY <2>5 DEF Collected
  <2> QED
    BY <1>1, <2>1, <2>4, <2>6 DEF CountsInv
<1>7. LabelsInv'
  <2>1. Len(starts') = at /\ starts'[at] = address /\ DOMAIN starts' = 1 .. at
        /\ \A i \in DOMAIN starts : i \in 1 .. at /\ starts'[i] = starts[i]
    BY <1>1 DEF CountsInv
  <2>2. labels \in Seq([name : STRING, address : Int])
    BY DEF TypeOK
  <2>3. SUFFICES ASSUME NEW k \in DOMAIN labels'
                 PROVE  \E i \in DOMAIN starts' :
                          labels'[k].name = source'[i].label /\ labels'[k].address = starts'[i]
    BY DEF LabelsInv
  <2>4. CASE k \in DOMAIN labels
    <3>1. labels'[k] = labels[k]
      BY <2>2, <2>4 DEF CollectLine
    <3>2. PICK i \in DOMAIN starts :
            labels[k].name = source[i].label /\ labels[k].address = starts[i]
      BY <2>4 DEF LabelsInv
    <3>3. i \in DOMAIN starts' /\ starts'[i] = starts[i] /\ source' = source
      BY <1>1, <2>1
    <3> QED
      BY <3>1, <3>2, <3>3
  <2>5. CASE k \notin DOMAIN labels
    <3>1. line.label # NULL /\ labels'[k] = [name |-> line.label, address |-> address]
      BY <2>2, <2>3, <2>5 DEF CollectLine
    <3>2. labels'[k].name = source'[at].label /\ labels'[k].address = starts'[at]
      BY <1>1, <2>1, <3>1
    <3> QED
      BY <1>1, <2>1, <3>2
  <2> QED
    BY <2>4, <2>5
<1> QED
  BY <1>5, <1>6, <1>7

LEMMA EmitLineIsSound == IInv /\ EmitLine => IInv'
<1> SUFFICES ASSUME IInv, EmitLine PROVE IInv'
  OBVIOUS
<1> USE DEF IInv
<1>1. /\ status = "two" /\ at \in Nat /\ at >= 1 /\ at <= Len(source) /\ at' = at + 1
      /\ line = source[at] /\ Len(source) \in Nat /\ Len(starts) = Len(source)
      /\ address \in Int /\ starts \in Seq(Int)
      /\ UNCHANGED <<source, status, labels, starts>>
      /\ address' = Short(address + Len(Emitted(line)))
      /\ out' = out \o Emitted(line)
  BY DEF EmitLine, TypeOK, CountsInv, line
<1>2. line \in Line
  BY <1>1, Lines
<1>3. starts[at] = Start(at) /\ Collected(line)
  <2>1. at \in DOMAIN starts
    BY <1>1
  <2> QED
    BY <1>1, <2>1 DEF CountsInv
<1>4. /\ Emitted(line) \in Seq(0 .. W - 1) /\ Size(line) \in Int
      /\ Len(Emitted(line)) = IF line.op = ".space" THEN Short(Size(line)) ELSE Size(line)
  <2>1. labels \in Seq(Label)
    BY DEF TypeOK, Label
  <2>2. Failures(line) = {}
    BY DEF EmitLine
  <2> QED
    BY <1>1, <1>2, <1>3, <2>1, <2>2, Written
<1> DEFINE n == Len(Emitted(line))
<1>5. n \in Nat
  BY <1>4
<1>6. address = Start(at) /\ address = Short(Len(out)) /\ out \in Seq(0 .. W - 1) /\ Len(out) \in Nat
  BY <1>1 DEF CountsInv, TypeOK
<1>7. address' = Short(starts[at] + Size(line))
  <2> HIDE DEF n
  <2>1. address' = Short(address + n)
    BY <1>1 DEF n
  <2>2. CASE line.op = ".space"
    <3>1. n = Short(Size(line))
      BY <1>4, <2>2 DEF n
    <3>2. Short(Short(Size(line)) + address) = Short(Size(line) + address)
      BY <1>1, <1>4, ShortOfSum
    <3>3. Short(Size(line)) + address = address + n /\ Size(line) + address = address + Size(line)
      BY <1>1, <1>4, <1>5, <3>1
    <3> QED
      BY <1>3, <1>6, <2>1, <3>2, <3>3
  <2>3. CASE line.op # ".space"
    BY <1>3, <1>4, <1>6, <2>1, <2>3 DEF n
  <2> QED
    BY <2>2, <2>3
<1>8. address' = Short(Len(out'))
  <2>1. Len(out') = Len(out) + n
    <3>1. \A s, t \in Seq(0 .. W - 1) : Len(s \o t) = Len(s) + Len(t)
      OBVIOUS
    <3> QED
      BY <1>1, <1>4, <1>6, <3>1
  <2>2. Short(Short(Len(out)) + n) = Short(Len(out) + n)
    BY <1>5, <1>6, ShortOfSum
  <2> QED
    BY <1>1, <1>6, <2>1, <2>2
<1>9. TypeOK'
  <2>1. address' \in Int
    BY <1>1, <1>5, ShortIsInt
  <2>2. out' \in Seq(0 .. W - 1)
    BY <1>1, <1>4, <1>6
  <2> QED
    BY <1>1, <2>1, <2>2 DEF TypeOK
<1>10. CountsInv'
  <2>1. \A i \in 1 .. Len(starts) : Start(i)' = Start(i)
    BY <1>1 DEF Start
  <2>2. Start(at)' = Short(starts[at] + Size(line))
    <3>1. at' # 1 /\ at' - 1 = at
      BY <1>1
    <3> QED
      BY <1>1, <3>1 DEF Start
  <2>3. \A i \in DOMAIN starts' : starts'[i] = Start(i)' /\ Collected(source[i])'
    BY <1>1, <2>1 DEF CountsInv, Collected
  <2> QED
    BY <1>1, <1>7, <1>8, <2>2, <2>3 DEF CountsInv
<1>11. LabelsInv'
  BY <1>1 DEF LabelsInv
<1> QED
  BY <1>9, <1>10, <1>11

LEMMA OthersAreSound ==
  IInv /\ (RefuseLine \/ NoOpcode \/ Rewind \/ FailLine \/ Finish \/ UNCHANGED vars) => IInv'
<1> SUFFICES ASSUME IInv, RefuseLine \/ NoOpcode \/ Rewind \/ FailLine \/ Finish \/ UNCHANGED vars
             PROVE  IInv'
  OBVIOUS
<1> USE DEF IInv
<1>1. UNCHANGED <<source, labels, out, starts>>
  BY DEF RefuseLine, NoOpcode, Rewind, FailLine, Finish, vars
<1>2. LabelsInv'
  BY <1>1 DEF LabelsInv
<1>3. Short(0) = 0
  <2>1. W \div 2 \in Nat /\ W \div 2 < W
    BY WordCount
  <2> QED
    BY <2>1, WordCount DEF Short
<1>4. \A i : Start(i)' = Start(i)
  BY <1>1 DEF Start
<1>5. \A i \in DOMAIN starts' : starts'[i] = Start(i)' /\ Collected(source[i])'
  BY <1>1, <1>4 DEF CountsInv, Collected
<1>6. CASE RefuseLine \/ NoOpcode
  BY <1>1, <1>2, <1>5, <1>6 DEF RefuseLine, NoOpcode, TypeOK, CountsInv
<1>7. CASE Rewind
  <2>1. Start(1)' = 0
    BY DEF Start
  <2>2. Len(starts) = Len(source) /\ out = <<>>
    BY <1>7 DEF Rewind, TypeOK, CountsInv
  <2>3. TypeOK'
    BY <1>1, <1>7 DEF Rewind, TypeOK
  <2>4. CountsInv'
    BY <1>1, <1>3, <1>5, <1>7, <2>1, <2>2 DEF Rewind, CountsInv
  <2> QED
    BY <1>2, <2>3, <2>4
<1>8. CASE FailLine
  <2>1. status' \in {"crash", "exit0", "exit1"}
    BY <1>8 DEF FailLine, Failures
  <2> QED
    BY <1>1, <1>2, <1>5, <1>8, <2>1 DEF FailLine, TypeOK, CountsInv
<1>9. CASE Finish
  BY <1>1, <1>2, <1>5, <1>9 DEF Finish, TypeOK, CountsInv
<1>10. CASE UNCHANGED vars
  BY <1>1, <1>2, <1>4, <1>5, <1>10 DEF vars, TypeOK, CountsInv
<1> QED
  BY <1>6, <1>7, <1>8, <1>9, <1>10

(* Every line of either pass keeps the inductive invariant, and so does     *)
(* every way in which a line ends the program.                             *)
THEOREM Invariance == Spec => []IInv
<1>1. IInv /\ [Next]_vars => IInv'
  BY CollectLineIsSound, EmitLineIsSound, OthersAreSound DEF Next
<1> QED
  BY <1>1, InitIsSound, PTL DEF Spec

-----------------------------------------------------------------------------
(* What a label resolves to *)

Found(ls, s) == {i \in DOMAIN ls : ls[i].name \in {s, NoName}}

(* get_label_address, of any table of labels. *)
Lookup(ls, s) ==
  IF Found(ls, s) = {} \/ ls[First(Found(ls, s))].name = NoName THEN -1
  ELSE ls[First(Found(ls, s))].address

(* A label that is found is found again when there are more. *)
LEMMA StillFound ==
  ASSUME NEW ls \in Seq(Label), NEW e \in Label, NEW s \in STRING, Lookup(ls, s) >= 0
  PROVE  Lookup(Append(ls, e), s) = Lookup(ls, s)
<1> DEFINE f  == Found(ls, s)
           ff == Found(Append(ls, e), s)
<1>1. /\ f \subseteq DOMAIN ls /\ f \subseteq Nat /\ ff \subseteq Nat
      /\ DOMAIN ls = 1 .. Len(ls) /\ DOMAIN Append(ls, e) = 1 .. Len(ls) + 1
      /\ Append(ls, e) \in Seq(Label) /\ Len(ls) \in Nat
      /\ \A i \in DOMAIN ls : Append(ls, e)[i] = ls[i]
  BY DEF Found
<1>2. f # {} /\ ls[First(f)].name # NoName
  BY DEF Lookup
<1>3. First(f) \in f /\ \A j \in f : First(f) <= j
  BY <1>1, <1>2, FirstIsThere
<1>4. f \subseteq ff /\ ff \subseteq f \cup {Len(ls) + 1}
  BY <1>1 DEF Found
<1>5. First(f) \in DOMAIN ls /\ First(f) \in Nat /\ First(f) <= Len(ls)
  <2> HIDE DEF f
  <2>1. First(f) \in 1 .. Len(ls)
    BY <1>1, <1>3
  <2> QED
    BY <1>1, <2>1
<1>6. ff # {} /\ First(ff) \in ff /\ \A j \in ff : First(ff) <= j
  <2>1. ff # {}
    BY <1>3, <1>4
  <2> QED
    BY <1>1, <2>1, FirstIsThere
<1>7. First(ff) = First(f)
  <2> HIDE DEF f, ff
  <2>1. First(ff) \in Nat /\ First(ff) <= First(f)
    BY <1>1, <1>3, <1>4, <1>6
  <2>2. First(ff) \in f
    BY <1>4, <1>5, <1>6, <2>1
  <2> QED
    BY <1>3, <1>5, <2>1, <2>2
<1>8. Append(ls, e)[First(ff)] = ls[First(f)]
  BY <1>1, <1>5, <1>7
<1> QED
  BY <1>2, <1>6, <1>8 DEF Lookup

(* A label that is nowhere is found where it is put. *)
LEMMA NowFound ==
  ASSUME NEW ls \in Seq(Label), NEW e \in Label, Found(ls, e.name) = {}, e.name # NoName
  PROVE  Lookup(Append(ls, e), e.name) = e.address
<1> DEFINE n == Len(ls) + 1
           ff == Found(Append(ls, e), e.name)
<1>1. /\ DOMAIN Append(ls, e) = 1 .. n /\ Append(ls, e)[n] = e /\ n \in Nat
      /\ \A i \in 1 .. n : i # n => i \in DOMAIN ls /\ Append(ls, e)[i] = ls[i]
  OBVIOUS
<1>2. ff = {n}
  BY <1>1 DEF Found
<1>3. First(ff) = n
  <2>1. First({n}) \in {n}
    BY <1>1, FirstIsThere
  <2> QED
    BY <1>2, <2>1
<1> QED
  BY <1>1, <1>2, <1>3 DEF Lookup

(* The line i has a label, and those up to it are names at addresses.      *)
Plain(i) ==
  /\ source[i].label # NULL
  /\ \A j \in 1 .. i : source[j].label # NoName /\ starts[j] >= 0

ResolveInv ==
  \A i \in DOMAIN starts : Plain(i) => Lookup(labels, source[i].label) = starts[i]

LEMMA CollectLineResolves == IInv /\ ResolveInv /\ CollectLine => ResolveInv'
<1> SUFFICES ASSUME IInv, ResolveInv, CollectLine, NEW i \in DOMAIN starts', Plain(i)'
             PROVE  Lookup(labels', source'[i].label) = starts'[i]
  BY DEF ResolveInv
<1>1. /\ at \in Nat /\ at >= 1 /\ at <= Len(source) /\ Len(source) \in Nat /\ Len(starts) = at - 1
      /\ starts \in Seq(Int) /\ address \in Int /\ starts' = Append(starts, address)
      /\ source' = source /\ line = source[at] /\ labels \in Seq(Label)
  BY DEF CollectLine, IInv, TypeOK, CountsInv, line, Label
<1>2. /\ DOMAIN starts' = 1 .. at /\ starts'[at] = address /\ DOMAIN starts = 1 .. at - 1
      /\ \A j \in 1 .. at - 1 : starts'[j] = starts[j]
  BY <1>1
<1>3. i \in 1 .. at /\ i \in 1 .. Len(source)
  BY <1>1, <1>2
<1>4. source[i] \in Line /\ source[i].label \in STRING
  BY <1>3, Lines DEF IInv, Line
<1>5. /\ source[i].label # NULL
      /\ \A j \in 1 .. i : source[j].label # NoName /\ starts'[j] >= 0
  BY <1>1 DEF Plain
<1> DEFINE e == [name |-> line.label, address |-> address]
<1>6. labels' = IF line.label = NULL THEN labels ELSE Append(labels, e)
  BY DEF CollectLine
<1>7. line.label \in STRING /\ e \in Label
  <2>1. line \in Line
    BY <1>1, Lines DEF IInv
  <2> QED
    BY <1>1, <2>1 DEF Line, Label
<1>8. CASE i # at
  <2>1. i \in DOMAIN starts /\ \A j \in 1 .. i : j \in 1 .. at - 1
    BY <1>1, <1>2, <1>3, <1>8
  <2>2. Plain(i)
    BY <1>2, <1>5, <2>1 DEF Plain
  <2>3. Lookup(labels, source[i].label) = starts[i] /\ starts[i] >= 0
    BY <1>2, <1>3, <2>1, <2>2 DEF ResolveInv, Plain
  <2>4. Lookup(Append(labels, e), source[i].label) = Lookup(labels, source[i].label)
    BY <1>1, <1>4, <1>7, <2>3, StillFound
  <2> QED
    BY <1>1, <1>2, <1>6, <2>1, <2>3, <2>4
<1>9. CASE i = at
  <2>1. labels' = Append(labels, e) /\ e.name = source[at].label /\ e.name # NoName
    BY <1>1, <1>3, <1>5, <1>6, <1>9
  <2>2. ~(Lookup(labels, e.name) >= 0)
    <3>1. ~(get_label_address(line.label) >= 0)
      BY <1>1, <1>5, <1>9 DEF CollectLine, Refused
    <3> QED
      BY <3>1 DEF get_label_address, Lookup, Found
  <2>3. \A k \in DOMAIN labels : labels[k].name # NoName /\ labels[k].address >= 0
    <3> SUFFICES ASSUME NEW k \in DOMAIN labels
                 PROVE  labels[k].name # NoName /\ labels[k].address >= 0
      OBVIOUS
    <3>1. PICK j \in DOMAIN starts : labels[k].name = source[j].label /\ labels[k].address = starts[j]
      BY DEF IInv, LabelsInv
    <3>2. j \in 1 .. i /\ starts'[j] = starts[j]
      BY <1>1, <1>2, <1>9, <3>1
    <3> QED
      BY <1>5, <3>1, <3>2
  <2>4. Found(labels, e.name) = {}
    <3> SUFFICES ASSUME Found(labels, e.name) # {} PROVE FALSE
      OBVIOUS
    <3> DEFINE k == First(Found(labels, e.name))
    <3>1. Found(labels, e.name) \subseteq Nat /\ Found(labels, e.name) \subseteq DOMAIN labels
      BY <1>1 DEF Found
    <3>2. k \in DOMAIN labels
      BY <3>1, FirstIsThere
    <3>3. Lookup(labels, e.name) = labels[k].address
      BY <2>3, <3>2 DEF Lookup
    <3> QED
      BY <2>2, <2>3, <3>2, <3>3
  <2>5. Lookup(Append(labels, e), e.name) = e.address
    BY <1>1, <1>7, <2>1, <2>4, NowFound
  <2> QED
    BY <1>1, <1>2, <1>9, <2>1, <2>5
<1> QED
  BY <1>8, <1>9

-----------------------------------------------------------------------------
(* The theorems *)

(* The state has its types, for every source: what is written are words,   *)
(* whatever the numbers in the source.                                     *)
THEOREM TypeCorrect == Spec => []TypeOK
BY Invariance, PTL DEF IInv

(* The two passes count alike, and a label stands for the place of its     *)
(* line in the output.                                                     *)
THEOREM PassesAlwaysAgree == Spec => []PassesAgree
<1>1. IInv => PassesAgree
  <2> SUFFICES ASSUME IInv PROVE PassesAgree
    OBVIOUS
  <2>1. \A k \in DOMAIN labels : \E i \in DOMAIN starts :
          labels[k].name = source[i].label /\ labels[k].address = starts[i]
    BY DEF IInv, LabelsInv
  <2>2. ASSUME status = "two", at <= Len(source) PROVE address = starts[at]
    <3>1. at \in DOMAIN starts
      BY <2>2 DEF IInv, TypeOK, CountsInv
    <3> QED
      BY <2>2, <3>1 DEF IInv, CountsInv
  <2>3. status = "two" => address = Short(Len(out))
    BY DEF IInv, CountsInv
  <2> QED
    BY <2>1, <2>2, <2>3 DEF PassesAgree
<1> QED
  BY <1>1, Invariance, PTL

(* Every argument that the second pass reads is there, except of a jalr or *)
(* a lui.                                                                  *)
THEOREM ArgumentsAlwaysChecked == Spec => []ArgumentsChecked
<1>1. IInv => ArgumentsChecked
  <2> SUFFICES ASSUME IInv, status = "two", NEW i \in DOMAIN source
               PROVE  Len(source[i].args) >= Args(source[i].op) \/ source[i].op \in {"jalr", "lui"}
    BY DEF ArgumentsChecked
  <2>1. i \in DOMAIN starts /\ i \in 1 .. Len(source)
    BY DEF IInv, TypeOK, CountsInv
  <2>2. Collected(source[i])
    BY <2>1 DEF IInv, CountsInv
  <2>3. Len(source[i].args) \in Nat
    BY <2>1, Lines DEF IInv, Line
  <2> QED
    BY <2>2, <2>3 DEF Collected, Needed, Args
<1> QED
  BY <1>1, Invariance, PTL

(* A label means the line it is on, in every line of the second pass.      *)
THEOREM LabelsAlwaysResolve == Spec => []LabelsResolve
<1>1. Init => ResolveInv
  BY DEF Init, ResolveInv
<1>2. IInv /\ ResolveInv /\ [Next]_vars => ResolveInv'
  <2>1. UNCHANGED <<source, labels, starts>> /\ ResolveInv => ResolveInv'
    BY DEF ResolveInv, Plain
  <2>2. CASE CollectLine
    BY <2>2, CollectLineResolves
  <2> QED
    BY <2>1, <2>2 DEF Next, RefuseLine, NoOpcode, Rewind, EmitLine, FailLine, Finish, vars
<1>3. IInv /\ ResolveInv => LabelsResolve
  <2> SUFFICES ASSUME IInv, ResolveInv, status \in {"two", "assembled"}, NEW i \in DOMAIN source,
                      source[i].label # NULL,
                      \A j \in 1 .. i : source[j].label # NoName /\ starts[j] >= 0
               PROVE  get_label_address(source[i].label) = starts[i]
    BY DEF LabelsResolve
  <2>1. i \in DOMAIN starts
    BY DEF IInv, TypeOK, CountsInv
  <2>2. Lookup(labels, source[i].label) = starts[i]
    BY <2>1 DEF ResolveInv, Plain
  <2> QED
    BY <2>2 DEF Lookup, Found, get_label_address
<1> QED
  BY <1>1, <1>2, <1>3, Invariance, PTL DEF Spec

-----------------------------------------------------------------------------
(* The tool chain *)

(* The first word of a line at the address here, of the opcodes of which   *)
(* MeansWhatItSays tells something, and the second one of a movi.          *)
OffsetFrom(t, here) ==
  Short(IF t.isNumber THEN t.value ELSE get_label_address(t.name) - here - 1)

FirstWord(l, here) ==
  LET r(k) == l.args[k].value
  IN  CASE l.op = "nop"  -> Instruction(0, 0, 0, 0)
        [] l.op = "add"  -> Instruction(0, r(1), r(2), r(3))
        [] l.op = "addi" -> Instruction(1, r(1), r(2), raw(l.args[3]) % Imm)
        [] l.op = "nand" -> Instruction(2, r(1), r(2), r(3))
        [] l.op \in {"lui", "movi"} -> Instruction(3, r(1), 0, Upper(raw(l.args[2])))
        [] l.op = "sw"   -> Instruction(4, r(1), r(2), raw(l.args[3]) % Imm)
        [] l.op = "lw"   -> Instruction(5, r(1), r(2), raw(l.args[3]) % Imm)
        [] l.op = "beq"  -> Instruction(6, r(1), r(2), OffsetFrom(l.args[3], here) % Imm)
        [] l.op = "jalr" -> Instruction(7, r(1), r(2), 0)
        [] l.op = "lli"  -> Instruction(1, r(1), r(1), Lower(raw(l.args[2])))

SecondWord(l) ==
  Instruction(1, l.args[1].value, l.args[1].value, Lower(raw(l.args[2])))

Told ==
  {"nop", "add", "addi", "nand", "lui", "movi", "sw", "lw", "beq", "jalr", "lli"}

(* What pass two has found of a line it has written. *)
Checked(l) ==
  /\ Len(l.args) >= Args(l.op)
  /\ \A k \in 1 .. RegisterArgs(l.op) : l.args[k].value \in Regs
  /\ l.op \in {"addi", "lw", "sw"} => InRange(raw(l.args[3]))

WrittenAt(l, here) ==
  \E p \in Nat :
    /\ Short(p) = here
    /\ p < Len(out) /\ out[p + 1] = FirstWord(l, here)
    /\ l.op = "movi" => p + 1 < Len(out) /\ out[p + 2] = SecondWord(l)

(* The lines before at have been written, each where it starts. *)
OutInv ==
  /\ status = "assembled" => at = Len(source) + 1
  /\ status = "two" \/ out # <<>> =>
       \A i \in 1 .. at - 1 :
         source[i].op \in Told => Checked(source[i]) /\ WrittenAt(source[i], starts[i])

(* The ROM keeps what was loaded. *)
MemInv ==
  /\ Cpu!CpuTypeOK
  /\ loaded =>
       /\ status \in {"assembled", "exit0", "exit1"}
       /\ \A a \in 0 .. W - 1 : a < RomEnd => mem[a] = Cpu!Loaded(out)[a]

ToolInv == IInv /\ OutInv /\ MemInv

-----------------------------------------------------------------------------
(* Taking words apart *)

LEMMA Divides ==
  ASSUME NEW m \in Nat, m >= 1, NEW q \in Int, NEW r \in 0 .. m - 1
  PROVE  (m * q + r) \div m = q /\ (m * q + r) % m = r
<1>1. (m * q + r) % m = r
  OBVIOUS
<1>2. (m * q + r) \div m = q
  OBVIOUS
<1> QED
  BY <1>1, <1>2

LEMMA Division ==
  ASSUME NEW m \in Nat, m >= 1, NEW x \in Int
  PROVE  x \div m \in Int /\ x % m \in 0 .. m - 1 /\ x % m \in Int /\ x = m * (x \div m) + (x % m)
OBVIOUS

(* A remainder is the same after another one that it divides.              *)
LEMMA Nested ==
  ASSUME NEW d \in Nat, d >= 1, NEW k \in Nat, k >= 1, NEW x \in Int
  PROVE  (x % (d * k)) % d = x % d
<1> DEFINE m == d * k
           q == x \div m
           r == x % m
           p == r \div d
           s == r % d
<1>1. m \in Nat /\ m >= 1
  BY Products
<1>2. q \in Int /\ r \in Int /\ x = m * q + r
  <2> HIDE DEF m
  <2> QED
    BY <1>1
<1>3. p \in Int /\ s \in 0 .. d - 1 /\ r = d * p + s
  <2>1. r \in Int
    BY <1>2
  <2> HIDE DEF r, m, q
  <2> QED
    BY <2>1
<1>4. m * q = d * (k * q)
  <2> HIDE DEF q
  <2> QED
    BY <1>2
<1>5. k * q \in Int
  BY <1>2
<1> HIDE DEF m, q, r, p, s
<1> DEFINE t == k * q
<1>6. t \in Int /\ m * q = d * t
  BY <1>4, <1>5
<1> HIDE DEF t
<1>7. x = d * (t + p) + s
  <2>1. d * (t + p) = d * t + d * p
    BY <1>3, <1>6
  <2>2. d * t \in Int /\ d * p \in Int
    BY <1>3, <1>6, Products
  <2> QED
    BY <1>2, <1>3, <1>6, <2>1, <2>2
<1>8. x % d = s
  BY <1>3, <1>6, <1>7, Divides
<1> QED
  BY <1>8 DEF s, r, m

(* How wide the fields are. *)
LEMMA Widths ==
  /\ NRegs \in Nat /\ NRegs >= 1 /\ Imm \in Nat /\ Imm >= 1
  /\ NRegs * Imm \in Nat /\ NRegs * Imm >= 1
  /\ NRegs * (NRegs * Imm) \in Nat /\ NRegs * (NRegs * Imm) >= 1
  /\ W = 8 * (NRegs * (NRegs * Imm)) /\ W \div 8 = NRegs * (NRegs * Imm)
<1>1. NRegs \in Nat /\ NRegs >= 1 /\ Imm \in Nat /\ Imm >= 1
  BY FieldsAssumption DEF Low
<1>2. NRegs * Imm \in Nat /\ NRegs * Imm >= 1
  BY <1>1, Products
<1>3. NRegs * (NRegs * Imm) \in Nat /\ NRegs * (NRegs * Imm) >= 1
  BY <1>1, <1>2, Products
<1>4. W = 8 * (NRegs * (NRegs * Imm))
  <2>1. NRegs * NRegs * Imm = NRegs * (NRegs * Imm)
    BY <1>1
  <2>2. 8 * NRegs * NRegs * Imm = 8 * (NRegs * NRegs * Imm)
    BY <1>1
  <2> QED
    BY <2>1, <2>2 DEF W
<1> DEFINE row == NRegs * (NRegs * Imm)
<1>5. row \in Nat /\ W = 8 * row
  BY <1>3, <1>4
<1> HIDE DEF row
<1>6. W \div 8 = row
  BY <1>5
<1> QED
  BY <1>1, <1>2, <1>3, <1>4, <1>6 DEF row

(* A word with an immediate of ten bits. *)
LEMMA WideFields ==
  ASSUME NEW op \in 0 .. 7, NEW a \in Regs, NEW low \in 0 .. NRegs * Imm - 1,
         NEW word, word = Instruction(op, a, 0, low)
  PROVE  /\ word \div (W \div 8) = op
         /\ (word \div (NRegs * Imm)) % NRegs = a
         /\ word % (NRegs * Imm) = low
<1> DEFINE field == NRegs * Imm
           row == NRegs * field
<1>1. /\ NRegs \in Nat /\ NRegs >= 1 /\ field \in Nat /\ field >= 1 /\ row \in Nat /\ row >= 1
      /\ W \div 8 = row /\ 0 * Imm = 0
  BY Widths
<1>2. word = op * row + a * field + 0 + low
  BY <1>1 DEF Instruction
<1>3. a \in Int /\ a >= 0 /\ NRegs - 1 - a \in Int /\ NRegs - 1 - a >= 0 /\ low \in 0 .. field - 1
  BY <1>1 DEF Regs
<1> HIDE DEF field
<1>4. op * row = field * (op * NRegs) /\ op * NRegs \in Int
  <2>1. op * (NRegs * field) = (op * NRegs) * field
    BY <1>1
  <2>2. op * NRegs \in Int
    BY <1>1
  <2> DEFINE t == op * NRegs
  <2>3. t * field = field * t
    <3> HIDE DEF t
    <3>1. \A u, v \in Int : u * v = v * u
      OBVIOUS
    <3> QED
      BY <1>1, <2>2, <3>1 DEF t
  <2> QED
    BY <2>1, <2>2, <2>3
<1> DEFINE high == op * NRegs + a
<1>5. high \in Int /\ high \div NRegs = op /\ high % NRegs = a
  <2>1. a \in 0 .. NRegs - 1
    BY DEF Regs
  <2>2. high = NRegs * op + a
    BY <1>1, <1>3
  <2> QED
    BY <1>1, <1>3, <2>1, <2>2, Divides
<1>6. word = field * high + low
  <2>1. field * high = field * (op * NRegs) + field * a /\ field * a = a * field
    <3> DEFINE t == op * NRegs
    <3>1. t \in Int
      BY <1>4
    <3> HIDE DEF t
    <3>2. field * (t + a) = field * t + field * a /\ field * a = a * field
      BY <1>1, <1>3, <3>1
    <3> QED
      BY <3>2 DEF t
  <2>2. op * row \in Int /\ a * field \in Int
    BY <1>1, <1>3, Products
  <2> QED
    BY <1>1, <1>2, <1>3, <1>4, <2>1, <2>2
<1>7. word \div field = high /\ word % field = low
  <2> HIDE DEF high, row
  <2>1. (field * high + low) \div field = high /\ (field * high + low) % field = low
    BY <1>1, <1>3, <1>5, Divides
  <2> QED
    BY <1>6, <2>1
<1>8. word \div row = op
  <2> DEFINE rest == a * field + low
  <2>1. rest \in 0 .. row - 1
    <3>1. (NRegs - 1 - a) * field >= 0 /\ a * field >= 0 /\ a * field \in Int
      BY <1>1, <1>3, Products
    <3>2. (NRegs - 1 - a) * field = NRegs * field - field - a * field
      BY <1>1, <1>3
    <3> QED
      BY <1>1, <1>3, <3>1, <3>2
  <2>2. word = row * op + rest
    <3>1. a * field \in Int /\ op * row \in Int
      BY <1>1, <1>3, Products
    <3>2. op * row = row * op
      <4> HIDE DEF row
      <4> QED
        BY <1>1
    <3> QED
      BY <1>2, <1>3, <3>1, <3>2
  <2> HIDE DEF rest, row
  <2>3. op \in Int /\ row \in Nat /\ row >= 1
    BY <1>1
  <2>4. (row * op + rest) \div row = op
    BY <2>1, <2>3, Divides
  <2> QED
    BY <2>2, <2>4
<1> QED
  BY <1>1, <1>5, <1>7, <1>8 DEF field

(* A word with two registers and an immediate of seven bits.               *)
LEMMA Fields ==
  ASSUME NEW op \in 0 .. 7, NEW a \in Regs, NEW b \in Regs, NEW low \in 0 .. Imm - 1,
         NEW word, word = Instruction(op, a, b, low)
  PROVE  /\ word \div (W \div 8) = op
         /\ (word \div (NRegs * Imm)) % NRegs = a
         /\ (word \div Imm) % NRegs = b
         /\ word % Imm = low
         /\ low \in Regs => word % NRegs = low
<1> DEFINE field == NRegs * Imm
           wide == b * Imm + low
<1>1. /\ NRegs \in Nat /\ NRegs >= 1 /\ Imm \in Nat /\ Imm >= 1 /\ field \in Nat /\ W \div 8 \in Int
      /\ a \in Int /\ b \in Int /\ b >= 0 /\ b <= NRegs - 1 /\ 0 * Imm = 0
  BY Widths DEF Regs
<1>2. b * Imm \in Int /\ wide \in Int
  BY <1>1, Products
<1>3. wide \in 0 .. field - 1
  <2>1. b * Imm >= 0 /\ (NRegs - 1 - b) * Imm >= 0
    BY <1>1, Products
  <2>2. (NRegs - 1 - b) * Imm = NRegs * Imm - Imm - b * Imm
    BY <1>1
  <2> QED
    BY <1>1, <1>2, <2>1, <2>2
<1>4. word = Instruction(op, a, 0, wide)
  <2>1. op * (W \div 8) \in Int /\ a * (NRegs * Imm) \in Int
    BY <1>1, Products
  <2> QED
    BY <1>1, <1>2, <2>1 DEF Instruction
<1>5. /\ word \div (W \div 8) = op /\ (word \div field) % NRegs = a /\ word % field = wide
      /\ word \in Int
  <2>1. Instruction(op, a, 0, wide) \in Int
    BY <1>3, WideFits, WordCount
  <2> HIDE DEF wide
  <2> QED
    BY <1>3, <1>4, <2>1, WideFields
<1>6. word % Imm = low
  <2>1. (word % (Imm * NRegs)) % Imm = word % Imm
    BY <1>1, <1>5, Nested
  <2>2. Imm * NRegs = field /\ wide = Imm * b + low
    BY <1>1
  <2>3. wide % Imm = low
    BY <1>1, <2>2, Divides
  <2> QED
    BY <1>5, <2>1, <2>2, <2>3
<1>7. (word \div Imm) % NRegs = b
  <2> DEFINE high == word \div field
             row == NRegs * high + b
  <2>1. high \in Int /\ word = field * high + wide
    <3> HIDE DEF wide
    <3>1. field >= 1
      BY Widths
    <3> HIDE DEF field
    <3> QED
      BY <1>1, <1>5, <3>1
  <2> HIDE DEF high
  <2>2. word = Imm * row + low
    <3>1. field * high = Imm * (NRegs * high)
      BY <1>1, <2>1
    <3>2. NRegs * high \in Int
      BY <1>1, <2>1
    <3> DEFINE t == NRegs * high
    <3> HIDE DEF t
    <3>3. Imm * (t + b) = Imm * t + Imm * b /\ Imm * b = b * Imm /\ Imm * t \in Int
      BY <1>1, <3>2 DEF t
    <3> QED
      BY <1>1, <1>2, <2>1, <3>1, <3>2, <3>3 DEF t
  <2>3. row \in Int /\ row % NRegs = b
    <3>1. row \in Int
      BY <1>1, <2>1
    <3>2. b \in 0 .. NRegs - 1
      BY DEF Regs
    <3> QED
      BY <1>1, <2>1, <3>1, <3>2, Divides
  <2> HIDE DEF row
  <2>4. word \div Imm = row
    BY <1>1, <2>2, <2>3, Divides
  <2> QED
    BY <2>3, <2>4
<1>8. ASSUME low \in Regs PROVE word % NRegs = low
  <2> DEFINE k == Imm \div NRegs
  <2>1. k \in Nat /\ Imm = NRegs * k /\ k >= 1
    BY <1>1, LayoutAssumption
  <2> HIDE DEF k, field, wide
  <2>2. (word % (NRegs * k)) % NRegs = word % NRegs
    BY <1>1, <1>5, <2>1, Nested
  <2>3. low % NRegs = low
    BY <1>1, <1>8 DEF Regs
  <2> QED
    BY <1>6, <2>1, <2>2, <2>3
<1> QED
  BY <1>5, <1>6, <1>7, <1>8
-----------------------------------------------------------------------------
(* Pass two writes what FirstWord and SecondWord say *)

LEMMA NothingYet == ToolInit => ToolInv
<1> SUFFICES ASSUME ToolInit PROVE ToolInv
  OBVIOUS
<1>1. IInv
  BY InitIsSound DEF ToolInit
<1>2. OutInv
  BY DEF ToolInit, Init, OutInv
<1>3. Cpu!CpuTypeOK /\ ~loaded
  <2>1. mem \in [Cpu!Words -> Cpu!Words]
    BY Widths DEF ToolInit, Cpu!CpuInit, Cpu!Loaded, Cpu!Words, Cpu!W, W
  <2> QED
    BY <2>1, Widths DEF ToolInit, Cpu!CpuInit, Cpu!CpuTypeOK, Cpu!Words, Cpu!W, W, Cpu!Regs
<1> QED
  BY <1>1, <1>2, <1>3 DEF ToolInv, MemInv

(* Of a line that is written the arguments are right. *)
LEMMA WrittenIsChecked ==
  ASSUME NEW l \in Line, Failures(l) = {}
  PROVE  Checked(l)
<1>1. Len(l.args) >= Args(l.op) /\ ~NoRegister(l)
  BY WrittenLines
<1>2. ~TooFar(l)
  BY DEF Failures
<1>3. l.op \in {"addi", "lw", "sw"} => InRange(raw(l.args[3]))
  BY <1>2 DEF Failures
<1>4. \A k \in 1 .. RegisterArgs(l.op) : k <= Len(l.args)
  <2>1. Len(l.args) \in Nat /\ RegisterArgs(l.op) <= Args(l.op) /\ Args(l.op) \in Nat
        /\ RegisterArgs(l.op) \in Nat
    BY DEF Line, RegisterArgs, Args
  <2> QED
    BY <1>1, <2>1
<1> QED
  BY <1>1, <1>3, <1>4 DEF Checked, NoRegister

LEMMA OffsetIsFromHere == \A t : Offset(t) = OffsetFrom(t, address)
BY DEF Offset, OffsetFrom

LEMMA FirstIsFirst ==
  ASSUME NEW l, l.op \in Told
  PROVE  Emitted(l) = IF l.op = "movi" THEN <<FirstWord(l, address), SecondWord(l)>>
                      ELSE <<FirstWord(l, address)>>
BY OffsetIsFromHere DEF Emitted, FirstWord, SecondWord, Told

LEMMA EmitLineWrites == IInv /\ OutInv /\ EmitLine => OutInv'
<1> SUFFICES ASSUME IInv, OutInv, EmitLine PROVE OutInv'
  OBVIOUS
<1>1. /\ status = "two" /\ status' = status /\ at \in Nat /\ at >= 1 /\ at <= Len(source)
      /\ Len(source) \in Nat /\ at' = at + 1 /\ line = source[at]
      /\ source' = source /\ starts' = starts /\ labels' = labels
      /\ out' = out \o Emitted(line) /\ out \in Seq(0 .. W - 1)
      /\ Failures(line) = {} /\ labels \in Seq(Label) /\ address \in Int
  BY DEF EmitLine, IInv, TypeOK, line, Label
<1>2. line \in Line
  BY <1>1, Lines DEF IInv
<1>3. starts[at] = address /\ address = Short(Len(out)) /\ Collected(line)
  <2>1. at \in DOMAIN starts
    BY <1>1 DEF IInv, CountsInv, TypeOK
  <2> QED
    BY <1>1, <2>1 DEF IInv, CountsInv
<1>4. Emitted(line) \in Seq(0 .. W - 1)
  BY <1>1, <1>2, <1>3, Written
<1>5. /\ Len(out) \in Nat /\ Len(Emitted(line)) \in Nat /\ Len(out') = Len(out) + Len(Emitted(line))
      /\ \A p \in Nat : p < Len(out) => out'[p + 1] = out[p + 1]
      /\ \A p \in Nat : p < Len(Emitted(line)) => out'[Len(out) + p + 1] = Emitted(line)[p + 1]
  <2>1. \A s, t \in Seq(0 .. W - 1) :
          /\ Len(s) \in Nat /\ Len(t) \in Nat /\ Len(s \o t) = Len(s) + Len(t)
          /\ \A p \in Nat : p < Len(s) => (s \o t)[p + 1] = s[p + 1]
          /\ \A p \in Nat : p < Len(t) => (s \o t)[Len(s) + p + 1] = t[p + 1]
    OBVIOUS
  <2> QED
    BY <1>1, <1>4, <2>1
<1>6. SUFFICES ASSUME NEW i \in 1 .. at, source[i].op \in Told
               PROVE  Checked(source[i])' /\ WrittenAt(source[i], starts[i])'
  <2>1. 1 .. at' - 1 = 1 .. at
    BY <1>1
  <2> QED
    BY <1>1, <1>6, <2>1 DEF OutInv
<1>7. \A l : Checked(l)' <=> Checked(l)
  BY <1>1 DEF Checked, raw, get_label_address
<1>8. \A l, here : FirstWord(l, here)' = FirstWord(l, here) /\ SecondWord(l)' = SecondWord(l)
  BY <1>1 DEF FirstWord, SecondWord, OffsetFrom, raw, get_label_address
<1>9. CASE i # at
  <2>1. Checked(source[i]) /\ WrittenAt(source[i], starts[i])
    BY <1>1, <1>6, <1>9 DEF OutInv
  <2>2. PICK p \in Nat :
          /\ Short(p) = starts[i]
          /\ p < Len(out) /\ out[p + 1] = FirstWord(source[i], starts[i])
          /\ source[i].op = "movi" => p + 1 < Len(out) /\ out[p + 2] = SecondWord(source[i])
    BY <2>1 DEF WrittenAt
  <2>3. p < Len(out') /\ out'[p + 1] = FirstWord(source[i], starts[i])
    BY <1>5, <2>2
  <2>4. source[i].op = "movi" => p + 1 < Len(out') /\ out'[p + 2] = SecondWord(source[i])
    <3>1. p + 1 \in Nat /\ (p + 1) + 1 = p + 2
      OBVIOUS
    <3> QED
      BY <1>5, <2>2, <3>1
  <2>5. WrittenAt(source[i], starts[i])'
    BY <1>1, <1>8, <2>2, <2>3, <2>4 DEF WrittenAt, Short
  <2> QED
    BY <1>1, <1>7, <2>1, <2>5
<1>10. CASE i = at
  <2>1. Checked(line)
    BY <1>1, <1>2, WrittenIsChecked
  <2>2. line.op \in Told
    BY <1>1, <1>6, <1>10
  <2> DEFINE p == Len(out)
  <2>3. p < Len(out') /\ out'[p + 1] = FirstWord(line, address)
    <3>1. Len(Emitted(line)) >= 1 /\ Emitted(line)[1] = FirstWord(line, address)
      BY <2>2, FirstIsFirst
    <3>2. 0 \in Nat /\ 0 < Len(Emitted(line)) /\ 0 + 1 = 1 /\ Len(out) + 0 + 1 = p + 1
      BY <1>5, <3>1
    <3>3. out'[Len(out) + 0 + 1] = Emitted(line)[0 + 1]
      BY <1>5, <3>2
    <3>4. p < Len(out')
      BY <1>5, <3>1
    <3> QED
      BY <3>1, <3>2, <3>3, <3>4
  <2>4. ASSUME line.op = "movi"
        PROVE  p + 1 < Len(out') /\ out'[p + 2] = SecondWord(line)
    <3>1. Len(Emitted(line)) = 2 /\ Emitted(line)[2] = SecondWord(line)
      BY <2>2, <2>4, FirstIsFirst
    <3>2. 1 \in Nat /\ 1 < Len(Emitted(line)) /\ 1 + 1 = 2 /\ Len(out) + 1 + 1 = p + 2
      BY <1>5, <3>1
    <3>3. out'[Len(out) + 1 + 1] = Emitted(line)[1 + 1]
      BY <1>5, <3>2
    <3>4. p + 1 < Len(out')
      BY <1>5, <3>1
    <3> QED
      BY <3>1, <3>2, <3>3, <3>4
  <2>5. WrittenAt(source[i], starts[i])'
    BY <1>1, <1>3, <1>5, <1>8, <1>10, <2>3, <2>4 DEF WrittenAt, Short
  <2> QED
    BY <1>1, <1>7, <1>10, <2>1, <2>5
<1> QED
  BY <1>9, <1>10

LEMMA AssembleKeepsOut == IInv /\ OutInv /\ [Next]_vars => OutInv'
<1> SUFFICES ASSUME IInv, OutInv, [Next]_vars PROVE OutInv'
  OBVIOUS
<1>1. CASE EmitLine
  BY <1>1, EmitLineWrites
<1>2. CASE CollectLine
  BY <1>2 DEF CollectLine, OutInv, IInv, CountsInv
<1>3. CASE RefuseLine \/ NoOpcode
  BY <1>3 DEF RefuseLine, NoOpcode, OutInv, IInv, CountsInv
<1>4. CASE Rewind
  BY <1>4 DEF Rewind, OutInv
<1>5. CASE FailLine \/ Finish \/ UNCHANGED vars
  <2>1. UNCHANGED <<source, at, address, labels, out, starts>>
    BY <1>5 DEF FailLine, Finish, vars
  <2>2. \A l, here : /\ Checked(l)' <=> Checked(l)
                     /\ WrittenAt(l, here)' <=> WrittenAt(l, here)
    BY <2>1 DEF Checked, WrittenAt, Short, FirstWord, SecondWord, OffsetFrom, raw, get_label_address
  <2>3. status' = "assembled" => at = Len(source) + 1
    BY <1>5 DEF FailLine, Failures, Finish, vars, OutInv, IInv, TypeOK
  <2>4. status' = "two" \/ out' # <<>> => status = "two" \/ out # <<>>
    BY <1>5, <2>1 DEF FailLine, Failures, Finish, vars
  <2> QED
    BY <2>1, <2>2, <2>3, <2>4 DEF OutInv
<1> QED
  BY <1>1, <1>2, <1>3, <1>4, <1>5 DEF Next
-----------------------------------------------------------------------------
(* The processor *)

LEMMA SameWords == Cpu!W = W /\ Cpu!Words = 0 .. W - 1 /\ Cpu!Regs = Regs
BY DEF Cpu!W, W, Cpu!Words, Cpu!Regs, Regs

LEMMA Cut == \A n \in Int : U16(n) \in 0 .. W - 1 /\ Cpu!U16(n) = U16(n)
BY WordCount, SameWords DEF U16, Cpu!U16

LEMMA LoadedIsMemory ==
  ASSUME NEW program \in Seq(0 .. W - 1)
  PROVE  Cpu!Loaded(program) \in [0 .. W - 1 -> 0 .. W - 1]
<1>1. \A a \in 0 .. W - 1 : a < Len(program) => program[a + 1] \in 0 .. W - 1
  BY WordCount
<1>2. 0 \in 0 .. W - 1
  BY WordCount
<1>3. Cpu!Loaded(program) =
        [a \in 0 .. W - 1 |-> IF a < Len(program) /\ a < RomEnd THEN program[a + 1] ELSE 0]
  BY SameWords DEF Cpu!Loaded
<1> QED
  BY <1>1, <1>2, <1>3

LEMMA ReadIsWord ==
  ASSUME Cpu!CpuTypeOK, NEW r \in Regs
  PROVE  Cpu!RegRead(r) \in 0 .. W - 1 /\ Cpu!RegRead(r) \in Int
BY SameWords, WordCount DEF Cpu!RegRead, Cpu!CpuTypeOK

LEMMA WriteKeepsWords ==
  ASSUME Cpu!CpuTypeOK, NEW r \in Regs, NEW n \in Int
  PROVE  Cpu!RegWrite(r, n) \in [Regs -> 0 .. W - 1]
BY SameWords, Cut DEF Cpu!RegWrite, Cpu!CpuTypeOK

LEMMA DecodedFields ==
  ASSUME Cpu!CpuTypeOK
  PROVE  /\ Cpu!rA \in Regs /\ Cpu!rB \in Regs /\ Cpu!rC \in Regs
         /\ Cpu!imm7 \in Int /\ Cpu!imm10 \in Int /\ Cpu!Instr \in Int
<1>1. Cpu!Instr \in Int
  BY SameWords, WordCount DEF Cpu!CpuTypeOK, Cpu!Instr
<1>2. \A n, m \in Int : m >= 1 => n \div m \in Int /\ n % m \in 0 .. m - 1 /\ n % m \in Int
  OBVIOUS
<1>3. NRegs \in Int /\ NRegs >= 1 /\ Imm \in Int /\ Imm >= 1 /\ NRegs * Imm \in Int /\ NRegs * Imm >= 1
  BY Widths
<1> QED
  BY <1>1, <1>2, <1>3 DEF Cpu!rA, Cpu!rB, Cpu!rC, Cpu!imm7, Cpu!imm10, Regs

(* An instruction keeps the types and the ROM. *)
LEMMA ExecuteStep ==
  ASSUME Cpu!CpuTypeOK, Cpu!Execute
  PROVE  /\ Cpu!CpuTypeOK'
         /\ \A a \in 0 .. W - 1 : a < RomEnd => mem'[a] = mem[a]
<1>1. /\ Cpu!rA \in Regs /\ Cpu!rB \in Regs /\ Cpu!rC \in Regs
      /\ Cpu!imm7 \in Int /\ Cpu!imm10 \in Int
  BY DecodedFields
<1>2. \A r \in Regs : Cpu!RegRead(r) \in 0 .. W - 1 /\ Cpu!RegRead(r) \in Int
  BY ReadIsWord
<1>3. /\ pc \in 0 .. W - 1 /\ pc \in Int /\ Cpu!U16(pc + 1) \in 0 .. W - 1
      /\ mem \in [0 .. W - 1 -> 0 .. W - 1] /\ rx \in [Regs -> 0 .. W - 1]
      /\ rom_ptr \in 0 .. W - 1 /\ ram_ptr \in 0 .. W - 1
  <2>1. /\ pc \in 0 .. W - 1 /\ mem \in [0 .. W - 1 -> 0 .. W - 1] /\ rx \in [Regs -> 0 .. W - 1]
        /\ rom_ptr \in 0 .. W - 1 /\ ram_ptr \in 0 .. W - 1
    BY SameWords DEF Cpu!CpuTypeOK
  <2>2. pc \in Int /\ pc + 1 \in Int
    BY <2>1, WordCount
  <2> QED
    BY <2>1, <2>2, Cut
<1>4. SUFFICES /\ mem' \in [0 .. W - 1 -> 0 .. W - 1] /\ rx' \in [Regs -> 0 .. W - 1]
               /\ pc' \in 0 .. W - 1 /\ rom_ptr' \in 0 .. W - 1 /\ ram_ptr' \in 0 .. W - 1
               /\ \A a \in 0 .. W - 1 : a < RomEnd => mem'[a] = mem[a]
  BY SameWords DEF Cpu!CpuTypeOK
<1>5. ASSUME NEW n \in Int, Cpu!Computes(n)
      PROVE  <1>4!1
  <2>1. rx' \in [Regs -> 0 .. W - 1]
    BY <1>1, <1>3, <1>5, WriteKeepsWords DEF Cpu!Computes, Cpu!Result
  <2> QED
    BY <1>3, <1>5, <2>1 DEF Cpu!Computes
<1>6. Cpu!Address \in 0 .. W - 1 /\ Cpu!Address \in Int
  <2>1. Cpu!imm7 + Cpu!RegRead(Cpu!rB) \in Int
    BY <1>1, <1>2
  <2>2. Cpu!Address \in 0 .. W - 1
    BY <2>1, Cut DEF Cpu!Address
  <2> QED
    BY <2>2, WordCount
<1>7. CASE Cpu!Add
  <2>1. Cpu!RegRead(Cpu!rB) + Cpu!RegRead(Cpu!rC) \in Int
    BY <1>1, <1>2
  <2> QED
    BY <1>5, <1>7, <2>1 DEF Cpu!Add
<1>8. CASE Cpu!Addi
  <2>1. Cpu!RegRead(Cpu!rB) + Cpu!imm7 \in Int
    BY <1>1, <1>2
  <2> QED
    BY <1>5, <1>8, <2>1 DEF Cpu!Addi
<1>9. CASE Cpu!Nand
  <2>1. BitAnd(Cpu!RegRead(Cpu!rB), Cpu!RegRead(Cpu!rC)) \in 0 .. W - 1
    BY <1>1, <1>2, AndAssumption
  <2>2. -1 - BitAnd(Cpu!RegRead(Cpu!rB), Cpu!RegRead(Cpu!rC)) \in Int
    BY <2>1, WordCount
  <2> QED
    BY <1>5, <1>9, <2>2 DEF Cpu!Nand
<1>10. CASE Cpu!Lui
  <2>1. Cpu!imm10 * 8 * NRegs \in Int
    BY <1>1, Widths
  <2> QED
    BY <1>5, <1>10, <2>1 DEF Cpu!Lui
<1>11. CASE Cpu!Sw
  <2>1. /\ mem' \in [0 .. W - 1 -> 0 .. W - 1]
        /\ \A a \in 0 .. W - 1 : a < RomEnd => mem'[a] = mem[a]
    <3>1. \/ mem' = mem
          \/ /\ mem' = [mem EXCEPT ![Cpu!Address] = Cpu!RegRead(Cpu!rA)]
             /\ Cpu!Address >= RomEnd + 1
      BY <1>6, <1>11, LayoutAssumption, WordCount, SameWords
         DEF Cpu!Sw, Cpu!Stored, Cpu!MemWrite, Cpu!RamStart, Cpu!RamEnd
    <3>2. Cpu!Address >= RomEnd + 1 => \A a \in 0 .. W - 1 : a < RomEnd => a # Cpu!Address
      BY <1>6, LayoutAssumption, WordCount
    <3>3. Cpu!RegRead(Cpu!rA) \in 0 .. W - 1
      BY <1>1, <1>2
    <3>4. mem' \in [0 .. W - 1 -> 0 .. W - 1]
      BY <1>3, <1>6, <3>1, <3>3
    <3>5. ASSUME NEW a \in 0 .. W - 1, a < RomEnd PROVE mem'[a] = mem[a]
      BY <1>3, <3>1, <3>2, <3>5
    <3> QED
      BY <3>4, <3>5
  <2> QED
    BY <1>3, <1>6, <1>11, <2>1 DEF Cpu!Sw
<1>12. CASE Cpu!Lw
  <2>1. mem[Cpu!Address] \in Int
    BY <1>3, <1>6, WordCount
  <2>2. rx' \in [Regs -> 0 .. W - 1]
    BY <1>1, <1>12, <2>1, WriteKeepsWords DEF Cpu!Lw
  <2> QED
    BY <1>3, <1>6, <1>12, <2>2 DEF Cpu!Lw
<1>13. CASE Cpu!Beq
  <2>1. Cpu!Target \in 0 .. W - 1
    <3>1. pc + 1 + Cpu!imm7 \in Int
      BY <1>1, <1>3
    <3>2. Cpu!U16(pc + 1 + Cpu!imm7) \in 0 .. W - 1
      BY <3>1, Cut
    <3>3. Imm \in Nat /\ Imm >= 1 /\ W \in Nat
      BY Widths, WordCount
    <3>4. \A n \in 0 .. W - 1 : n % Imm \in 0 .. W - 1
      <4> SUFFICES ASSUME NEW n \in 0 .. W - 1 PROVE n % Imm \in 0 .. W - 1
        OBVIOUS
      <4>1. n \in Nat /\ n % Imm \in 0 .. Imm - 1
        BY <3>3
      <4>2. CASE n < Imm
        <5>1. n % Imm = n
          BY <3>3, <4>1, <4>2
        <5> QED
          BY <5>1
      <4>3. CASE n >= Imm
        BY <3>3, <4>1, <4>3
      <4> QED
        BY <3>3, <4>1, <4>2, <4>3
    <3> QED
      BY <3>2, <3>4 DEF Cpu!Target
  <2> QED
    BY <1>3, <1>13, <2>1 DEF Cpu!Beq
<1>14. CASE Cpu!Jalr
  <2>1. pc + 1 \in Int /\ Cpu!RegRead(Cpu!rB) \in 0 .. W - 1
    BY <1>1, <1>2, <1>3
  <2>2. rx' \in [Regs -> 0 .. W - 1]
    BY <1>1, <1>3, <1>14, <2>1, WriteKeepsWords DEF Cpu!Jalr, Cpu!Result
  <2> QED
    BY <1>3, <1>14, <2>1, <2>2 DEF Cpu!Jalr
<1> QED
  BY <1>7, <1>8, <1>9, <1>10, <1>11, <1>12, <1>13, <1>14 DEF Cpu!Execute

LEMMA ToolStepIsSound == ToolInv /\ [ToolNext]_toolvars => ToolInv'
<1> SUFFICES ASSUME ToolInv, [ToolNext]_toolvars PROVE ToolInv'
  OBVIOUS
<1>1. IInv /\ OutInv /\ MemInv
  BY DEF ToolInv
<1>2. [Next]_vars
  BY DEF ToolNext, Assemble, Load, Tick, toolvars, vars
<1>3. IInv'
  BY <1>1, <1>2, CollectLineIsSound, EmitLineIsSound, OthersAreSound DEF Next
<1>4. OutInv'
  BY <1>1, <1>2, AssembleKeepsOut
<1>5. MemInv'
  <2>1. CASE Next /\ UNCHANGED emulator
    <3>1. ~loaded
      BY <1>1, <2>1 DEF MemInv, Next, CollectLine, RefuseLine, NoOpcode, Rewind, EmitLine, FailLine, Finish
    <3> QED
      BY <1>1, <2>1, <3>1 DEF MemInv, emulator, Cpu!CpuTypeOK
  <2>2. CASE Load
    <3>1. out \in Seq(0 .. W - 1) /\ UNCHANGED <<status, out>>
      BY <1>1, <2>2 DEF IInv, TypeOK, Load, vars
    <3>2. mem' = Cpu!Loaded(out) /\ mem' \in [0 .. W - 1 -> 0 .. W - 1]
      BY <2>2, <3>1, LoadedIsMemory DEF Load
    <3>3. Cpu!CpuTypeOK'
      BY <1>1, <2>2, <3>2, SameWords DEF Load, MemInv, Cpu!CpuTypeOK
    <3>4. Cpu!Loaded(out)' = Cpu!Loaded(out)
      BY <3>1 DEF Cpu!Loaded
    <3> QED
      BY <2>2, <3>1, <3>2, <3>3, <3>4 DEF Load, MemInv
  <2>3. CASE Tick
    <3>1. Cpu!CpuTypeOK' /\ \A a \in 0 .. W - 1 : a < RomEnd => mem'[a] = mem[a]
      BY <1>1, <2>3, ExecuteStep DEF Tick, MemInv
    <3>2. UNCHANGED <<status, out, loaded>> /\ Cpu!Loaded(out)' = Cpu!Loaded(out)
      BY <2>3 DEF Tick, vars, Cpu!Loaded
    <3> QED
      BY <1>1, <3>1, <3>2 DEF MemInv
  <2>4. CASE UNCHANGED toolvars
    BY <1>1, <2>4 DEF toolvars, emulator, vars, MemInv, Cpu!CpuTypeOK, Cpu!Loaded
  <2> QED
    BY <2>1, <2>2, <2>3, <2>4 DEF ToolNext, Assemble
<1> QED
  BY <1>3, <1>4, <1>5 DEF ToolInv

THEOREM ToolInvariance == ToolSpec => []ToolInv
BY NothingYet, ToolStepIsSound, PTL DEF ToolSpec
-----------------------------------------------------------------------------
(* Lines and instructions *)

LEMMA Arguments ==
  ASSUME IInv, NEW l \in Line, Checked(l)
  PROVE  /\ \A k \in 1 .. Args(l.op) :
              l.args[k] \in Token /\ raw(l.args[k]) \in Int /\ l.args[k].value \in Int
         /\ \A k \in 1 .. RegisterArgs(l.op) : l.args[k].value \in Regs
<1>1. labels \in Seq(Label) /\ address \in Int
  BY DEF IInv, TypeOK, Label
<1>2. l.args \in Seq(Token) /\ Len(l.args) >= Args(l.op) /\ Args(l.op) \in Nat
  BY DEF Line, Checked, Args
<1>3. \A k \in 1 .. Args(l.op) : l.args[k] \in Token
  BY <1>2
<1> QED
  BY <1>1, <1>3, ArgumentsAreInt DEF Checked

(* What an instruction that computes n does is to set its register. *)
LEMMA ComputesSets ==
  ASSUME Cpu!CpuTypeOK, NEW n \in Int, NEW m \in Int, Cpu!Computes(n), U16(m) = U16(n)
  PROVE  Sets(Cpu!rA, m)
<1>1. pc + 1 \in Int
  BY SameWords, WordCount DEF Cpu!CpuTypeOK
<1>2. Cpu!U16(pc + 1) = U16(pc + 1) /\ Cpu!U16(n) = U16(m)
  BY <1>1, Cut
<1> QED
  BY <1>2 DEF Sets, Cpu!Computes, Cpu!Result, Cpu!RegWrite

(* A short and its number leave the same remainder. *)
LEMMA ShortWraps == \A n \in Int : Short(n) % W = n % W
<1> SUFFICES ASSUME NEW n \in Int PROVE Short(n) % W = n % W
  OBVIOUS
<1> DEFINE h == W \div 2
<1>1. h \in Int /\ -h \in Int /\ n + h \in Int /\ W \in Nat /\ W >= 1
  BY WordCount
<1> HIDE DEF h
<1>2. (((n + h) % W) + (-h)) % W = (n + h + (-h)) % W
  BY <1>1, Wraps
<1>3. n + h + (-h) = n /\ ((n + h) % W) + (-h) = ((n + h) % W) - h
  <2>1. (n + h) % W \in Int
    BY <1>1
  <2> QED
    BY <1>1, <2>1
<1>4. Short(n) = ((n + h) % W) - h
  BY DEF Short, h
<1> QED
  BY <1>2, <1>3, <1>4

(* Below the width of an immediate, nothing is seen of the cut to a word. *)
LEMMA CutToImmediate == \A n \in Int : (n % W) % Imm = n % Imm
<1>1. W = Imm * (8 * (NRegs * NRegs)) /\ 8 * (NRegs * NRegs) \in Nat /\ 8 * (NRegs * NRegs) >= 1
  <2>1. NRegs * NRegs \in Nat /\ NRegs * NRegs >= 1
    BY Widths, Products
  <2>2. W = 8 * ((NRegs * NRegs) * Imm)
    BY Widths DEF W
  <2> DEFINE s == NRegs * NRegs
  <2> HIDE DEF s
  <2>3. 8 * (s * Imm) = Imm * (8 * s)
    BY <2>1, Widths DEF s
  <2> QED
    BY <2>1, <2>2, <2>3 DEF s
<1> DEFINE k == 8 * (NRegs * NRegs)
<1>2. Imm \in Nat /\ Imm >= 1 /\ k \in Nat /\ k >= 1 /\ W = Imm * k
  BY <1>1, Widths
<1> HIDE DEF k
<1> QED
  BY <1>2, Nested

(* What lui leaves in a register is its argument without the lower bits.   *)
LEMMA UpperBits ==
  \A n \in Int : U16(Upper(n) * 8 * NRegs) = U16(n - (n % Low))
<1> SUFFICES ASSUME NEW n \in Int PROVE U16(Upper(n) * 8 * NRegs) = U16(n - (n % Low))
  OBVIOUS
<1> DEFINE f == NRegs * Imm
           q == n \div Low
           u == q % f
           k == q \div f
<1>1. /\ Low \in Nat /\ Low >= 1 /\ f \in Nat /\ f >= 1 /\ W \in Nat /\ W >= 1
  BY Widths, WordCount DEF Low
<1>2. W = Low * f
  <2>1. 8 * (NRegs * f) = (8 * NRegs) * f
    BY Widths
  <2> QED
    BY <2>1, Widths DEF Low
<1>3. q \in Int /\ n - (n % Low) = Low * q
  <2>1. q \in Int /\ n % Low \in Int /\ n = Low * q + (n % Low)
    BY <1>1, Division
  <2>2. Low * q \in Int
    BY <1>1, <2>1, Products
  <2> HIDE DEF q
  <2> QED
    BY <2>1, <2>2
<1> HIDE DEF f, q
<1>4. u \in Int /\ k \in Int /\ q = f * k + u
  BY <1>1, <1>3
<1> HIDE DEF u, k
<1>5. Upper(n) * 8 * NRegs = Low * u
  <2>1. Upper(n) = u
    BY DEF Upper, u, q, f
  <2>2. u * 8 * NRegs = (8 * NRegs) * u
    BY <1>4, Widths
  <2> QED
    BY <2>1, <2>2 DEF Low
<1>6. Low * q = Low * u + W * k
  <2>1. Low * (f * k + u) = Low * (f * k) + Low * u
    <3>1. f * k \in Int
      BY <1>1, <1>4
    <3> DEFINE t == f * k
    <3> HIDE DEF t
    <3>2. Low * (t + u) = Low * t + Low * u
      BY <1>1, <1>4, <3>1 DEF t
    <3> QED
      BY <3>2 DEF t
  <2>2. Low * (f * k) = (Low * f) * k
    BY <1>1, <1>4
  <2>3. Low * u \in Int /\ W * k \in Int
    BY <1>1, <1>4, Products
  <2> QED
    BY <1>2, <1>4, <2>1, <2>2, <2>3
<1>7. (Low * u + W * k) % W = (Low * u) % W
  <2>1. Low * u \in Int
    BY <1>1, <1>4
  <2> DEFINE v == Low * u
             p == v \div W
             s == v % W
  <2> HIDE DEF v
  <2>2. v \in Int /\ p \in Int /\ s \in 0 .. W - 1 /\ v = W * p + s
    <3>1. v \in Int /\ W \in Nat /\ W >= 1
      BY <1>1, <2>1 DEF v
    <3> QED
      BY <3>1, Division
  <2> HIDE DEF p, s
  <2>3. v + W * k = W * (p + k) + s
    <3>1. W * (p + k) = W * p + W * k
      BY <1>1, <1>4, <2>2
    <3>2. W * p \in Int /\ W * k \in Int
      BY <1>1, <1>4, <2>2, Products
    <3> QED
      BY <2>2, <3>1, <3>2
  <2>4. p + k \in Int
    BY <1>4, <2>2
  <2>5. (W * (p + k) + s) % W = s
    BY <1>1, <2>2, <2>4, Divides
  <2> QED
    BY <2>3, <2>5 DEF s, v
<1> QED
  BY <1>3, <1>5, <1>6, <1>7 DEF U16
(* What the word at pc makes the processor do. *)
LEMMA Executed ==
  ASSUME Cpu!Execute
  PROVE  /\ Cpu!opcode = 0 => Cpu!Computes(Cpu!RegRead(Cpu!rB) + Cpu!RegRead(Cpu!rC))
         /\ Cpu!opcode = 1 => Cpu!Computes(Cpu!RegRead(Cpu!rB) + Cpu!imm7)
         /\ Cpu!opcode = 2 => Cpu!Computes(-1 - BitAnd(Cpu!RegRead(Cpu!rB), Cpu!RegRead(Cpu!rC)))
         /\ Cpu!opcode = 3 => Cpu!Computes(Cpu!imm10 * 8 * NRegs)
         /\ Cpu!opcode = 4 => Cpu!Sw
         /\ Cpu!opcode = 5 => Cpu!Lw
         /\ Cpu!opcode = 6 => Cpu!Beq
         /\ Cpu!opcode = 7 => Cpu!Jalr
BY DEF Cpu!Execute, Cpu!Add, Cpu!Addi, Cpu!Nand, Cpu!Lui, Cpu!Sw, Cpu!Lw, Cpu!Beq, Cpu!Jalr

LEMMA DecodedWord ==
  ASSUME NEW op \in 0 .. 7, NEW a \in Regs, NEW b \in Regs, NEW low \in 0 .. Imm - 1,
         mem[pc] = Instruction(op, a, b, low)
  PROVE  /\ Cpu!opcode = op /\ Cpu!rA = a /\ Cpu!rB = b /\ Cpu!imm7 = low
         /\ low \in Regs => Cpu!rC = low
BY Fields, SameWords DEF Cpu!opcode, Cpu!rA, Cpu!rB, Cpu!rC, Cpu!imm7, Cpu!Instr

LEMMA DecodedWideWord ==
  ASSUME NEW op \in 0 .. 7, NEW a \in Regs, NEW low \in 0 .. NRegs * Imm - 1,
         mem[pc] = Instruction(op, a, 0, low)
  PROVE  Cpu!opcode = op /\ Cpu!rA = a /\ Cpu!imm10 = low
BY WideFields, SameWords DEF Cpu!opcode, Cpu!rA, Cpu!imm10, Cpu!Instr

(* An immediate that is not below zero is what it was in the source.       *)
LEMMA NotNegative ==
  ASSUME NEW n \in Int, InRange(n), n >= 0
  PROVE  n % Imm = n
<1>1. Imm \in Nat /\ Imm >= 1 /\ n < Imm
  BY Widths DEF InRange
<1> QED
  BY <1>1

(* What the processor does at the first word of a line is what the line    *)
(* means.                                                                  *)
LEMMA FirstWordMeans ==
  ASSUME IInv, Cpu!CpuTypeOK, Cpu!Execute, NEW l \in Line, l.op \in Told, Checked(l),
         mem[pc] = FirstWord(l, pc)
  PROVE  MeansWhatItSays(l)
<1> DEFINE a == l.args[1].value
           reg(k) == Cpu!RegRead(l.args[k].value)
           n(k) == raw(l.args[k])
<1>1. /\ \A k \in 1 .. Args(l.op) :
            l.args[k] \in Token /\ raw(l.args[k]) \in Int /\ l.args[k].value \in Int
      /\ \A k \in 1 .. RegisterArgs(l.op) : l.args[k].value \in Regs
  BY Arguments
<1>2. \A r \in Regs : Cpu!RegRead(r) \in 0 .. W - 1 /\ Cpu!RegRead(r) \in Int
  BY ReadIsWord
<1>3. 0 \in Regs /\ Regs \subseteq 0 .. Imm - 1 /\ 0 \in 0 .. Imm - 1
  <2>1. 0 \in Int
    OBVIOUS
  <2> QED
    BY <2>1, FieldsFit
<1>4. pc \in 0 .. W - 1 /\ pc \in Int /\ pc + 1 \in Int /\ Cpu!U16(pc + 1) = U16(pc + 1)
  <2>1. pc \in 0 .. W - 1
    BY SameWords DEF Cpu!CpuTypeOK
  <2>2. pc \in Int /\ pc + 1 \in Int
    BY <2>1, WordCount
  <2> QED
    BY <2>1, <2>2, Cut
<1>5. CASE l.op = "nop"
  <2>1. mem[pc] = Instruction(0, 0, 0, 0)
    BY <1>5 DEF FirstWord
  <2>2. Cpu!opcode = 0 /\ Cpu!rA = 0 /\ Cpu!rB = 0 /\ Cpu!rC = 0
    BY <1>3, <2>1, DecodedWord
  <2>3. Cpu!Computes(Cpu!RegRead(0) + Cpu!RegRead(0))
    BY <2>2, Executed
  <2>4. Cpu!RegRead(0) + Cpu!RegRead(0) = 0
    BY DEF Cpu!RegRead
  <2>5. Sets(0, 0)
    BY <2>2, <2>3, <2>4, ComputesSets
  <2> QED
    BY <1>5, <2>5 DEF MeansWhatItSays
<1>6. CASE l.op \in {"add", "nand"}
  <2>1. a \in Regs /\ l.args[2].value \in Regs /\ l.args[3].value \in Regs
    BY <1>1, <1>6 DEF RegisterArgs
  <2>2. /\ reg(2) \in 0 .. W - 1 /\ reg(3) \in 0 .. W - 1 /\ reg(2) \in Int /\ reg(3) \in Int
        /\ l.args[3].value \in 0 .. Imm - 1
    BY <1>2, <1>3, <2>1
  <2>3. CASE l.op = "add"
    <3>1. mem[pc] = Instruction(0, a, l.args[2].value, l.args[3].value)
      BY <2>3 DEF FirstWord
    <3>2. Cpu!opcode = 0 /\ Cpu!rA = a /\ Cpu!rB = l.args[2].value /\ Cpu!rC = l.args[3].value
      BY <2>1, <2>2, <3>1, DecodedWord
    <3>3. Cpu!Computes(reg(2) + reg(3))
      BY <3>2, Executed
    <3>4. Sets(a, reg(2) + reg(3))
      <4>1. reg(2) + reg(3) \in Int
        BY <2>2
      <4> QED
        BY <3>2, <3>3, <4>1, ComputesSets
    <3> QED
      BY <2>3, <3>4 DEF MeansWhatItSays
  <2>4. CASE l.op = "nand"
    <3>1. mem[pc] = Instruction(2, a, l.args[2].value, l.args[3].value)
      BY <2>4 DEF FirstWord
    <3>2. Cpu!opcode = 2 /\ Cpu!rA = a /\ Cpu!rB = l.args[2].value /\ Cpu!rC = l.args[3].value
      BY <2>1, <2>2, <3>1, DecodedWord
    <3> DEFINE x == BitAnd(reg(2), reg(3))
    <3>3. Cpu!Computes(-1 - x)
      BY <3>2, Executed
    <3>4. x \in 0 .. W - 1 /\ -1 - x \in Int /\ W - 1 - x \in Int
      <4>1. x \in 0 .. W - 1
        BY <2>2, AndAssumption
      <4> QED
        BY <4>1, WordCount
    <3>5. U16(W - 1 - x) = U16(-1 - x)
      <4> HIDE DEF x
      <4>1. (W * 1 + (-1 - x)) % W = (-1 - x) % W
        <5>1. W \in Nat /\ W >= 1 /\ W * 1 \in Int /\ -1 - x \in Int
          BY <3>4, WordCount
        <5>2. (((W * 1) % W) + (-1 - x)) % W = (W * 1 + (-1 - x)) % W
          BY <5>1, Wraps
        <5>3. (W * 1) % W = 0
          BY <5>1
        <5> QED
          BY <5>1, <5>2, <5>3
      <4>2. W * 1 + (-1 - x) = W - 1 - x
        BY <3>4, WordCount
      <4> QED
        BY <4>1, <4>2 DEF U16
    <3>6. Sets(a, W - 1 - x)
      BY <3>2, <3>3, <3>4, <3>5, ComputesSets
    <3> QED
      BY <2>4, <3>6 DEF MeansWhatItSays
  <2> QED
    BY <1>6, <2>3, <2>4
<1>7. CASE l.op \in {"addi", "lw", "sw"}
  <2>1. /\ a \in Regs /\ l.args[2].value \in Regs /\ n(3) \in Int /\ InRange(n(3))
    BY <1>1, <1>7 DEF RegisterArgs, Args, Checked
  <2>2. reg(1) \in 0 .. W - 1 /\ reg(2) \in Int /\ reg(2) + n(3) \in Int
    BY <1>2, <2>1
  <2>3. CASE ~(n(3) >= 0)
    BY <1>7, <2>3 DEF MeansWhatItSays
  <2>4. CASE n(3) >= 0
    <3>1. n(3) % Imm = n(3) /\ n(3) \in 0 .. Imm - 1
      <4>1. n(3) % Imm = n(3)
        BY <2>1, <2>4, NotNegative
      <4>2. n(3) % Imm \in 0 .. Imm - 1
        BY <2>1, FieldsFit
      <4> QED
        BY <4>1, <4>2
    <3>2. CASE l.op = "addi"
      <4>1. mem[pc] = Instruction(1, a, l.args[2].value, n(3))
        BY <3>1, <3>2 DEF FirstWord
      <4>2. Cpu!opcode = 1 /\ Cpu!rA = a /\ Cpu!rB = l.args[2].value /\ Cpu!imm7 = n(3)
        BY <2>1, <3>1, <4>1, DecodedWord
      <4>3. Cpu!Computes(reg(2) + n(3))
        BY <4>2, Executed
      <4>4. Sets(a, reg(2) + n(3))
        BY <2>2, <4>2, <4>3, ComputesSets
      <4> QED
        BY <2>4, <3>2, <4>4 DEF MeansWhatItSays
    <3> DEFINE there == U16(reg(2) + n(3))
    <3>3. ASSUME Cpu!rB = l.args[2].value, Cpu!imm7 = n(3)
          PROVE  Cpu!Address = there
      <4>1. n(3) + reg(2) = reg(2) + n(3)
        BY <2>1, <2>2, <1>2
      <4> QED
        BY <2>2, <3>3, <4>1, Cut DEF Cpu!Address
    <3>4. CASE l.op = "lw"
      <4>1. mem[pc] = Instruction(5, a, l.args[2].value, n(3))
        BY <3>1, <3>4 DEF FirstWord
      <4>2. Cpu!opcode = 5 /\ Cpu!rA = a /\ Cpu!rB = l.args[2].value /\ Cpu!imm7 = n(3)
        BY <2>1, <3>1, <4>1, DecodedWord
      <4>3. Cpu!Lw /\ Cpu!Address = there
        BY <3>3, <4>2, Executed
      <4>4. Sets(a, mem[there])
        <5>1. mem[there] \in Int
          BY <2>2, SameWords, WordCount, Cut DEF Cpu!CpuTypeOK
        <5>2. Cpu!U16(mem[there]) = U16(mem[there])
          BY <5>1, Cut
        <5> QED
          BY <1>4, <4>2, <4>3, <5>2 DEF Sets, Cpu!Lw, Cpu!RegWrite
      <4> QED
        BY <2>4, <3>4, <4>4 DEF MeansWhatItSays
    <3>5. CASE l.op = "sw"
      <4>1. mem[pc] = Instruction(4, a, l.args[2].value, n(3))
        BY <3>1, <3>5 DEF FirstWord
      <4>2. Cpu!opcode = 4 /\ Cpu!rA = a /\ Cpu!rB = l.args[2].value /\ Cpu!imm7 = n(3)
        BY <2>1, <3>1, <4>1, DecodedWord
      <4>3. Cpu!Sw /\ Cpu!Address = there
        BY <3>3, <4>2, Executed
      <4>4. mem' = IF there \in Cpu!RamStart .. Cpu!RamEnd - 1
                   THEN [mem EXCEPT ![there] = reg(1)] ELSE mem
        <5>1. there \in Cpu!RamStart .. Cpu!RamEnd - 1 => there >= Cpu!RamStart
          BY LayoutAssumption, WordCount, SameWords DEF Cpu!RamStart, Cpu!RamEnd
        <5> QED
          BY <4>2, <4>3, <5>1 DEF Cpu!Sw, Cpu!Stored, Cpu!MemWrite
      <4>5. rx' = rx /\ pc' = U16(pc + 1)
        BY <1>4, <4>3 DEF Cpu!Sw
      <4> QED
        BY <2>4, <3>5, <4>4, <4>5 DEF MeansWhatItSays
    <3> QED
      BY <1>7, <3>2, <3>4, <3>5
  <2> QED
    BY <2>3, <2>4
<1>8. CASE l.op \in {"lui", "movi"}
  <2>1. a \in Regs /\ n(2) \in Int
    BY <1>1, <1>8 DEF RegisterArgs, Args
  <2>2. Upper(n(2)) \in 0 .. NRegs * Imm - 1
    BY <2>1, FieldsFit
  <2>3. mem[pc] = Instruction(3, a, 0, Upper(n(2)))
    BY <1>8 DEF FirstWord
  <2>4. Cpu!opcode = 3 /\ Cpu!rA = a /\ Cpu!imm10 = Upper(n(2))
    BY <2>1, <2>2, <2>3, DecodedWideWord
  <2>5. Cpu!Computes(Upper(n(2)) * 8 * NRegs)
    BY <2>4, Executed
  <2>6. Upper(n(2)) * 8 * NRegs \in Int /\ n(2) - (n(2) % Low) \in Int
    <3>1. Low \in Nat /\ Low >= 1
      BY Widths DEF Low
    <3>2. Upper(n(2)) \in Int
      BY <2>2, Widths
    <3>3. n(2) % Low \in Int
      BY <2>1, <3>1, Division
    <3> HIDE DEF n
    <3>4. Upper(n(2)) * 8 * NRegs \in Int
      BY <3>2, Widths
    <3> QED
      BY <2>1, <3>3, <3>4
  <2>7. Sets(a, n(2) - (n(2) % Low))
    BY <2>1, <2>4, <2>5, <2>6, UpperBits, ComputesSets
  <2> QED
    BY <1>8, <2>7 DEF MeansWhatItSays
<1>9. CASE l.op = "lli"
  <2>1. a \in Regs /\ n(2) \in Int
    BY <1>1, <1>9 DEF RegisterArgs, Args
  <2>2. Lower(n(2)) \in 0 .. Imm - 1
    BY <2>1, FieldsFit
  <2>3. mem[pc] = Instruction(1, a, a, Lower(n(2)))
    BY <1>9 DEF FirstWord
  <2>4. Cpu!opcode = 1 /\ Cpu!rA = a /\ Cpu!rB = a /\ Cpu!imm7 = n(2) % Low
    BY <2>1, <2>2, <2>3, DecodedWord DEF Lower
  <2>5. Cpu!Computes(reg(1) + (n(2) % Low)) /\ reg(1) + (n(2) % Low) \in Int
    <3>1. n(2) % Low \in Int
      BY <2>2, Widths DEF Lower
    <3> HIDE DEF n
    <3> QED
      BY <1>2, <2>1, <2>4, <3>1, Executed
  <2>6. Sets(a, reg(1) + (n(2) % Low))
    BY <2>4, <2>5, ComputesSets
  <2> QED
    BY <1>9, <2>6 DEF MeansWhatItSays
<1>10. CASE l.op = "beq"
  <2>1. a \in Regs /\ l.args[2].value \in Regs /\ l.args[3] \in Token
    BY <1>1, <1>10 DEF RegisterArgs, Args
  <2> DEFINE t == l.args[3]
             x == IF t.isNumber THEN t.value ELSE get_label_address(t.name) - pc - 1
  <2>2. x \in Int /\ BranchTarget(t) = pc + 1 + x /\ BranchTarget(t) \in Int
    <3>1. t.value \in Int /\ get_label_address(t.name) \in Int
      BY <2>1, LookupIsInt DEF Token, IInv, TypeOK, Label
    <3> QED
      BY <1>4, <3>1 DEF BranchTarget
  <2>3. OffsetFrom(t, pc) = Short(x)
    BY DEF OffsetFrom
  <2> HIDE DEF x
  <2>4. Short(x) \in Int /\ Short(x) % Imm \in 0 .. Imm - 1
    BY <2>2, ShortIsInt, FieldsFit
  <2>5. mem[pc] = Instruction(6, a, l.args[2].value, Short(x) % Imm)
    BY <1>10, <2>3 DEF FirstWord
  <2>6. Cpu!opcode = 6 /\ Cpu!rA = a /\ Cpu!rB = l.args[2].value /\ Cpu!imm7 = Short(x) % Imm
    BY <2>1, <2>4, <2>5, DecodedWord
  <2>7. Cpu!Target = BranchTarget(t) % Imm
    <3>1. Short(x) % Imm = x % Imm
      <4>1. (Short(x) % W) % Imm = Short(x) % Imm /\ (x % W) % Imm = x % Imm
        BY <2>2, <2>4, CutToImmediate
      <4> QED
        BY <2>2, <4>1, ShortWraps
    <3>2. Imm \in Nat /\ Imm >= 1 /\ x % Imm \in Int
      BY <2>2, Widths, Division
    <3>3. Cpu!Target = (pc + 1 + (x % Imm)) % Imm
      <4>1. pc + 1 + (x % Imm) \in Int
        BY <1>4, <3>2
      <4>2. Cpu!Target = ((pc + 1 + (x % Imm)) % W) % Imm
        BY <2>6, <3>1, SameWords DEF Cpu!Target, Cpu!U16
      <4> QED
        BY <4>1, <4>2, CutToImmediate
    <3>4. ((x % Imm) + (pc + 1)) % Imm = (x + (pc + 1)) % Imm
      BY <1>4, <2>2, <3>2, Wraps
    <3>5. (x % Imm) + (pc + 1) = pc + 1 + (x % Imm) /\ x + (pc + 1) = pc + 1 + x
      BY <1>4, <2>2, <3>2
    <3> QED
      BY <2>2, <3>3, <3>4, <3>5
  <2>8. Cpu!Beq
    BY <2>6, Executed
  <2>9. reg(1) # reg(2) => Goes(U16(pc + 1))
    BY <1>4, <2>6, <2>8 DEF Goes, Cpu!Beq
  <2>10. ASSUME reg(1) = reg(2), BranchTarget(t) \in 0 .. Imm - 1
         PROVE  Goes(BranchTarget(t))
    <3>1. BranchTarget(t) % Imm = BranchTarget(t)
      <4>1. \A m \in 0 .. Imm - 1 : m % Imm = m
        BY Widths
      <4> QED
        BY <2>10, <4>1
    <3> QED
      BY <2>6, <2>7, <2>8, <2>10, <3>1 DEF Goes, Cpu!Beq
  <2> QED
    BY <1>10, <2>9, <2>10 DEF MeansWhatItSays
<1>11. CASE l.op = "jalr"
  <2>1. a \in Regs /\ l.args[2].value \in Regs
    BY <1>1, <1>11 DEF RegisterArgs
  <2>2. mem[pc] = Instruction(7, a, l.args[2].value, 0)
    BY <1>11 DEF FirstWord
  <2>3. Cpu!opcode = 7 /\ Cpu!rA = a /\ Cpu!rB = l.args[2].value
    <3>1. 7 \in 0 .. 7 /\ 0 \in 0 .. Imm - 1
      BY <1>3
    <3> QED
      BY <2>1, <2>2, <3>1, DecodedWord
  <2>4. Cpu!Jalr
    BY <2>3, Executed
  <2>5. pc' = reg(2) /\ rx' = IF a = 0 THEN rx ELSE [rx EXCEPT ![a] = U16(pc + 1)]
    BY <1>4, <2>3, <2>4 DEF Cpu!Jalr, Cpu!Result, Cpu!RegWrite
  <2> QED
    BY <1>11, <2>5 DEF MeansWhatItSays
<1> QED
  BY <1>5, <1>6, <1>7, <1>8, <1>9, <1>10, <1>11 DEF Told

(* What it does at the second word of a movi, when the first one has done  *)
(* its part, is the rest.                                                  *)
LEMMA SecondWordMeans ==
  ASSUME IInv, Cpu!CpuTypeOK, Cpu!Execute, NEW l \in Line, l.op = "movi", Checked(l),
         mem[pc] = SecondWord(l), NEW a, a = l.args[1].value, NEW n, n = raw(l.args[2]),
         rx[a] = U16(n - (n % Low))
  PROVE  Sets(a, n)
<1>1. a \in Regs /\ n \in Int
  BY Arguments DEF RegisterArgs, Args
<1>2. Lower(n) \in 0 .. Imm - 1 /\ Lower(n) = n % Low /\ Lower(n) \in Int
  <2>1. Lower(n) \in 0 .. Imm - 1
    BY <1>1, FieldsFit
  <2> QED
    BY <2>1, Widths DEF Lower
<1>3. Cpu!opcode = 1 /\ Cpu!rA = a /\ Cpu!rB = a /\ Cpu!imm7 = Lower(n)
  BY <1>1, <1>2, DecodedWord DEF SecondWord
<1>4. Cpu!Computes(Cpu!RegRead(a) + Lower(n))
  BY <1>3, Executed
<1>5. CASE a = 0
  <2>1. pc + 1 \in Int
    BY SameWords, WordCount DEF Cpu!CpuTypeOK
  <2> QED
    BY <1>3, <1>4, <1>5, <2>1, Cut DEF Sets, Cpu!Computes, Cpu!Result
<1>6. CASE a # 0
  <2> DEFINE high == n - (n % Low)
  <2>1. high \in Int /\ high + Lower(n) = n
    BY <1>1, <1>2
  <2> HIDE DEF high
  <2>2. Cpu!RegRead(a) = high % W
    BY <1>6 DEF Cpu!RegRead, U16, high
  <2>3. Cpu!RegRead(a) + Lower(n) \in Int
    BY <1>1, <1>2, ReadIsWord
  <2>4. ((high % W) + Lower(n)) % W = (high + Lower(n)) % W
    BY <1>2, <2>1, WordCount, Wraps
  <2>5. U16(n) = U16(Cpu!RegRead(a) + Lower(n))
    BY <2>1, <2>2, <2>4 DEF U16
  <2> QED
    BY <1>1, <1>3, <1>4, <2>3, <2>5, ComputesSets
<1> QED
  BY <1>5, <1>6

(* Within the memory an address is the place itself, or lies below zero.   *)
LEMMA ShortInMemory ==
  ASSUME NEW p \in Nat, p < W
  PROVE  Short(p) = p \/ Short(p) = p - W
<1> DEFINE h == W \div 2
<1>1. h \in Nat /\ h <= W /\ W \in Nat
  BY WordCount
<1> HIDE DEF h
<1>2. CASE p + h < W
  <2>1. (p + h) % W = p + h
    BY <1>1, <1>2
  <2> QED
    BY <1>1, <2>1 DEF Short, h
<1>3. CASE ~(p + h < W)
  <2> DEFINE r == p + h - W
  <2>1. r \in 0 .. W - 1 /\ p + h = W * 1 + r
    BY <1>1, <1>3
  <2> HIDE DEF r
  <2>2. (W * 1 + r) % W = r
    BY <1>1, <2>1, WordCount, Divides
  <2>3. (p + h) % W = p + h - W
    BY <2>1, <2>2 DEF r
  <2> QED
    BY <1>1, <2>3 DEF Short, h
<1> QED
  BY <1>2, <1>3

(* The step of a program that is running: the word at pc is one the        *)
(* assembler has written.                                                  *)
LEMMA RunningStep ==
  ASSUME ToolInv, Tick, loaded, pc < RomEnd, out # <<>>, Len(out) <= W, NEW i \in 1 .. at - 1
  PROVE  /\ starts[i] = pc => MeansWhatItSays(source[i])
         /\ LET n == raw(source[i].args[2])
                a == source[i].args[1].value
            IN  starts[i] + 1 = pc /\ source[i].op = "movi" /\ rx[a] = U16(n - (n % Low))
                => Sets(a, n)
<1> DEFINE l == source[i]
<1>1. IInv /\ OutInv /\ MemInv /\ Cpu!CpuTypeOK /\ Cpu!Execute
  BY DEF ToolInv, MemInv, Tick
<1>2. /\ i \in 1 .. at - 1 /\ i \in 1 .. Len(source) /\ i \in DOMAIN starts
      /\ starts[i] \in Int /\ out \in Seq(0 .. W - 1) /\ Len(out) \in Nat
  BY <1>1 DEF OutInv, IInv, TypeOK, CountsInv
<1>3. l \in Line
  BY <1>1, <1>2, Lines DEF IInv
<1>4. pc \in 0 .. W - 1 /\ pc \in Nat /\ W \in Nat
  <2>1. pc \in 0 .. W - 1
    BY <1>1, SameWords DEF Cpu!CpuTypeOK
  <2> QED
    BY <2>1, WordCount
<1>5. ASSUME pc < Len(out)
      PROVE  mem[pc] = out[pc + 1]
  <2>1. mem[pc] = Cpu!Loaded(out)[pc]
    BY <1>1, <1>4 DEF MemInv
  <2> QED
    BY <1>4, <1>5, <2>1, SameWords DEF Cpu!Loaded
<1>6. CASE l.op \notin Told
  <2>1. MeansWhatItSays(l)
    BY <1>6 DEF MeansWhatItSays, Told
  <2>2. l.op # "movi"
    BY <1>6 DEF Told
  <2> QED
    BY <2>1, <2>2
<1>7. CASE l.op \in Told
  <2>1. Checked(l) /\ WrittenAt(l, starts[i])
    BY <1>1, <1>2, <1>7 DEF OutInv
  <2>2. PICK p \in Nat :
          /\ Short(p) = starts[i]
          /\ p < Len(out) /\ out[p + 1] = FirstWord(l, starts[i])
          /\ l.op = "movi" => p + 1 < Len(out) /\ out[p + 2] = SecondWord(l)
    BY <2>1 DEF WrittenAt
  <2>3. starts[i] = p \/ starts[i] = p - W
    <3>1. p < W
      BY <1>2, <1>4, <2>2
    <3> QED
      BY <2>2, <3>1, ShortInMemory
  <2>4. ASSUME starts[i] = pc PROVE MeansWhatItSays(l)
    <3>1. p = pc
      BY <1>2, <1>4, <2>2, <2>3, <2>4
    <3>2. mem[pc] = FirstWord(l, pc)
      BY <1>5, <2>2, <2>4, <3>1
    <3> QED
      BY <1>1, <1>3, <1>7, <2>1, <3>2, FirstWordMeans
  <2> DEFINE n == raw(l.args[2])
             a == l.args[1].value
  <2>5. ASSUME starts[i] + 1 = pc, l.op = "movi", rx[a] = U16(n - (n % Low))
        PROVE  Sets(a, n)
    <3>1. p + 1 = pc /\ pc < Len(out) /\ p + 2 = pc + 1
      <4>1. p + 1 < Len(out)
        BY <2>2, <2>5
      <4>2. starts[i] = p
        <5>1. CASE starts[i] = p - W
          <6>1. p - W + 1 >= 0 /\ p + 1 < W
            BY <1>2, <1>4, <2>5, <4>1, <5>1
          <6> QED
            BY <1>4, <6>1
        <5> QED
          BY <2>3, <5>1
      <4> QED
        BY <2>5, <4>1, <4>2
    <3>2. mem[pc] = SecondWord(l)
      BY <1>5, <2>2, <2>5, <3>1
    <3> QED
      BY <1>1, <1>3, <2>1, <2>5, <3>2, SecondWordMeans
  <2> QED
    BY <2>4, <2>5
<1> QED
  BY <1>6, <1>7

(* Programs run as they were written, for every source, number of          *)
(* registers, width and split of the memory, and whatever the bitwise and  *)
(* computes: the words one program puts together are those the other takes *)
(* apart, and what is done there is what the line says.                    *)
THEOREM ProgramsRunAsWritten == ToolSpec => RunsAsWritten
<1>1. ToolInv /\ ToolNext /\ loaded => Tick
  BY DEF ToolInv, MemInv, ToolNext, Assemble, Load, Next, CollectLine, RefuseLine, NoOpcode,
         Rewind, EmitLine, FailLine, Finish
<1>2. ToolInv /\ [ToolNext]_toolvars
        => [loaded /\ loaded' /\ pc < RomEnd /\ out # <<>> /\ Len(out) <= W =>
              \A i \in 1 .. at - 1 :
                /\ starts[i] = pc => MeansWhatItSays(source[i])
                /\ LET n == raw(source[i].args[2])
                       a == source[i].args[1].value
                   IN  starts[i] + 1 = pc /\ source[i].op = "movi" /\ rx[a] = U16(n - (n % Low))
                       => Sets(a, n)]_toolvars
  BY <1>1, RunningStep
<1> QED
  BY <1>2, ToolInvariance, PTL DEF ToolSpec, RunsAsWritten

=============================================================================
