-------------------------------- MODULE Y86 --------------------------------
(***************************************************************************)
(* What the two Y86-64 processors of src/CS429/Lab4 share and the labs'    *)
(* simulator provides (it is not in the repository): the instruction set,  *)
(* the ALU, the condition codes, the register file and the data memory.    *)
(* A word, a register number and an opcode take one address each instead   *)
(* of eight bytes, one byte and one byte.  Of the condition codes only ZF  *)
(* is kept, and instructions lie in a memory of their own.                 *)
(***************************************************************************)
EXTENDS Integers, Sequences, FiniteSets, Functions

CONSTANTS Reg,       \* the registers
          RRSP,      \* the stack pointer, one of them
          RNONE,     \* "no register"
          WordMod,   \* words are 0 .. WordMod - 1
          Addr       \* the data addresses that exist

ASSUME Y86Assumption ==
  /\ RRSP \in Reg /\ RNONE \notin Reg
  /\ WordMod \in Nat \ {0}
  /\ Addr \subseteq 0 .. WordMod - 1

Word == 0 .. WordMod - 1

Icode == {"INOP", "IHALT", "IRRMOVQ", "IIRMOVQ", "IRMMOVQ", "IMRMOVQ", "IOPQ",
          "IJXX", "ICALL", "IRET", "IPUSHQ", "IPOPQ", "IIADDQ"}

\* SADR, SINS and SHLT stop the machine.
Exceptions == {"SADR", "SINS", "SHLT"}

\* An instruction as it lies in memory; "IBAD" stands for every other byte.
Instr(icode, ifun, rA, rB, valC) ==
  [icode |-> icode, ifun |-> ifun, rA |-> rA, rB |-> rB, valC |-> valC]

\* The addresses an instruction takes up: its encoding in the Y86-64 manual.
Size(i) ==
  CASE i.icode \in {"INOP", "IHALT", "IRET", "IBAD"}       -> 1
    [] i.icode \in {"IRRMOVQ", "IOPQ", "IPUSHQ", "IPOPQ"}  -> 2
    [] i.icode \in {"IJXX", "ICALL"}                       -> 2
    [] OTHER                                               -> 3

\* The assembler: a program's instructions one after the other, the targets
\* of its jumps and calls being numbers of instructions.
AddressOf(prog, n) ==
  LET at[k \in 1 .. Len(prog)] == IF k = 1 THEN 0 ELSE at[k - 1] + Size(prog[k - 1])
  IN  at[n]

Assemble(prog) ==
  [a \in {AddressOf(prog, n) : n \in DOMAIN prog} |->
     LET i == prog[CHOOSE n \in DOMAIN prog : AddressOf(prog, n) = a]
     IN  IF i.icode \in {"IJXX", "ICALL"}
         THEN [i EXCEPT !.valC = AddressOf(prog, i.valC)] ELSE i]

ALU(fun, a, b) == (IF fun = "SUB" THEN b - a ELSE b + a) % WordMod

Cond(fun, cc) == CASE fun = "E" -> cc [] fun = "NE" -> ~cc [] OTHER -> TRUE

\* A write to RNONE has no effect; of two writes to one register the memory
\* port's is the later one.
Written(reg, dstE, valE, dstM, valM) ==
  [r \in Reg |-> IF r = dstM THEN valM ELSE IF r = dstE THEN valE ELSE reg[r]]

Value(reg, r) == IF r \in Reg THEN reg[r] ELSE 0

Loaded(mem, read, a) == IF read /\ a \in Addr THEN mem[a] ELSE 0

Stored(mem, write, a, v) == IF write /\ a \in Addr THEN [mem EXCEPT ![a] = v] ELSE mem
=============================================================================
