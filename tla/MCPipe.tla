------------------------------ MODULE MCPipe ------------------------------
EXTENDS Pipe

Registers == {"rsp", "rax"}
SmallAddr == 0 .. 3
FirstReg == [r \in Registers |-> IF r = "rsp" THEN 2 ELSE 1]
FirstMem == [a \in SmallAddr |-> 0]

\* The instructions a program of three is made of, jumps to instruction n.
Any ==
  {Instr("INOP", "NONE", RNONE, RNONE, 0), Instr("IHALT", "NONE", RNONE, RNONE, 0),
   Instr("IBAD", "NONE", RNONE, RNONE, 0), Instr("IRET", "NONE", RNONE, RNONE, 0),
   Instr("IRRMOVQ", "NE", "rsp", "rax", 0), Instr("IRRMOVQ", "YES", "rax", "rsp", 0),
   Instr("IIRMOVQ", "NONE", RNONE, "rax", 3), Instr("IIADDQ", "NONE", RNONE, "rax", 15),
   Instr("IIADDQ", "NONE", RNONE, "rsp", 15),
   Instr("IRMMOVQ", "NONE", "rax", "rsp", 0), Instr("IMRMOVQ", "NONE", "rsp", "rax", 1),
   Instr("IMRMOVQ", "NONE", "rax", "rsp", 0), Instr("IMRMOVQ", "NONE", "rax", RNONE, 1),
   Instr("IRMMOVQ", "NONE", "rax", RNONE, 1), Instr("IOPQ", "SUB", "rax", "rax", 0),
   Instr("IOPQ", "ADD", "rsp", "rax", 0), Instr("IPUSHQ", "NONE", "rsp", RNONE, 0),
   Instr("IPOPQ", "NONE", "rax", RNONE, 0), Instr("IPOPQ", "NONE", "rsp", RNONE, 0)}
  \cup {Instr("IJXX", fun, RNONE, RNONE, n) : fun \in {"NE", "YES"}, n \in {1, 3}}
  \cup {Instr("ICALL", "NONE", RNONE, RNONE, n) : n \in {1, 3}}

Three == [1 .. 3 -> Any]

\* Four of fewer kinds, so that a result is used two and three instructions on.
Few == {i \in Any : i.icode \notin {"INOP", "IBAD", "IRRMOVQ", "IIRMOVQ", "IOPQ"}
                   /\ (i.icode \in {"IJXX", "ICALL"} => i.valC = 3 /\ i.ifun # "YES")}
Four == [1 .. 4 -> Few]

\* Longer ones: the two combinations of hazards, and exceptions with an
\* instruction behind them that would set the codes or write to memory.
Nop == Instr("INOP", "NONE", RNONE, RNONE, 0)
Ret == Instr("IRET", "NONE", RNONE, RNONE, 0)
Sub == Instr("IOPQ", "SUB", "rax", "rax", 0)
Push == Instr("IPUSHQ", "NONE", "rax", RNONE, 0)
Pops == {Instr("IPOPQ", "NONE", r, RNONE, 0) : r \in Registers}
Jumps == {Instr("IJXX", fun, RNONE, RNONE, n) : fun \in {"E", "NE"}, n \in {1, 4, 5}}
Five == {<<a, b, c, d, e>> : a \in {Sub, Push}, b \in Jumps \cup {Push}, c \in Pops \cup {Ret, Sub},
                             d \in Jumps \cup {Ret, Push}, e \in {Ret, Sub, Nop}}

SmallCodes == {Assemble(p) : p \in Three \cup Four \cup Five}
=============================================================================
