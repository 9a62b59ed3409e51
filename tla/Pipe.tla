-------------------------------- MODULE Pipe --------------------------------
(***************************************************************************)
(* src/CS429/Lab4/C/pipe-full.hcl: the five-stage pipelined Y86-64         *)
(* processor with iaddq.  One step is one clock cycle; every definition    *)
(* down to Cycle is a signal of the file under the name it has there (an   *)
(* f_, d_, e_ or m_ signal belongs to a stage, F_, D_, E_, M_ and W_ are   *)
(* the registers in front of the stages).  The simulator stops as soon as  *)
(* Stat, the status of the instruction in write-back, is not SAOK; the     *)
(* instruction's address travels with it, as it does in the simulator.     *)
(***************************************************************************)
EXTENDS Y86

CONSTANTS Codes, Reg0, Mem0

\* Any programs.
ASSUME PipeAssumption ==
  /\ Reg0 \in [Reg -> Word]
  /\ \A c \in Codes : DOMAIN c \subseteq Word

VARIABLES code, F_predPC, D, E, M, W, reg, mem, cc

vars == <<code, F_predPC, D, E, M, W, reg, mem, cc>>

----------------------------------------------------------------------------
(* Bubbles: a nop of status SBUB. *)

BubbleD == [stat |-> "SBUB", icode |-> "INOP", ifun |-> "NONE", rA |-> RNONE,
            rB |-> RNONE, valC |-> 0, valP |-> 0, pc |-> 0]
BubbleE == [stat |-> "SBUB", icode |-> "INOP", ifun |-> "NONE", valC |-> 0, valA |-> 0,
            valB |-> 0, dstE |-> RNONE, dstM |-> RNONE, pc |-> 0]
BubbleM == [stat |-> "SBUB", icode |-> "INOP", Cnd |-> TRUE, valE |-> 0, valA |-> 0,
            dstE |-> RNONE, dstM |-> RNONE, pc |-> 0]
BubbleW == [stat |-> "SBUB", icode |-> "INOP", valE |-> 0, valM |-> 0,
            dstE |-> RNONE, dstM |-> RNONE, pc |-> 0]

----------------------------------------------------------------------------
(* Fetch *)

f_pc == IF M.icode = "IJXX" /\ ~M.Cnd THEN M.valA ELSE
        IF W.icode = "IRET" THEN W.valM ELSE F_predPC

imem_error == f_pc \notin DOMAIN code

f_icode == IF imem_error THEN "INOP" ELSE code[f_pc].icode
f_ifun == IF imem_error THEN "NONE" ELSE code[f_pc].ifun

instr_valid == f_icode \in Icode

f_stat == CASE imem_error        -> "SADR"
            [] ~instr_valid      -> "SINS"
            [] f_icode = "IHALT" -> "SHLT"
            [] OTHER             -> "SAOK"

need_regids == f_icode \in {"IRRMOVQ", "IOPQ", "IPUSHQ", "IPOPQ",
                            "IIRMOVQ", "IRMMOVQ", "IMRMOVQ", "IIADDQ"}
need_valC == f_icode \in {"IIRMOVQ", "IRMMOVQ", "IMRMOVQ", "IJXX", "ICALL", "IIADDQ"}

f_valC == IF need_valC THEN code[f_pc].valC ELSE 0
f_valP == (f_pc + 1 + (IF need_regids THEN 1 ELSE 0) + (IF need_valC THEN 1 ELSE 0)) % WordMod

f_predPC == IF f_icode \in {"IJXX", "ICALL"} THEN f_valC ELSE f_valP

Fetched ==
  [stat |-> f_stat, icode |-> f_icode, ifun |-> f_ifun,
   rA |-> IF need_regids THEN code[f_pc].rA ELSE RNONE,
   rB |-> IF need_regids THEN code[f_pc].rB ELSE RNONE,
   valC |-> f_valC, valP |-> f_valP, pc |-> f_pc]

----------------------------------------------------------------------------
(* Memory: what decode and execute look ahead to *)

mem_addr == CASE M.icode \in {"IRMMOVQ", "IPUSHQ", "ICALL", "IMRMOVQ"} -> M.valE
              [] M.icode \in {"IPOPQ", "IRET"} -> M.valA
              [] OTHER -> 0
mem_read == M.icode \in {"IMRMOVQ", "IPOPQ", "IRET"}
mem_write == M.icode \in {"IRMMOVQ", "IPUSHQ", "ICALL"}
dmem_error == (mem_read \/ mem_write) /\ mem_addr \notin Addr
m_valM == Loaded(mem, mem_read, mem_addr)
m_stat == IF dmem_error THEN "SADR" ELSE M.stat

----------------------------------------------------------------------------
(* Execute *)

aluA == CASE E.icode \in {"IRRMOVQ", "IOPQ"} -> E.valA
          [] E.icode \in {"IIRMOVQ", "IRMMOVQ", "IMRMOVQ", "IIADDQ"} -> E.valC
          [] E.icode \in {"ICALL", "IPUSHQ"} -> -1
          [] E.icode \in {"IRET", "IPOPQ"} -> 1
          [] OTHER -> 0
aluB == IF E.icode \in {"IRMMOVQ", "IMRMOVQ", "IOPQ", "ICALL", "IPUSHQ", "IRET", "IPOPQ", "IIADDQ"}
        THEN E.valB ELSE 0
alufun == IF E.icode = "IOPQ" THEN E.ifun ELSE "ADD"
e_valE == ALU(alufun, aluA, aluB)
e_Cnd == Cond(E.ifun, cc)
e_dstE == IF E.icode = "IRRMOVQ" /\ ~e_Cnd THEN RNONE ELSE E.dstE

set_cc == /\ E.icode \in {"IOPQ", "IIADDQ"}
          /\ m_stat \notin Exceptions /\ W.stat \notin Exceptions

----------------------------------------------------------------------------
(* Decode *)

d_srcA == CASE D.icode \in {"IRRMOVQ", "IRMMOVQ", "IOPQ", "IPUSHQ"} -> D.rA
            [] D.icode \in {"IPOPQ", "IRET"} -> RRSP
            [] OTHER -> RNONE
d_srcB == CASE D.icode \in {"IOPQ", "IRMMOVQ", "IMRMOVQ", "IIADDQ"} -> D.rB
            [] D.icode \in {"IPUSHQ", "IPOPQ", "ICALL", "IRET"} -> RRSP
            [] OTHER -> RNONE
d_dstE == CASE D.icode \in {"IRRMOVQ", "IIRMOVQ", "IOPQ", "IIADDQ"} -> D.rB
            [] D.icode \in {"IPUSHQ", "IPOPQ", "ICALL", "IRET"} -> RRSP
            [] OTHER -> RNONE
d_dstM == IF D.icode \in {"IMRMOVQ", "IPOPQ"} THEN D.rA ELSE RNONE

d_valA == IF D.icode \in {"ICALL", "IJXX"} THEN D.valP ELSE
          IF d_srcA = e_dstE THEN e_valE ELSE
          IF d_srcA = M.dstM THEN m_valM ELSE
          IF d_srcA = M.dstE THEN M.valE ELSE
          IF d_srcA = W.dstM THEN W.valM ELSE
          IF d_srcA = W.dstE THEN W.valE ELSE Value(reg, d_srcA)
d_valB == IF d_srcB = e_dstE THEN e_valE ELSE
          IF d_srcB = M.dstM THEN m_valM ELSE
          IF d_srcB = M.dstE THEN M.valE ELSE
          IF d_srcB = W.dstM THEN W.valM ELSE
          IF d_srcB = W.dstE THEN W.valE ELSE Value(reg, d_srcB)

Decoded ==
  [stat |-> D.stat, icode |-> D.icode, ifun |-> D.ifun, valC |-> D.valC, valA |-> d_valA,
   valB |-> d_valB, dstE |-> d_dstE, dstM |-> d_dstM, pc |-> D.pc]
Executed ==
  [stat |-> E.stat, icode |-> E.icode, Cnd |-> e_Cnd, valE |-> e_valE, valA |-> E.valA,
   dstE |-> e_dstE, dstM |-> E.dstM, pc |-> E.pc]
Accessed ==
  [stat |-> m_stat, icode |-> M.icode, valE |-> M.valE, valM |-> m_valM,
   dstE |-> M.dstE, dstM |-> M.dstM, pc |-> M.pc]

Stat == IF W.stat = "SBUB" THEN "SAOK" ELSE W.stat

----------------------------------------------------------------------------
(* Pipeline register control *)

\* Mutant: only the operand of the A port counts as a use.
LoadUseA == E.icode \in {"IMRMOVQ", "IPOPQ"} /\ E.dstM = d_srcA
\* Mutant: the load is looked for in decode, where its own operands stall it.
LoadUseItself == D.icode \in {"IMRMOVQ", "IPOPQ"} /\ d_dstM \in {d_srcA, d_srcB}
LoadUse == E.icode \in {"IMRMOVQ", "IPOPQ"} /\ E.dstM \in {d_srcA, d_srcB}
Mispredicted == E.icode = "IJXX" /\ ~e_Cnd
Returning == "IRET" \in {D.icode, E.icode, M.icode}

F_stall == LoadUse \/ Returning
D_stall == LoadUse
\* Mutant: the textbook's first version, without the combination of a load
\* and a ret that uses its result.
D_bubbleFirst == Mispredicted \/ Returning
D_bubble == Mispredicted \/ (~LoadUse /\ Returning)
E_bubble == Mispredicted \/ LoadUse
M_bubble == m_stat \in Exceptions \/ W.stat \in Exceptions
W_stall == W.stat \in Exceptions

Init ==
  /\ code \in Codes
  /\ F_predPC = 0
  /\ D = BubbleD /\ E = BubbleE /\ M = BubbleM /\ W = BubbleW
  /\ reg = Reg0 /\ mem = Mem0 /\ cc = TRUE

Cycle ==
  /\ Stat = "SAOK"
  /\ F_predPC' = IF F_stall THEN F_predPC ELSE f_predPC
  /\ D' = IF D_stall THEN D ELSE IF D_bubble THEN BubbleD ELSE Fetched
  /\ E' = IF E_bubble THEN BubbleE ELSE Decoded
  /\ M' = IF M_bubble THEN BubbleM ELSE Executed
  /\ W' = IF W_stall THEN W ELSE Accessed
  /\ reg' = Written(reg, W.dstE, W.valE, W.dstM, W.valM)
  /\ mem' = Stored(mem, mem_write, mem_addr, M.valA)
  /\ cc' = IF set_cc THEN e_valE = 0 ELSE cc
  /\ UNCHANGED code

\* The clock does not stop.
Spec == Init /\ [][Cycle]_vars /\ WF_vars(Cycle)

----------------------------------------------------------------------------
(* Properties *)

\* "At most one of these can be true" (pipe-full.hcl:331, 341, 356): no
\* register is told to stall and to take a bubble at once.  A load whose
\* result a ret needs is where the two conditions meet.
AtMostOne == ~(D_stall /\ D_bubble)

\* Instructions reach write-back for ever, unless one has stopped the machine:
\* no stall waits for itself.
KeepsRetiring == []<>(W.stat # "SBUB")

\* The state a programmer sees: everything up to the instruction in memory
\* has been executed, nothing behind it has.
Seen ==
  LET upToW == Written(reg, W.dstE, W.valE, W.dstM, W.valM)
  IN  CASE W.stat \in Exceptions ->
             [pc |-> W.pc, reg |-> reg, mem |-> mem, stat |-> W.stat]
        [] W.stat \notin Exceptions /\ m_stat \in Exceptions ->
             [pc |-> M.pc, reg |-> upToW, mem |-> mem, stat |-> m_stat]
        [] OTHER ->
             [pc |-> IF M.icode = "IRET" THEN m_valM
                     ELSE IF E.stat # "SBUB" THEN E.pc
                     ELSE IF D.stat # "SBUB" THEN D.pc ELSE f_pc,
              reg |-> Written(upToW, M.dstE, M.valE, M.dstM, m_valM),
              mem |-> Stored(mem, mem_write, mem_addr, M.valA),
              stat |-> "SAOK"]

SEQ == INSTANCE Seq WITH pc <- Seen.pc, reg <- Seen.reg, mem <- Seen.mem, stat <- Seen.stat

ReadsA == {"IRRMOVQ", "IRMMOVQ", "IOPQ", "IPUSHQ"}
ReadsB == {"IOPQ", "IRMMOVQ", "IMRMOVQ", "IIADDQ"}

\* The instruction in execute reads a register and names none (a load or store
\* without a base).  Forwarding compares RNONE like a register (pipe-full.hcl,
\* d_valA and d_valB), so that it has taken for its operand what an instruction
\* in front computed and wrote to no register; the register file answers 0.
Strays ==
  \/ E.icode \in ReadsA /\ code[E.pc].rA \notin Reg /\ E.valA # 0
  \/ E.icode \in ReadsB /\ code[E.pc].rB \notin Reg /\ E.valB # 0

\* The pipelined processor is the sequential one: forwarding, stalls, wrong
\* guesses of a jump, ret and exceptions with younger instructions behind them
\* change registers, memory, condition codes and status as if every
\* instruction ran alone.  Only an instruction that strays may do otherwise.
Sequential == SEQ!Init /\ [][SEQ!Next \/ Strays]_(SEQ!vars)
=============================================================================
