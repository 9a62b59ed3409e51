----------------------------- MODULE PipeProofs -----------------------------
(***************************************************************************)
(* Proofs about Pipe.  The invariant says what the registers in front of   *)
(* decode and execute hold while no exception has shown: bubbles, or the   *)
(* instructions that follow the one in memory in the order of the program, *)
(* with the operands they would read if all before them had ended.         *)
(***************************************************************************)
EXTENDS Pipe, TLAPS

----------------------------------------------------------------------------
(* What fetch makes of the instruction at an address. *)

NeedRegids(i) == i \in {"IRRMOVQ", "IOPQ", "IPUSHQ", "IPOPQ",
                        "IIRMOVQ", "IRMMOVQ", "IMRMOVQ", "IIADDQ"}
NeedValC(i) == i \in {"IIRMOVQ", "IRMMOVQ", "IMRMOVQ", "IJXX", "ICALL", "IIADDQ"}

IcodeAt(a) == IF a \notin DOMAIN code THEN "INOP" ELSE code[a].icode

StatAt(a) == CASE a \notin DOMAIN code   -> "SADR"
               [] IcodeAt(a) \notin Icode -> "SINS"
               [] IcodeAt(a) = "IHALT"    -> "SHLT"
               [] OTHER                   -> "SAOK"

InstrAt(a) ==
  [stat |-> StatAt(a), icode |-> IcodeAt(a),
   ifun |-> IF a \notin DOMAIN code THEN "NONE" ELSE code[a].ifun,
   rA |-> IF NeedRegids(IcodeAt(a)) THEN code[a].rA ELSE RNONE,
   rB |-> IF NeedRegids(IcodeAt(a)) THEN code[a].rB ELSE RNONE,
   valC |-> IF NeedValC(IcodeAt(a)) THEN code[a].valC ELSE 0,
   valP |-> (a + 1 + (IF NeedRegids(IcodeAt(a)) THEN 1 ELSE 0)
               + (IF NeedValC(IcodeAt(a)) THEN 1 ELSE 0)) % WordMod,
   pc |-> a]

(* Where fetch goes on after it, and what it reads and writes. *)
Predicted(i) == IF i.icode \in {"IJXX", "ICALL"} THEN i.valC ELSE i.valP

SrcA(i) == CASE i.icode \in {"IRRMOVQ", "IRMMOVQ", "IOPQ", "IPUSHQ"} -> i.rA
             [] i.icode \in {"IPOPQ", "IRET"} -> RRSP
             [] OTHER -> RNONE
SrcB(i) == CASE i.icode \in {"IOPQ", "IRMMOVQ", "IMRMOVQ", "IIADDQ"} -> i.rB
             [] i.icode \in {"IPUSHQ", "IPOPQ", "ICALL", "IRET"} -> RRSP
             [] OTHER -> RNONE
DstE(i) == CASE i.icode \in {"IRRMOVQ", "IIRMOVQ", "IOPQ", "IIADDQ"} -> i.rB
             [] i.icode \in {"IPUSHQ", "IPOPQ", "ICALL", "IRET"} -> RRSP
             [] OTHER -> RNONE
DstM(i) == IF i.icode \in {"IMRMOVQ", "IPOPQ"} THEN i.rA ELSE RNONE

----------------------------------------------------------------------------
(* The invariant *)

EmptyD == D.stat = "SBUB" /\ D.icode = "INOP"
EmptyE == E.stat = "SBUB" /\ E.icode = "INOP" /\ E.dstE = RNONE /\ E.dstM = RNONE
EmptyM == M.stat = "SBUB" /\ M.icode = "INOP"

\* The registers after the instructions in write-back and memory.
UpToW == Written(reg, W.dstE, W.valE, W.dstM, W.valM)
UpToM == Written(UpToW, M.dstE, M.valE, M.dstM, m_valM)

\* No exception has reached the memory stage.
Running == W.stat \notin Exceptions /\ m_stat \notin Exceptions

InDecode == EmptyD \/ D = InstrAt(D.pc)

HoldsInstr(i) ==
  /\ E.stat = i.stat /\ E.icode = i.icode /\ E.ifun = i.ifun /\ E.valC = i.valC
  /\ E.dstE = DstE(i) /\ E.dstM = DstM(i)

HoldsOperands(i) ==
  /\ i.icode \in {"ICALL", "IJXX"} => E.valA = i.valP
  /\ i.icode \notin {"ICALL", "IJXX"} /\ SrcA(i) \in Reg => E.valA = UpToM[SrcA(i)]
  /\ SrcB(i) \in Reg => E.valB = UpToM[SrcB(i)]

InExecute == EmptyE \/ (HoldsInstr(InstrAt(E.pc)) /\ HoldsOperands(InstrAt(E.pc)))

\* Fetch follows the prediction, unless a jump or a ret in front corrects it;
\* then nothing wrong is left behind the jump or the ret.
InOrder ==
  /\ (M.icode = "IJXX" /\ ~ M.Cnd) \/ M.icode = "IRET" \/ W.icode = "IRET" => EmptyD /\ EmptyE
  /\ W.icode = "IRET" => EmptyM
  /\ E.icode = "IRET" => EmptyD
  /\ ~ EmptyE /\ E.icode # "IRET" =>
       (IF EmptyD THEN F_predPC ELSE D.pc) = Predicted(InstrAt(E.pc))
  /\ ~ EmptyD /\ D.icode # "IRET" => F_predPC = Predicted(InstrAt(D.pc))

\* An instruction that is not to be executed writes nothing.
Harmless == M.stat \in Exceptions => ~ mem_write

Program == code \in Codes

IInv == Program /\ Harmless /\ (Running => InDecode /\ InExecute /\ InOrder)

----------------------------------------------------------------------------
(* Signals *)

(* What fetch puts into D is the instruction at f_pc, and the address it   *)
(* predicts is the one Predicted names.                                    *)
LEMMA FetchIs == /\ Fetched = InstrAt(f_pc)
                 /\ f_predPC = Predicted(InstrAt(f_pc))
<1>1. f_icode = IcodeAt(f_pc) /\ f_stat = StatAt(f_pc)
  BY DEF f_icode, IcodeAt, imem_error, f_stat, StatAt, instr_valid
<1>2. need_regids = NeedRegids(IcodeAt(f_pc)) /\ need_valC = NeedValC(IcodeAt(f_pc))
  BY <1>1 DEF need_regids, need_valC, NeedRegids, NeedValC
<1>3. f_valC = InstrAt(f_pc).valC /\ f_valP = InstrAt(f_pc).valP
  BY <1>2 DEF f_valC, f_valP, InstrAt
<1>4. Fetched = InstrAt(f_pc)
  BY <1>1, <1>2, <1>3 DEF Fetched, InstrAt, f_ifun, imem_error
<1>5. f_predPC = Predicted(InstrAt(f_pc))
  BY <1>1, <1>3 DEF f_predPC, Predicted, InstrAt
<1> QED
  BY <1>4, <1>5

(* No instruction has the status of a bubble, and one with an exception    *)
(* touches no memory.                                                      *)
LEMMA InstrFacts ==
  ASSUME NEW a
  PROVE  /\ InstrAt(a).pc = a
         /\ InstrAt(a).stat \in Exceptions \cup {"SAOK"}
         /\ InstrAt(a).stat # "SBUB"
         /\ InstrAt(a).stat \in Exceptions =>
              InstrAt(a).icode \in {"INOP", "IHALT"} \/ InstrAt(a).icode \notin Icode
<1>1. InstrAt(a).pc = a /\ InstrAt(a).stat = StatAt(a) /\ InstrAt(a).icode = IcodeAt(a)
  BY DEF InstrAt
<1>2. /\ StatAt(a) \in Exceptions \cup {"SAOK"} /\ StatAt(a) # "SBUB"
      /\ StatAt(a) \in Exceptions =>
           IcodeAt(a) \in {"INOP", "IHALT"} \/ IcodeAt(a) \notin Icode
  BY DEF StatAt, Exceptions, IcodeAt
<1> QED
  BY <1>1, <1>2

(* The operands of the instruction in execute, unless it strays: what it   *)
(* reads of a register is in front of it, what it reads of none is zero.   *)
LEMMA Operands ==
  ASSUME InExecute, ~ EmptyE, ~ Strays
  PROVE  LET i == InstrAt(E.pc) IN
         /\ i.icode \in {"IRRMOVQ", "IRMMOVQ", "IOPQ", "IPUSHQ", "IPOPQ", "IRET"} =>
              E.valA = IF SrcA(i) \in Reg THEN UpToM[SrcA(i)] ELSE 0
         /\ i.icode \in {"IOPQ", "IRMMOVQ", "IMRMOVQ", "IIADDQ",
                         "IPUSHQ", "IPOPQ", "ICALL", "IRET"} =>
              E.valB = IF SrcB(i) \in Reg THEN UpToM[SrcB(i)] ELSE 0
<1> DEFINE i == InstrAt(E.pc)
<1>1. HoldsInstr(i) /\ HoldsOperands(i)
  BY DEF InExecute
<1>2. /\ i.icode = IcodeAt(E.pc)
      /\ i.rA = (IF NeedRegids(IcodeAt(E.pc)) THEN code[E.pc].rA ELSE RNONE)
      /\ i.rB = (IF NeedRegids(IcodeAt(E.pc)) THEN code[E.pc].rB ELSE RNONE)
  BY DEF InstrAt
<1> HIDE DEF i
<1>3. E.icode = i.icode
  BY <1>1 DEF HoldsInstr
<1>4. i.icode \in ReadsA => SrcA(i) = code[E.pc].rA /\ (SrcA(i) \notin Reg => E.valA = 0)
  BY <1>2, <1>3 DEF ReadsA, SrcA, NeedRegids, Strays
<1>5. i.icode \in ReadsB => SrcB(i) = code[E.pc].rB /\ (SrcB(i) \notin Reg => E.valB = 0)
  BY <1>2, <1>3 DEF ReadsB, SrcB, NeedRegids, Strays
<1>6. i.icode \in {"IPOPQ", "IRET"} => SrcA(i) \in Reg
  BY Y86Assumption DEF SrcA
<1>7. i.icode \in {"IPUSHQ", "IPOPQ", "ICALL", "IRET"} => SrcB(i) \in Reg
  BY Y86Assumption DEF SrcB
<1> QED
  BY <1>1, <1>4, <1>5, <1>6, <1>7 DEF HoldsOperands, ReadsA, ReadsB, i

(* The register file after one write-back. *)
LEMMA WrittenAt ==
  ASSUME NEW regs, NEW de, NEW ve, NEW dm, NEW vm, NEW r \in Reg
  PROVE  Written(regs, de, ve, dm, vm)[r] =
           IF r = dm THEN vm ELSE IF r = de THEN ve ELSE regs[r]
  BY DEF Written

(* Decode reads an operand as the register file will have it once          *)
(* everything in front has ended, unless a load in front is yet to bring   *)
(* it: the order of forwarding is the order of the stages, memory's port   *)
(* before the ALU's.                                                       *)
LEMMA Forwarding ==
  ASSUME NEW r \in Reg, r # E.dstM, NEW v
  PROVE  LET forwarded == IF r = e_dstE THEN e_valE ELSE
                          IF r = M.dstM THEN m_valM ELSE
                          IF r = M.dstE THEN M.valE ELSE
                          IF r = W.dstM THEN W.valM ELSE
                          IF r = W.dstE THEN W.valE ELSE Value(reg, r)
         IN  forwarded = Written(UpToM, e_dstE, e_valE, E.dstM, v)[r]
<1>1. UpToW[r] = IF r = W.dstM THEN W.valM ELSE IF r = W.dstE THEN W.valE ELSE Value(reg, r)
  BY WrittenAt DEF UpToW, Value
<1>2. UpToM[r] = IF r = M.dstM THEN m_valM ELSE IF r = M.dstE THEN M.valE ELSE UpToW[r]
  BY WrittenAt DEF UpToM
<1>3. Written(UpToM, e_dstE, e_valE, E.dstM, v)[r] = IF r = e_dstE THEN e_valE ELSE UpToM[r]
  BY WrittenAt
<1> QED
  BY <1>1, <1>2, <1>3

----------------------------------------------------------------------------
(* One cycle *)

(* A cycle begins only if write-back holds no exception.                   *)
LEMMA NoException == Cycle => W.stat \notin Exceptions
  BY DEF Cycle, Stat, Exceptions

(* What a cycle moves into write-back and memory, in a state without       *)
(* exceptions.                                                             *)
LEMMA Moves ==
  ASSUME Running, Cycle
  PROVE  /\ W' = Accessed /\ M' = Executed /\ UpToW' = UpToM
         /\ mem' = Seen.mem /\ code' = code
         /\ Seen.reg = UpToM /\ Seen.stat = "SAOK"
         /\ W'.stat \notin Exceptions /\ W'.icode = M.icode
<1>1. W' = Accessed /\ M' = Executed /\ code' = code
  BY DEF Running, Cycle, W_stall, M_bubble
<1>2. /\ W'.stat = m_stat /\ W'.icode = M.icode /\ W'.dstE = M.dstE /\ W'.valE = M.valE
      /\ W'.dstM = M.dstM /\ W'.valM = m_valM
  BY <1>1 DEF Accessed
<1>3. reg' = UpToW
  BY DEF Cycle, UpToW
<1>4. UpToW' = UpToM
  BY <1>2, <1>3 DEF UpToW, UpToM
<1>5. Seen.reg = UpToM /\ Seen.stat = "SAOK" /\ Seen.mem = Stored(mem, mem_write, mem_addr, M.valA)
  BY DEF Seen, Running, UpToM, UpToW
<1>6. mem' = Seen.mem
  BY <1>5 DEF Cycle
<1> QED
  BY <1>1, <1>2, <1>4, <1>5, <1>6 DEF Running

(* The state in which everything in front of execute has been executed and *)
(* something waits in execute.                                             *)
LEMMA SeenPc ==
  ASSUME Running, InOrder
  PROVE  /\ E.stat # "SBUB" /\ ~ EmptyE => Seen.pc = E.pc
         /\ M.icode = "IRET" => Seen.pc = m_valM
         /\ EmptyE /\ M.icode # "IRET" /\ D.stat # "SBUB" => Seen.pc = D.pc
         /\ EmptyE /\ M.icode # "IRET" /\ D.stat = "SBUB" => Seen.pc = f_pc
<1>1. Seen.pc = IF M.icode = "IRET" THEN m_valM
                ELSE IF E.stat # "SBUB" THEN E.pc
                ELSE IF D.stat # "SBUB" THEN D.pc ELSE f_pc
  BY DEF Seen, Running
<1>2. M.icode = "IRET" => EmptyE
  BY DEF InOrder
<1> QED
  BY <1>1, <1>2 DEF EmptyE

(* Both processors use the simulator's operators.                          *)
LEMMA SameOperators ==
  /\ SEQ!Icode = Icode
  /\ \A f, a, b : SEQ!ALU(f, a, b) = ALU(f, a, b)
  /\ \A r, a : SEQ!Value(r, a) = Value(r, a)
  /\ \A r, de, ve, dm, vm : SEQ!Written(r, de, ve, dm, vm) = Written(r, de, ve, dm, vm)
  /\ \A m, read, a : SEQ!Loaded(m, read, a) = Loaded(m, read, a)
  /\ \A m, write, a, v : SEQ!Stored(m, write, a, v) = Stored(m, write, a, v)
<1>1. SEQ!Icode = Icode
  BY DEF SEQ!Icode, Icode
<1>2. \A f, a, b : SEQ!ALU(f, a, b) = ALU(f, a, b)
  BY DEF SEQ!ALU, ALU
<1>3. \A r, a : SEQ!Value(r, a) = Value(r, a)
  BY DEF SEQ!Value, Value
<1>4. \A r, de, ve, dm, vm : SEQ!Written(r, de, ve, dm, vm) = Written(r, de, ve, dm, vm)
  BY DEF SEQ!Written, Written
<1>5. \A m, read, a : SEQ!Loaded(m, read, a) = Loaded(m, read, a)
  BY DEF SEQ!Loaded, Loaded
<1>6. \A m, write, a, v : SEQ!Stored(m, write, a, v) = Stored(m, write, a, v)
  BY DEF SEQ!Stored, Stored
<1> QED
  BY <1>1, <1>2, <1>3, <1>4, <1>5, <1>6

(* The sequential processor's signals for the instruction in execute are   *)
(* the pipeline's.                                                         *)
LEMMA SeqFetches ==
  ASSUME NEW a, a = Seen.pc
  PROVE  /\ SEQ!icode = InstrAt(a).icode
         /\ SEQ!ifun = InstrAt(a).ifun
         /\ SEQ!rA = InstrAt(a).rA /\ SEQ!rB = InstrAt(a).rB
         /\ SEQ!valC = InstrAt(a).valC /\ SEQ!valP = InstrAt(a).valP
         /\ (SEQ!imem_error => InstrAt(a).stat = "SADR" /\ InstrAt(a).icode = "INOP")
         /\ (~ SEQ!imem_error => InstrAt(a).stat = IF ~ SEQ!instr_valid THEN "SINS"
                                                ELSE IF SEQ!icode = "IHALT" THEN "SHLT"
                                                ELSE "SAOK")
<1> DEFINE i == InstrAt(a)
<1>1. SEQ!icode = IcodeAt(a)
  BY DEF SEQ!icode, SEQ!imem_error, IcodeAt
<1>2. SEQ!need_regids = NeedRegids(IcodeAt(a)) /\ SEQ!need_valC = NeedValC(IcodeAt(a))
  BY <1>1 DEF SEQ!need_regids, SEQ!need_valC, NeedRegids, NeedValC
<1>3. i.icode = IcodeAt(a) /\ i.ifun = SEQ!ifun /\ i.rA = SEQ!rA /\ i.rB = SEQ!rB /\ i.valC = SEQ!valC
  BY <1>2 DEF InstrAt, SEQ!ifun, SEQ!imem_error, SEQ!rA, SEQ!rB, SEQ!valC
<1>4. i.valP = SEQ!valP
  BY <1>2 DEF InstrAt, SEQ!valP
<1>5. i.stat = StatAt(a)
  BY DEF InstrAt
<1>6. /\ SEQ!imem_error => StatAt(a) = "SADR" /\ IcodeAt(a) = "INOP"
      /\ ~ SEQ!imem_error => StatAt(a) = IF ~ SEQ!instr_valid THEN "SINS"
                                       ELSE IF SEQ!icode = "IHALT" THEN "SHLT" ELSE "SAOK"
  <2>1. SEQ!imem_error => StatAt(a) = "SADR" /\ IcodeAt(a) = "INOP"
    BY DEF SEQ!imem_error, StatAt, IcodeAt, Icode
  <2>2. SEQ!instr_valid <=> IcodeAt(a) \in Icode
    BY <1>1, SameOperators DEF SEQ!instr_valid
  <2>3. SEQ!imem_error <=> a \notin DOMAIN code
    BY DEF SEQ!imem_error
  <2> QED
    BY <1>1, <2>1, <2>2, <2>3 DEF StatAt, Icode
<1> QED
  BY <1>1, <1>3, <1>4, <1>5, <1>6

(* Where execute holds an instruction, its signals are the sequential ones. *)
LEMMA SeqExecutes ==
  ASSUME Running, InExecute, ~ EmptyE, ~ Strays, Seen.pc = E.pc, Seen.reg = UpToM
  PROVE  /\ SEQ!icode = E.icode
         /\ SEQ!valE = e_valE /\ SEQ!dstE = e_dstE /\ SEQ!dstM = E.dstM
         /\ (SEQ!Cnd <=> e_Cnd) /\ (SEQ!set_cc <=> set_cc)
         /\ E.icode \in {"IRMMOVQ", "IPUSHQ", "IPOPQ", "IRET"} => SEQ!valA = E.valA
         /\ E.icode \in {"ICALL", "IJXX"} => SEQ!valP = E.valA
<1> DEFINE i == InstrAt(E.pc)
<1>1. HoldsInstr(i) /\ HoldsOperands(i)
  BY DEF InExecute
<1>2. /\ SEQ!icode = i.icode /\ SEQ!ifun = i.ifun /\ SEQ!rA = i.rA /\ SEQ!rB = i.rB
      /\ SEQ!valC = i.valC /\ SEQ!valP = i.valP
  BY SeqFetches
<1>3. /\ i.icode \in {"IRRMOVQ", "IRMMOVQ", "IOPQ", "IPUSHQ", "IPOPQ", "IRET"} =>
           E.valA = IF SrcA(i) \in Reg THEN UpToM[SrcA(i)] ELSE 0
      /\ i.icode \in {"IOPQ", "IRMMOVQ", "IMRMOVQ", "IIADDQ", "IPUSHQ", "IPOPQ", "ICALL", "IRET"} =>
           E.valB = IF SrcB(i) \in Reg THEN UpToM[SrcB(i)] ELSE 0
  BY Operands
<1> HIDE DEF i
<1>4. SEQ!icode = E.icode /\ SEQ!ifun = E.ifun /\ SEQ!valC = E.valC
  BY <1>1, <1>2 DEF HoldsInstr
<1>5. SEQ!srcA = SrcA(i) /\ SEQ!srcB = SrcB(i)
  BY <1>2 DEF SEQ!srcA, SEQ!srcB, SrcA, SrcB
<1>6. E.icode \in {"IRRMOVQ", "IRMMOVQ", "IOPQ", "IPUSHQ", "IPOPQ", "IRET"} => SEQ!valA = E.valA
  BY <1>2, <1>3, <1>4, <1>5 DEF SEQ!valA, SEQ!Value
<1>7. E.icode \in {"IOPQ", "IRMMOVQ", "IMRMOVQ", "IIADDQ", "IPUSHQ", "IPOPQ", "ICALL", "IRET"} =>
        SEQ!valB = E.valB
  BY <1>2, <1>3, <1>4, <1>5 DEF SEQ!valB, SEQ!Value
<1>8. SEQ!aluA = aluA
  BY <1>4, <1>6 DEF SEQ!aluA, aluA
<1>9. SEQ!aluB = aluB /\ SEQ!alufun = alufun
  BY <1>4, <1>7 DEF SEQ!aluB, aluB, SEQ!alufun, alufun
<1>10. SEQ!valE = e_valE
  BY <1>8, <1>9, SameOperators DEF SEQ!valE, e_valE
<1>11. SEQ!Cnd <=> e_Cnd
  BY <1>4 DEF SEQ!Cnd, e_Cnd, SEQ!Cond, Cond
<1>12. SEQ!dstE = e_dstE
  BY <1>1, <1>2, <1>4, <1>11 DEF SEQ!dstE, e_dstE, HoldsInstr, DstE
<1>13. SEQ!dstM = E.dstM
  BY <1>1, <1>2 DEF SEQ!dstM, HoldsInstr, DstM
<1>14. SEQ!set_cc <=> set_cc
  BY <1>4 DEF SEQ!set_cc, set_cc, Running
<1>15. E.icode \in {"ICALL", "IJXX"} => SEQ!valP = E.valA
  BY <1>1, <1>2, <1>4 DEF HoldsOperands
<1> QED
  BY <1>4, <1>6, <1>10, <1>11, <1>12, <1>13, <1>14, <1>15

(* What then happens in memory is what the sequential processor does       *)
(* there, to the memory left by everything in front.                       *)
LEMMA SeqAccesses ==
  ASSUME Running, Cycle, InExecute, ~ EmptyE, ~ Strays, Seen.pc = E.pc
  PROVE  /\ m_stat' = SEQ!Stat
         /\ m_valM' = SEQ!valM
         /\ Stored(mem, mem_write, mem_addr, M.valA)' =
              SEQ!Stored(Seen.mem, SEQ!mem_write, SEQ!mem_addr, SEQ!mem_data)
         /\ UpToM' = SEQ!Written(Seen.reg, SEQ!dstE, SEQ!valE, SEQ!dstM, SEQ!valM)
<1> DEFINE i == InstrAt(E.pc)
<1>1. /\ M'.icode = E.icode /\ M'.stat = E.stat /\ M'.valE = e_valE /\ M'.valA = E.valA
      /\ M'.dstE = e_dstE /\ M'.dstM = E.dstM
  BY Moves DEF Executed
<1>2. /\ SEQ!icode = E.icode
      /\ SEQ!valE = e_valE /\ SEQ!dstE = e_dstE /\ SEQ!dstM = E.dstM
      /\ E.icode \in {"IRMMOVQ", "IPUSHQ", "IPOPQ", "IRET"} => SEQ!valA = E.valA
      /\ E.icode \in {"ICALL", "IJXX"} => SEQ!valP = E.valA
  BY SeqExecutes, Moves
<1>3. mem_addr' = SEQ!mem_addr
  BY <1>1, <1>2 DEF mem_addr, SEQ!mem_addr
<1>4. (mem_read' <=> SEQ!mem_read) /\ (mem_write' <=> SEQ!mem_write)
  BY <1>1, <1>2 DEF mem_read, mem_write, SEQ!mem_read, SEQ!mem_write
<1>5. m_valM' = SEQ!valM
  BY <1>3, <1>4, Moves DEF m_valM, Loaded, SEQ!valM, SEQ!Loaded
<1>6. SEQ!mem_write => SEQ!mem_data = E.valA
  BY <1>2 DEF SEQ!mem_write, SEQ!mem_data
<1>7. Stored(mem, mem_write, mem_addr, M.valA)' =
        SEQ!Stored(Seen.mem, SEQ!mem_write, SEQ!mem_addr, SEQ!mem_data)
  BY <1>1, <1>3, <1>4, <1>6, Moves DEF Stored, SEQ!Stored
<1>8. dmem_error' <=> SEQ!dmem_error
  BY <1>3, <1>4 DEF dmem_error, SEQ!dmem_error
<1>9. m_stat' = SEQ!Stat
  <2>1. E.stat = i.stat
    BY DEF InExecute, HoldsInstr
  <2>2. /\ SEQ!imem_error => E.stat = "SADR"
        /\ ~ SEQ!imem_error => E.stat = IF ~ SEQ!instr_valid THEN "SINS"
                                      ELSE IF SEQ!icode = "IHALT" THEN "SHLT" ELSE "SAOK"
    BY <2>1, SeqFetches
  <2>3. /\ SEQ!dmem_error =>
             SEQ!icode \in {"IMRMOVQ", "IPOPQ", "IRET", "IRMMOVQ", "IPUSHQ", "ICALL"}
        /\ SEQ!imem_error => SEQ!icode = "INOP"
    BY DEF SEQ!dmem_error, SEQ!mem_read, SEQ!mem_write, SEQ!imem_error, SEQ!icode
  <2>4. SEQ!instr_valid <=> SEQ!icode \in Icode
    BY SameOperators DEF SEQ!instr_valid
  <2> QED
    BY <1>1, <1>8, <2>2, <2>3, <2>4 DEF m_stat, SEQ!Stat, Icode
<1>10. UpToM' = SEQ!Written(Seen.reg, SEQ!dstE, SEQ!valE, SEQ!dstM, SEQ!valM)
  <2>1. UpToM' = Written(UpToW', M'.dstE, M'.valE, M'.dstM, m_valM')
    BY DEF UpToM
  <2>2. UpToW' = Seen.reg
    BY Moves
  <2> QED
    BY <1>1, <1>2, <1>5, <2>1, <2>2, SameOperators
<1> QED
  BY <1>5, <1>7, <1>9, <1>10

----------------------------------------------------------------------------
(* The invariant is kept *)

(* The empty pipeline satisfies the invariant. *)
LEMMA InitOK == Init => IInv
<1> SUFFICES ASSUME Init
             PROVE  IInv
  OBVIOUS
<1>1. Program /\ EmptyD /\ EmptyE /\ EmptyM
  BY DEF Init, Program, EmptyD, EmptyE, EmptyM, BubbleD, BubbleE, BubbleM
<1>2. M.stat \notin Exceptions /\ M.icode # "IJXX" /\ M.icode # "IRET" /\ W.icode # "IRET"
      /\ E.icode # "IRET"
  BY DEF Init, BubbleM, BubbleW, BubbleE, Exceptions
<1>3. InDecode /\ InExecute /\ InOrder /\ Harmless
  BY <1>1, <1>2 DEF InDecode, InExecute, InOrder, Harmless
<1> QED
  BY <1>1, <1>3 DEF IInv

(* What the next cycle finds in decode. *)
LEMMA DecodeKept ==
  ASSUME Running, InDecode, Cycle
  PROVE  InDecode'
<1>1. Fetched = InstrAt(f_pc) /\ InstrAt(f_pc).pc = f_pc
  BY FetchIs DEF InstrAt
<1>2. \A a : InstrAt(a)' = InstrAt(a)
  BY Moves DEF InstrAt, StatAt, IcodeAt
<1>3. CASE D_stall
  <2>1. D' = D
    BY <1>3 DEF Cycle
  <2> QED
    BY <1>2, <2>1 DEF InDecode, EmptyD
<1>4. CASE ~ D_stall /\ D_bubble
  <2>1. D' = BubbleD
    BY <1>4 DEF Cycle
  <2> QED
    BY <2>1 DEF InDecode, EmptyD, BubbleD
<1>5. CASE ~ D_stall /\ ~ D_bubble
  <2>1. D' = InstrAt(f_pc)
    BY <1>1, <1>5 DEF Cycle
  <2>2. D'.pc = f_pc /\ D' = InstrAt(D'.pc)
    BY <1>1, <2>1
  <2>3. InstrAt(D.pc)' = InstrAt(D'.pc)
    BY Moves DEF InstrAt, StatAt, IcodeAt
  <2> QED
    BY <2>2, <2>3 DEF InDecode
<1> QED
  BY <1>3, <1>4, <1>5

(* What it finds in execute: the operands read, or forwarded, in decode    *)
(* are those the instruction is to have, because a load is not overtaken.  *)
LEMMA ExecuteKept ==
  ASSUME Program, Running, InDecode, InExecute, Cycle
  PROVE  InExecute'
<1>1. CASE E_bubble
  <2>1. E' = BubbleE
    BY <1>1 DEF Cycle
  <2> QED
    BY <2>1 DEF InExecute, EmptyE, BubbleE
<1>2. CASE ~ E_bubble /\ EmptyD
  <2>1. E' = Decoded
    BY <1>2 DEF Cycle
  <2>2. d_dstE = RNONE /\ d_dstM = RNONE
    BY <1>2 DEF EmptyD, d_dstE, d_dstM
  <2> QED
    BY <1>2, <2>1, <2>2 DEF InExecute, EmptyE, EmptyD, Decoded
<1>3. CASE ~ E_bubble /\ ~ EmptyD
  <2> DEFINE i == InstrAt(D.pc)
  <2>1. E' = Decoded
    BY <1>3 DEF Cycle
  <2>2. D = i
    BY <1>3 DEF InDecode
  <2>3. InstrAt(E.pc)' = i
    <3>1. E'.pc = D.pc
      BY <2>1 DEF Decoded
    <3> QED
      BY <3>1, Moves DEF InstrAt, StatAt, IcodeAt
  <2> HIDE DEF i
  <2>4. /\ E'.stat = i.stat /\ E'.icode = i.icode /\ E'.ifun = i.ifun /\ E'.valC = i.valC
        /\ E'.valA = d_valA /\ E'.valB = d_valB
        /\ E'.dstE = d_dstE /\ E'.dstM = d_dstM
    BY <2>1, <2>2 DEF Decoded
  <2>5. d_srcA = SrcA(i) /\ d_srcB = SrcB(i) /\ d_dstE = DstE(i) /\ d_dstM = DstM(i)
    BY <2>2 DEF d_srcA, SrcA, d_srcB, SrcB, d_dstE, DstE, d_dstM, DstM
  <2>6. UpToM' = Written(UpToM, e_dstE, e_valE, E.dstM, m_valM')
    <3>1. UpToM' = Written(UpToW', M'.dstE, M'.valE, M'.dstM, m_valM')
      BY DEF UpToM
    <3>2. M'.dstE = e_dstE /\ M'.valE = e_valE /\ M'.dstM = E.dstM
      BY Moves DEF Executed
    <3> QED
      BY <3>1, <3>2, Moves
  <2>7. \A r \in Reg : r \in {d_srcA, d_srcB} => r # E.dstM
    <3> SUFFICES ASSUME NEW r \in Reg, r \in {d_srcA, d_srcB}, r = E.dstM
                 PROVE  FALSE
      OBVIOUS
    <3>1. E.icode \notin {"IMRMOVQ", "IPOPQ"}
      BY <1>3 DEF E_bubble, LoadUse
    <3>2. E.dstM = RNONE
      BY <3>1 DEF InExecute, EmptyE, HoldsInstr, DstM
    <3> QED
      BY <3>2, Y86Assumption
  <2>8. i.icode \in {"ICALL", "IJXX"} => E'.valA = i.valP
    BY <2>2, <2>4 DEF d_valA
  <2>9. i.icode \notin {"ICALL", "IJXX"} /\ SrcA(i) \in Reg => E'.valA = UpToM'[SrcA(i)]
    <3> SUFFICES ASSUME i.icode \notin {"ICALL", "IJXX"}, SrcA(i) \in Reg
                 PROVE  d_valA = UpToM'[SrcA(i)]
      BY <2>4
    <3>1. SrcA(i) # E.dstM
      BY <2>5, <2>7
    <3> QED
      BY <2>2, <2>5, <2>6, <3>1, Forwarding DEF d_valA
  <2>10. SrcB(i) \in Reg => E'.valB = UpToM'[SrcB(i)]
    <3> SUFFICES ASSUME SrcB(i) \in Reg
                 PROVE  d_valB = UpToM'[SrcB(i)]
      BY <2>4
    <3>1. SrcB(i) # E.dstM
      BY <2>5, <2>7
    <3> QED
      BY <2>5, <2>6, <3>1, Forwarding DEF d_valB
  <2>11. HoldsInstr(InstrAt(E.pc))' /\ HoldsOperands(InstrAt(E.pc))'
    BY <2>3, <2>4, <2>5, <2>8, <2>9, <2>10 DEF HoldsInstr, HoldsOperands, SrcA, SrcB, DstE, DstM
  <2> QED
    BY <2>11 DEF InExecute
<1> QED
  BY <1>1, <1>2, <1>3

(* How the control logic moves the front of the pipeline: a stall keeps    *)
(* what is in decode and leaves a bubble in front of it; a bubble follows  *)
(* a wrong guess and a ret; else all move on.                              *)
LEMMA Control ==
  ASSUME Running, Running', Cycle
  PROVE  /\ M'.icode = E.icode /\ M'.stat = E.stat /\ M'.Cnd = e_Cnd /\ M'.valA = E.valA
         /\ W'.icode = M.icode
         /\ EmptyE => EmptyM'
         /\ Mispredicted => EmptyD' /\ EmptyE'
         /\ LoadUse => EmptyE' /\ D' = D /\ F_predPC' = F_predPC /\ ~ Mispredicted
         /\ EmptyD => EmptyE'
         /\ ~ Mispredicted /\ ~ LoadUse =>
              /\ E'.stat = D.stat /\ E'.icode = D.icode /\ E'.pc = D.pc
              /\ Returning => EmptyD' /\ F_predPC' = F_predPC
              /\ ~ Returning => D' = InstrAt(f_pc) /\ F_predPC' = Predicted(InstrAt(f_pc))
<1>1. M' = Executed /\ W'.icode = M.icode
  BY Moves
<1>2. /\ M'.icode = E.icode /\ M'.stat = E.stat /\ M'.Cnd = e_Cnd /\ M'.valA = E.valA
      /\ EmptyE => EmptyM'
  BY <1>1 DEF Executed, EmptyE, EmptyM
<1>3. /\ E' = IF E_bubble THEN BubbleE ELSE Decoded
      /\ D' = IF D_stall THEN D ELSE IF D_bubble THEN BubbleD ELSE Fetched
      /\ F_predPC' = IF F_stall THEN F_predPC ELSE f_predPC
  BY DEF Cycle
<1>4. /\ E' = BubbleE => EmptyE'
      /\ D' = BubbleD => EmptyD'
  BY DEF EmptyE, EmptyD, BubbleE, BubbleD
<1>5. E' = Decoded => E'.stat = D.stat /\ E'.icode = D.icode /\ E'.pc = D.pc
                   /\ E'.dstE = d_dstE /\ E'.dstM = d_dstM
  BY DEF Decoded
<1>6. LoadUse => ~ Mispredicted
  BY DEF LoadUse, Mispredicted
<1>7. EmptyD => EmptyE'
  <2>1. EmptyD => d_dstE = RNONE /\ d_dstM = RNONE
    BY DEF EmptyD, d_dstE, d_dstM
  <2> QED
    BY <1>3, <1>4, <1>5, <2>1 DEF EmptyE, EmptyD
<1>8. Mispredicted => EmptyD' /\ EmptyE'
  BY <1>3, <1>4, <1>6 DEF E_bubble, D_stall, D_bubble
<1>9. LoadUse => EmptyE' /\ D' = D /\ F_predPC' = F_predPC
  BY <1>3, <1>4 DEF E_bubble, D_stall, F_stall
<1>10. ~ Mispredicted /\ ~ LoadUse =>
         /\ E'.stat = D.stat /\ E'.icode = D.icode /\ E'.pc = D.pc
         /\ Returning => EmptyD' /\ F_predPC' = F_predPC
         /\ ~ Returning => D' = InstrAt(f_pc) /\ F_predPC' = Predicted(InstrAt(f_pc))
  BY <1>3, <1>4, <1>5, FetchIs DEF E_bubble, D_stall, D_bubble, F_stall
<1> QED
  BY <1>1, <1>2, <1>6, <1>7, <1>8, <1>9, <1>10

(* The instructions in the pipeline stay those of the program, in its      *)
(* order.                                                                  *)
LEMMA OrderKept ==
  ASSUME Program, Running, Running', InDecode, InExecute, InOrder, Cycle
  PROVE  InOrder'
<1> DEFINE next(a) == Predicted(InstrAt(a))
<1>1. \A a : InstrAt(a).pc = a /\ InstrAt(a).stat # "SBUB"
  BY InstrFacts
<1>2. code' = code
  BY Moves
<1>3. (M'.icode = "IJXX" /\ ~ M'.Cnd) \/ M'.icode = "IRET" \/ W'.icode = "IRET" => EmptyD' /\ EmptyE'
  <2>1. CASE M'.icode = "IJXX" /\ ~ M'.Cnd
    BY <2>1, Control DEF Mispredicted
  <2>2. CASE M'.icode = "IRET"
    <3>1. Returning /\ EmptyD /\ ~ LoadUse /\ ~ Mispredicted
      BY <2>2, Control DEF InOrder, Returning, LoadUse, Mispredicted
    <3> QED
      BY <3>1, Control
  <2>3. CASE W'.icode = "IRET"
    <3>1. Returning /\ EmptyD /\ EmptyE
      BY <2>3, Control DEF InOrder, Returning
    <3>2. ~ LoadUse /\ ~ Mispredicted
      BY <3>1 DEF EmptyE, LoadUse, Mispredicted
    <3> QED
      BY <3>1, <3>2, Control
  <2> QED
    BY <2>1, <2>2, <2>3
<1>4. W'.icode = "IRET" => EmptyM'
  BY Control DEF InOrder
<1>5. E'.icode = "IRET" => EmptyD'
  <2> SUFFICES ASSUME E'.icode = "IRET"
               PROVE  EmptyD'
    OBVIOUS
  <2>1. ~ EmptyE'
    BY DEF EmptyE
  <2>2. ~ Mispredicted /\ ~ LoadUse /\ D.icode = "IRET"
    BY <2>1, Control
  <2> QED
    BY <2>2, Control DEF Returning
<1>6. ~ EmptyE' /\ E'.icode # "IRET" => (IF EmptyD' THEN F_predPC' ELSE D'.pc) = next(E'.pc)
  <2> SUFFICES ASSUME ~ EmptyE', E'.icode # "IRET"
               PROVE  ~ EmptyD' /\ D'.pc = next(E'.pc)
    OBVIOUS
  <2>1. ~ Mispredicted /\ ~ LoadUse /\ ~ EmptyD
    BY Control
  <2>2. E'.pc = D.pc /\ D.icode # "IRET"
    BY <2>1, Control
  <2>3. ~ Returning /\ F_predPC = next(D.pc) /\ f_pc = F_predPC
    BY <2>1, <2>2 DEF InOrder, Returning, f_pc
  <2>4. D' = InstrAt(f_pc)
    BY <2>1, <2>3, Control
  <2> QED
    BY <1>1, <2>2, <2>3, <2>4 DEF EmptyD
<1>7. ~ EmptyD' /\ D'.icode # "IRET" => F_predPC' = next(D'.pc)
  <2> SUFFICES ASSUME ~ EmptyD', D'.icode # "IRET"
               PROVE  F_predPC' = next(D'.pc)
    OBVIOUS
  <2>1. CASE LoadUse
    <3>1. D' = D /\ F_predPC' = F_predPC
      BY <2>1, Control
    <3>2. ~ EmptyD /\ D.icode # "IRET"
      BY <3>1 DEF EmptyD
    <3> QED
      BY <3>1, <3>2 DEF InOrder
  <2>2. CASE ~ LoadUse
    <3>1. D' = InstrAt(f_pc) /\ F_predPC' = next(f_pc)
      BY <2>2, Control
    <3> QED
      BY <1>1, <3>1
  <2> QED
    BY <2>1, <2>2
<1>8. next(E'.pc) = Predicted(InstrAt(E.pc))' /\ next(D'.pc) = Predicted(InstrAt(D.pc))'
  BY <1>2 DEF Predicted, InstrAt, StatAt, IcodeAt
<1> HIDE DEF next
<1> QED
  BY <1>3, <1>4, <1>5, <1>6, <1>7, <1>8 DEF InOrder

(* No instruction with an exception comes to write memory. *)
LEMMA HarmlessKept ==
  ASSUME IInv, Cycle
  PROVE  Harmless'
<1>1. CASE M_bubble
  <2>1. M' = BubbleM
    BY <1>1 DEF Cycle
  <2> QED
    BY <2>1 DEF Harmless, BubbleM, Exceptions
<1>2. CASE ~ M_bubble
  <2>1. M' = Executed /\ Running
    BY <1>2 DEF Cycle, M_bubble, Running
  <2>2. M'.stat = E.stat /\ M'.icode = E.icode
    BY <2>1 DEF Executed
  <2>3. E.stat \in Exceptions =>
          E.icode \in {"INOP", "IHALT"} \/ E.icode \notin Icode
    BY <2>1, InstrFacts DEF IInv, InExecute, EmptyE, HoldsInstr, Exceptions
  <2> QED
    BY <2>2, <2>3 DEF Harmless, mem_write, Icode
<1> QED
  BY <1>1, <1>2

(* Each cycle keeps the invariant. *)
LEMMA CycleKeeps ==
  ASSUME IInv, Cycle
  PROVE  IInv'
<1>1. Program'
  BY DEF IInv, Program, Cycle
<1>2. Running' => Running
  <2>1. W.stat \notin Exceptions
    BY NoException
  <2>2. W'.stat = m_stat
    BY <2>1 DEF Cycle, W_stall, Accessed
  <2> QED
    BY <2>1, <2>2 DEF Running
<1>3. Running' => InDecode' /\ InExecute' /\ InOrder'
  BY <1>2, DecodeKept, ExecuteKept, OrderKept DEF IInv
<1> QED
  BY <1>1, <1>3, HarmlessKept DEF IInv

----------------------------------------------------------------------------
(* Each cycle is a step of the sequential processor, or none *)

(* Once an exception has reached memory, nothing is seen to change.        *)
LEMMA ExceptionStutters ==
  ASSUME IInv, Cycle, ~ Running
  PROVE  UNCHANGED SEQ!vars
<1>1. W.stat \notin Exceptions /\ m_stat \in Exceptions
  BY NoException DEF Running
<1>2. W' = Accessed /\ M' = BubbleM
  BY <1>1 DEF Cycle, W_stall, M_bubble
<1>3. Seen.pc = M.pc /\ Seen.reg = UpToW /\ Seen.mem = mem /\ Seen.stat = m_stat
  BY <1>1 DEF Seen, UpToW
<1>4. W'.stat = m_stat /\ W'.pc = M.pc
  BY <1>2 DEF Accessed
<1>5. Seen'.pc = M.pc /\ Seen'.reg = reg' /\ Seen'.mem = mem' /\ Seen'.stat = m_stat
  BY <1>1, <1>4 DEF Seen
<1>6. reg' = UpToW
  BY DEF Cycle, UpToW
<1>7. mem' = mem
  <2>1. mem' = Stored(mem, mem_write, mem_addr, M.valA)
    BY DEF Cycle
  <2>2. ~ (mem_write /\ mem_addr \in Addr)
    BY <1>1 DEF m_stat, dmem_error, IInv, Harmless
  <2> QED
    BY <2>1, <2>2 DEF Stored
<1>8. cc' = cc /\ code' = code
  BY <1>1 DEF Cycle, set_cc
<1> QED
  BY <1>3, <1>5, <1>6, <1>7, <1>8 DEF SEQ!vars

(* A bubble that leaves execute changes nothing: what comes next in the    *)
(* program still comes next.                                               *)
LEMMA BubbleStutters ==
  ASSUME IInv, Cycle, Running, EmptyE
  PROVE  UNCHANGED SEQ!vars
<1> USE DEF IInv
<1>1. M'.stat = "SBUB" /\ M'.icode = "INOP" /\ M'.dstE = RNONE /\ M'.dstM = RNONE
  BY Moves DEF Executed, EmptyE, e_dstE
<1>2. ~ mem_read' /\ ~ mem_write' /\ m_stat' = "SBUB"
  BY <1>1 DEF mem_read, mem_write, m_stat, dmem_error
<1>3. Running'
  BY <1>2, Moves DEF Running, Exceptions
<1>4. Seen'.mem = Seen.mem
  <2>1. Seen'.mem = Stored(mem', mem_write', mem_addr', M'.valA)
    BY <1>3 DEF Seen, Running
  <2> QED
    BY <1>2, <2>1, Moves DEF Stored
<1>5. Seen'.reg = Seen.reg /\ Seen'.stat = Seen.stat
  <2>1. Seen'.reg = UpToM' /\ Seen'.stat = "SAOK"
    BY <1>3 DEF Seen, Running, UpToM, UpToW
  <2>2. UpToM' = Written(UpToM, RNONE, M'.valE, RNONE, m_valM')
    BY <1>1, Moves DEF UpToM
  <2>3. Written(UpToM, RNONE, M'.valE, RNONE, m_valM') = UpToM
    BY Y86Assumption DEF UpToM, Written
  <2> QED
    BY <2>1, <2>2, <2>3, Moves
<1>6. cc' = cc /\ code' = code
  BY DEF Cycle, set_cc, EmptyE
<1>7. ~ LoadUse /\ ~ Mispredicted
  BY DEF EmptyE, LoadUse, Mispredicted
<1>8. Seen'.pc = Seen.pc
  <2>1. Seen'.pc = IF E'.stat # "SBUB" THEN E'.pc
                   ELSE IF D'.stat # "SBUB" THEN D'.pc ELSE f_pc'
    BY <1>1, <1>3 DEF Seen, Running
  <2>2. CASE M.icode = "IRET"
    <3>1. Seen.pc = m_valM /\ EmptyD /\ Returning
      BY <2>2, SeenPc DEF InOrder, Returning
    <3>2. E'.stat = "SBUB" /\ D'.stat = "SBUB"
      BY <1>3, <1>7, <3>1, Control DEF EmptyD
    <3>3. f_pc' = m_valM
      <4>1. W'.icode = "IRET" /\ W'.valM = m_valM
        BY <2>2, Moves DEF Accessed
      <4> QED
        BY <1>1, <4>1 DEF f_pc
    <3> QED
      BY <2>1, <3>1, <3>2, <3>3
  <2>3. CASE M.icode # "IRET" /\ ~ EmptyD
    <3>1. Seen.pc = D.pc /\ D.stat # "SBUB"
      BY <2>3, SeenPc, InstrFacts DEF InDecode
    <3>2. E'.stat = D.stat /\ E'.pc = D.pc
      BY <1>3, <1>7, Control
    <3> QED
      BY <2>1, <3>1, <3>2
  <2>4. CASE M.icode # "IRET" /\ EmptyD
    <3>1. Seen.pc = f_pc /\ ~ Returning
      BY <2>4, SeenPc DEF EmptyD, EmptyE, Returning
    <3>2. E'.stat = "SBUB" /\ D' = InstrAt(f_pc)
      BY <1>3, <1>7, <2>4, <3>1, Control DEF EmptyD
    <3>3. D'.stat # "SBUB" /\ D'.pc = f_pc
      BY <3>2, InstrFacts
    <3> QED
      BY <2>1, <3>1, <3>2, <3>3
  <2> QED
    BY <2>2, <2>3, <2>4
<1> QED
  BY <1>4, <1>5, <1>6, <1>8 DEF SEQ!vars

(* An instruction that leaves execute is executed: the registers and the   *)
(* memory are then as the sequential processor leaves them, fetch is where *)
(* it would be, and what stops one stops the other.                        *)
LEMMA InstrSteps ==
  ASSUME IInv, Cycle, Running, ~ EmptyE, ~ Strays
  PROVE  SEQ!Next
<1> USE DEF IInv
<1>1. E.stat # "SBUB" /\ Seen.pc = E.pc
  BY InstrFacts, SeenPc DEF InExecute, HoldsInstr
<1>2. Seen.reg = UpToM /\ Seen.stat = "SAOK" /\ code' = code /\ mem' = Seen.mem
      /\ W'.stat \notin Exceptions /\ M' = Executed
  BY Moves
<1>3. /\ m_stat' = SEQ!Stat /\ m_valM' = SEQ!valM
      /\ Stored(mem, mem_write, mem_addr, M.valA)' =
           SEQ!Stored(Seen.mem, SEQ!mem_write, SEQ!mem_addr, SEQ!mem_data)
      /\ UpToM' = SEQ!Written(Seen.reg, SEQ!dstE, SEQ!valE, SEQ!dstM, SEQ!valM)
  BY <1>1, SeqAccesses
<1>4. /\ SEQ!icode = E.icode /\ SEQ!valE = e_valE
      /\ (SEQ!Cnd <=> e_Cnd) /\ (SEQ!set_cc <=> set_cc)
      /\ E.icode \in {"ICALL", "IJXX"} => SEQ!valP = E.valA
  BY <1>1, <1>2, SeqExecutes
<1>5. cc' = IF SEQ!set_cc THEN SEQ!valE = 0 ELSE cc
  BY <1>4 DEF Cycle
<1>6. SEQ!Stat \in Exceptions \cup {"SAOK"}
  BY DEF SEQ!Stat, Exceptions
<1>7. CASE m_stat' \in Exceptions
  <2>1. Seen'.pc = M'.pc /\ Seen'.reg = UpToW' /\ Seen'.mem = mem' /\ Seen'.stat = m_stat'
    BY <1>2, <1>7 DEF Seen, UpToW
  <2>2. M'.pc = E.pc /\ UpToW' = UpToM
    BY Moves DEF Executed
  <2>3. ~ SEQ!set_cc
    <3>1. SEQ!set_cc => SEQ!icode \in {"IOPQ", "IIADDQ"}
      BY DEF SEQ!set_cc
    <3>2. SEQ!icode \in {"IOPQ", "IIADDQ"} => SEQ!Stat \notin Exceptions
      BY DEF SEQ!Stat, SEQ!dmem_error, SEQ!mem_read, SEQ!mem_write, SEQ!imem_error, SEQ!icode,
             SEQ!instr_valid, SEQ!Icode, Exceptions
    <3> QED
      BY <1>3, <1>7, <3>1, <3>2
  <2>4. SEQ!Stop
    BY <1>1, <1>2, <1>3, <1>5, <1>7, <2>1, <2>2, <2>3 DEF SEQ!Stop, Exceptions
  <2> QED
    BY <2>4 DEF SEQ!Next
<1>8. CASE m_stat' \notin Exceptions
  <2>1. Running' /\ SEQ!Stat = "SAOK"
    BY <1>2, <1>3, <1>6, <1>8 DEF Running
  <2>2. /\ Seen'.reg = UpToM' /\ Seen'.stat = "SAOK"
        /\ Seen'.mem = Stored(mem, mem_write, mem_addr, M.valA)'
        /\ Seen'.pc = IF M'.icode = "IRET" THEN m_valM'
                      ELSE IF E'.stat # "SBUB" THEN E'.pc
                      ELSE IF D'.stat # "SBUB" THEN D'.pc ELSE f_pc'
    BY <2>1 DEF Seen, Running, UpToM, UpToW
  <2>3. M'.icode = E.icode /\ M'.Cnd = e_Cnd /\ M'.valA = E.valA
    BY <1>2 DEF Executed
  <2>4. Seen'.pc = SEQ!new_pc
    <3>1. CASE E.icode = "IRET"
      BY <1>3, <1>4, <2>2, <2>3, <3>1 DEF SEQ!new_pc
    <3>2. CASE Mispredicted
      <4>1. E'.stat = "SBUB" /\ D'.stat = "SBUB" /\ f_pc' = E.valA
        <5>1. E'.stat = "SBUB" /\ D'.stat = "SBUB"
          BY <2>1, <3>2, Control DEF EmptyE, EmptyD
        <5>2. M'.icode = "IJXX" /\ ~ M'.Cnd
          BY <2>3, <3>2 DEF Mispredicted
        <5> QED
          BY <2>3, <5>1, <5>2 DEF f_pc
      <4>2. SEQ!new_pc = E.valA
        BY <1>4, <3>2 DEF SEQ!new_pc, Mispredicted
      <4> QED
        BY <2>2, <2>3, <3>2, <4>1, <4>2 DEF Mispredicted
    <3>3. CASE E.icode # "IRET" /\ ~ Mispredicted
      <4>1. (IF EmptyD THEN F_predPC ELSE D.pc) = SEQ!new_pc
        <5>1. (IF EmptyD THEN F_predPC ELSE D.pc) = Predicted(InstrAt(E.pc))
          BY <3>3 DEF InOrder
        <5>2. InstrAt(E.pc).icode = E.icode /\ SEQ!valC = InstrAt(E.pc).valC
              /\ SEQ!valP = InstrAt(E.pc).valP
          BY <1>1, SeqFetches DEF InExecute, HoldsInstr
        <5> QED
          BY <1>4, <3>3, <5>1, <5>2 DEF Predicted, SEQ!new_pc, Mispredicted
      <4>2. f_pc = F_predPC
        BY DEF InOrder, f_pc
      <4>3. CASE ~ EmptyD /\ LoadUse
        <5>1. E'.stat = "SBUB" /\ D' = D
          BY <2>1, <4>3, Control DEF EmptyE
        <5>2. D.stat # "SBUB"
          BY <4>3, InstrFacts DEF InDecode
        <5> QED
          BY <2>2, <2>3, <3>3, <4>1, <4>3, <5>1, <5>2
      <4>4. CASE ~ EmptyD /\ ~ LoadUse
        <5>1. E'.stat = D.stat /\ E'.pc = D.pc
          BY <2>1, <3>3, <4>4, Control
        <5>2. D.stat # "SBUB"
          BY <4>4, InstrFacts DEF InDecode
        <5> QED
          BY <2>2, <2>3, <3>3, <4>1, <4>4, <5>1, <5>2
      <4>5. CASE EmptyD /\ LoadUse
        <5>1. E'.stat = "SBUB" /\ D'.stat = "SBUB" /\ F_predPC' = F_predPC
          BY <2>1, <4>5, Control DEF EmptyE, EmptyD
        <5>2. f_pc' = F_predPC'
          <6>1. M'.icode # "IJXX" /\ W'.icode # "IRET"
            BY <2>1, <2>3, <4>5, Control DEF LoadUse, InOrder
          <6> QED
            BY <6>1 DEF f_pc
        <5> QED
          BY <2>2, <2>3, <3>3, <4>1, <4>5, <5>1, <5>2
      <4>6. CASE EmptyD /\ ~ LoadUse
        <5>1. ~ Returning
          BY <3>3, <4>6 DEF Returning, EmptyD, InOrder
        <5>2. E'.stat = "SBUB" /\ D' = InstrAt(f_pc)
          BY <2>1, <3>3, <4>6, <5>1, Control DEF EmptyD
        <5>3. D'.stat # "SBUB" /\ D'.pc = f_pc
          BY <5>2, InstrFacts
        <5> QED
          BY <2>2, <2>3, <3>3, <4>1, <4>2, <4>6, <5>2, <5>3
      <4> QED
        BY <4>3, <4>4, <4>5, <4>6
    <3> QED
      BY <3>1, <3>2, <3>3
  <2>5. SEQ!Execute
    BY <1>2, <1>3, <1>5, <2>1, <2>2, <2>4 DEF SEQ!Execute
  <2> QED
    BY <2>5 DEF SEQ!Next
<1> QED
  BY <1>7, <1>8

(* The empty pipeline is the sequential processor at its start. *)
LEMMA SeqStarts == Init => SEQ!Init
<1> SUFFICES ASSUME Init
             PROVE  SEQ!Init
  OBVIOUS
<1>1. /\ D.stat = "SBUB" /\ E.stat = "SBUB" /\ M.stat = "SBUB" /\ W.stat = "SBUB"
      /\ M.icode = "INOP" /\ W.icode = "INOP"
      /\ M.dstE = RNONE /\ M.dstM = RNONE /\ W.dstE = RNONE /\ W.dstM = RNONE
  BY DEF Init, BubbleD, BubbleE, BubbleM, BubbleW
<1>2. ~ mem_read /\ ~ mem_write /\ m_stat = "SBUB" /\ f_pc = 0
  BY <1>1 DEF mem_read, mem_write, m_stat, dmem_error, f_pc, Init
<1>3. Running
  BY <1>1, <1>2 DEF Running, Exceptions
<1>4. Seen.pc = 0 /\ Seen.stat = "SAOK" /\ Seen.mem = Mem0 /\ Seen.reg = UpToM
  BY <1>1, <1>2, <1>3 DEF Seen, Running, Stored, UpToM, UpToW, Init
<1>5. UpToM = Reg0
  <2>1. \A v, w : Written(Reg0, RNONE, v, RNONE, w) = Reg0
    BY Y86Assumption, PipeAssumption DEF Written
  <2> QED
    BY <1>1, <2>1 DEF UpToM, UpToW, Init
<1>6. DOMAIN code \subseteq SEQ!Word
  BY PipeAssumption DEF Init, SEQ!Word, Word
<1> QED
  BY <1>4, <1>5, <1>6 DEF SEQ!Init, Init

(* Nothing the programmer sees changes by itself. *)
LEMMA SameSeen == UNCHANGED vars => UNCHANGED SEQ!vars
  BY DEF vars, SEQ!vars, Seen, m_stat, dmem_error, mem_read, mem_write, mem_addr, m_valM, f_pc

(* The invariant holds at every moment. *)
LEMMA SpecIInv == Spec => []IInv
<1>1. IInv /\ [Cycle]_vars => IInv'
  <2> SUFFICES ASSUME IInv, UNCHANGED vars
               PROVE  IInv'
    BY CycleKeeps
  <2> USE DEF vars
  <2>1. (Harmless <=> Harmless') /\ (Program <=> Program') /\ (Running <=> Running')
    BY DEF Harmless, mem_write, Program, Running, m_stat, dmem_error, mem_read, mem_addr
  <2>2. UpToM' = UpToM
    BY DEF UpToM, UpToW, m_valM, mem_read, mem_addr
  <2>3. InstrAt(E.pc)' = InstrAt(E.pc) /\ InstrAt(D.pc)' = InstrAt(D.pc)
    BY DEF InstrAt, StatAt, IcodeAt
  <2>4. (EmptyD <=> EmptyD') /\ (EmptyE <=> EmptyE') /\ (EmptyM <=> EmptyM')
    BY DEF EmptyD, EmptyE, EmptyM
  <2>5. InDecode => InDecode'
    BY <2>3, <2>4 DEF InDecode
  <2>6. InExecute => InExecute'
    BY <2>2, <2>3, <2>4 DEF InExecute, HoldsInstr, HoldsOperands, SrcA, SrcB, DstE, DstM
  <2>7. InOrder => InOrder'
    BY <2>3, <2>4 DEF InOrder, Predicted
  <2> QED
    BY <2>1, <2>5, <2>6, <2>7 DEF IInv
<1> QED
  BY InitOK, <1>1, PTL DEF Spec

----------------------------------------------------------------------------
(* No pipeline register is told to stall and to take a bubble in one cycle *)
(* (pipe-full.hcl:341): a load and a jump are not in execute at once, and  *)
(* of a load and a ret that needs its result the load goes first.          *)
THEOREM StallsOrBubbles == Spec => []AtMostOne
<1>1. AtMostOne
  BY DEF AtMostOne, D_stall, D_bubble, LoadUse, Mispredicted
<1> QED
  BY <1>1, PTL

(* The pipelined processor implements the sequential one step by step, for *)
(* any set of programs, registers, addresses and any size of a word:       *)
(* forwarding, stalls, wrong guesses of jumps, ret and exceptions in any   *)
(* combination.  Only a step whose instruction strays is excepted.         *)
THEOREM PipelineIsSequential == Spec => Sequential
<1>1. IInv /\ [Cycle]_vars => [SEQ!Next \/ Strays]_(SEQ!vars)
  <2>1. ASSUME IInv, Cycle
        PROVE  [SEQ!Next \/ Strays]_(SEQ!vars)
    BY <2>1, ExceptionStutters, BubbleStutters, InstrSteps
  <2> QED
    BY <2>1, SameSeen
<1> QED
  BY SpecIInv, SeqStarts, <1>1, PTL DEF Spec, Sequential

(* The instructions of a program name each register they read. *)
NamesRegisters(c) ==
  \A a \in DOMAIN c :
    /\ c[a].icode \in ReadsA => c[a].rA \in Reg
    /\ c[a].icode \in ReadsB => c[a].rB \in Reg

(* If they all do, nothing strays, and nothing is excepted: the pipelined  *)
(* processor is the sequential one.                                        *)
THEOREM NamedProgramsAreSequential ==
  (\A c \in Codes : NamesRegisters(c)) => (Spec => SEQ!Spec)
<1> SUFFICES ASSUME \A c \in Codes : NamesRegisters(c)
             PROVE  Spec => SEQ!Spec
  OBVIOUS
<1>1. ASSUME IInv, Cycle, Running, ~ EmptyE
      PROVE  ~ Strays
  <2>1. E.icode = IcodeAt(E.pc)
    BY <1>1 DEF IInv, InExecute, HoldsInstr, InstrAt
  <2>2. E.icode \in ReadsA \cup ReadsB => E.pc \in DOMAIN code /\ code[E.pc].icode = E.icode
    BY <2>1 DEF IcodeAt, ReadsA, ReadsB
  <2>3. NamesRegisters(code)
    BY <1>1 DEF IInv, Program
  <2> QED
    BY <2>2, <2>3 DEF NamesRegisters, Strays
<1>2. IInv /\ [Cycle]_vars => [SEQ!Next]_(SEQ!vars)
  <2>1. ASSUME IInv, Cycle
        PROVE  [SEQ!Next]_(SEQ!vars)
    BY <1>1, <2>1, ExceptionStutters, BubbleStutters, InstrSteps
  <2> QED
    BY <2>1, SameSeen
<1> QED
  BY SpecIInv, SeqStarts, <1>2, PTL DEF Spec, SEQ!Spec
=============================================================================
