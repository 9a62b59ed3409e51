-------------------------------- MODULE Seq --------------------------------
(***************************************************************************)
(* src/CS429/Lab4/B/seq-full.hcl: the sequential Y86-64 processor with     *)
(* iaddq, one instruction per step.  It is what Pipe promises to be.       *)
(* An instruction whose status is not SAOK stops the machine and changes   *)
(* nothing else.                                                           *)
(***************************************************************************)
EXTENDS Y86

CONSTANTS Reg0, Mem0 \* registers and memory at the start

VARIABLES code, pc, reg, mem, cc, stat

vars == <<code, pc, reg, mem, cc, stat>>

imem_error == pc \notin DOMAIN code

icode == IF imem_error THEN "INOP" ELSE code[pc].icode
ifun == IF imem_error THEN "NONE" ELSE code[pc].ifun

instr_valid == icode \in Icode

need_regids == icode \in {"IRRMOVQ", "IOPQ", "IPUSHQ", "IPOPQ",
                          "IIRMOVQ", "IRMMOVQ", "IMRMOVQ", "IIADDQ"}
need_valC == icode \in {"IIRMOVQ", "IRMMOVQ", "IMRMOVQ", "IJXX", "ICALL", "IIADDQ"}

rA == IF need_regids THEN code[pc].rA ELSE RNONE
rB == IF need_regids THEN code[pc].rB ELSE RNONE
valC == IF need_valC THEN code[pc].valC ELSE 0
valP == (pc + 1 + (IF need_regids THEN 1 ELSE 0) + (IF need_valC THEN 1 ELSE 0)) % WordMod

srcA == CASE icode \in {"IRRMOVQ", "IRMMOVQ", "IOPQ", "IPUSHQ"} -> rA
          [] icode \in {"IPOPQ", "IRET"} -> RRSP
          [] OTHER -> RNONE
srcB == CASE icode \in {"IOPQ", "IRMMOVQ", "IMRMOVQ", "IIADDQ"} -> rB
          [] icode \in {"IPUSHQ", "IPOPQ", "ICALL", "IRET"} -> RRSP
          [] OTHER -> RNONE
valA == Value(reg, srcA)
valB == Value(reg, srcB)

Cnd == Cond(ifun, cc)

dstE == CASE icode = "IRRMOVQ" /\ Cnd -> rB
          [] icode \in {"IIRMOVQ", "IOPQ", "IIADDQ"} -> rB
          [] icode \in {"IPUSHQ", "IPOPQ", "ICALL", "IRET"} -> RRSP
          [] OTHER -> RNONE
dstM == IF icode \in {"IMRMOVQ", "IPOPQ"} THEN rA ELSE RNONE

aluA == CASE icode \in {"IRRMOVQ", "IOPQ"} -> valA
          [] icode \in {"IIRMOVQ", "IRMMOVQ", "IMRMOVQ", "IIADDQ"} -> valC
          [] icode \in {"ICALL", "IPUSHQ"} -> -1
          [] icode \in {"IRET", "IPOPQ"} -> 1
          [] OTHER -> 0
aluB == IF icode \in {"IRMMOVQ", "IMRMOVQ", "IOPQ", "ICALL", "IPUSHQ", "IRET", "IPOPQ", "IIADDQ"}
        THEN valB ELSE 0
alufun == IF icode = "IOPQ" THEN ifun ELSE "ADD"
valE == ALU(alufun, aluA, aluB)

set_cc == icode \in {"IOPQ", "IIADDQ"}

mem_read == icode \in {"IMRMOVQ", "IPOPQ", "IRET"}
mem_write == icode \in {"IRMMOVQ", "IPUSHQ", "ICALL"}
mem_addr == CASE icode \in {"IRMMOVQ", "IPUSHQ", "ICALL", "IMRMOVQ"} -> valE
              [] icode \in {"IPOPQ", "IRET"} -> valA
              [] OTHER -> 0
mem_data == CASE icode \in {"IRMMOVQ", "IPUSHQ"} -> valA
              [] icode = "ICALL" -> valP
              [] OTHER -> 0
dmem_error == (mem_read \/ mem_write) /\ mem_addr \notin Addr
valM == Loaded(mem, mem_read, mem_addr)

Stat == CASE imem_error \/ dmem_error -> "SADR"
          [] ~instr_valid             -> "SINS"
          [] icode = "IHALT"          -> "SHLT"
          [] OTHER                    -> "SAOK"

new_pc == CASE icode = "ICALL"        -> valC
            [] icode = "IJXX" /\ Cnd  -> valC
            [] icode = "IRET"         -> valM
            [] OTHER                  -> valP

Init ==
  /\ DOMAIN code \subseteq Word   \* any program
  /\ pc = 0 /\ reg = Reg0 /\ mem = Mem0 /\ cc = TRUE /\ stat = "SAOK"

Execute ==
  /\ stat = "SAOK" /\ Stat = "SAOK"
  /\ pc' = new_pc
  /\ reg' = Written(reg, dstE, valE, dstM, valM)
  /\ mem' = Stored(mem, mem_write, mem_addr, mem_data)
  /\ cc' = IF set_cc THEN valE = 0 ELSE cc
  /\ UNCHANGED <<code, stat>>

Stop ==
  /\ stat = "SAOK" /\ Stat # "SAOK"
  /\ stat' = Stat
  /\ UNCHANGED <<code, pc, reg, mem, cc>>

Next == Execute \/ Stop

Spec == Init /\ [][Next]_vars
=============================================================================
