-------------------------------- MODULE Files --------------------------------
(***************************************************************************)
(* What Project 4's file system promises (the comments of inode.c and     *)
(* filesys.c): files that are sequences of bytes, extended with zeros by a *)
(* write beyond their end, that live until they have been removed and      *)
(* closed, and that outlive the machine unless removed.                    *)
(***************************************************************************)
EXTENDS Integers, Sequences

CONSTANTS File, NoFile, CreateLengths, Offsets, Sizes, Byte, Zero

VARIABLES
  content,   \* the bytes of each file, or NoFile
  names,     \* the files a directory still names
  up         \* the machine runs

fvars == <<content, names, up>>

FInit ==
  /\ content = [f \in File |-> NoFile]
  /\ names = {}
  /\ up = TRUE

Zeros(n) == [i \in 1..n |-> Zero]

(* Bytes s with n bytes of value b from offset on, of which only the first *)
(* m were written.                                                         *)
Written(s, offset, n, m, b) ==
  [i \in 1..(IF Len(s) > offset + n THEN Len(s) ELSE offset + n) |->
     IF i \in (offset + 1)..(offset + m) THEN b
     ELSE IF i \in 1..Len(s) THEN s[i] ELSE Zero]

Make(f, n) ==
  /\ up /\ content[f] = NoFile
  /\ content' = [content EXCEPT ![f] = Zeros(n)]
  /\ names' = names \cup {f}
  /\ up' = up

(* A write is complete unless the machine stops in it. *)
Put(f, offset, n, m, b) ==
  /\ up /\ content[f] # NoFile
  /\ m <= n /\ (m < n => ~ up')
  /\ content' = [content EXCEPT ![f] = Written(@, offset, n, m, b)]
  /\ names' = names

Unname(f) ==
  /\ up /\ f \in names
  /\ names' = names \ {f}
  /\ UNCHANGED <<content, up>>

(* It is removed while nobody has it open, or closed for the last time. *)
Erase(f) ==
  /\ up /\ f \in names
  /\ names' = names \ {f}
  /\ content' = [content EXCEPT ![f] = NoFile]
  /\ up' = up

Forget(f) ==
  /\ up /\ f \notin names
  /\ content' = [content EXCEPT ![f] = NoFile]
  /\ UNCHANGED <<names, up>>

Stop == up /\ up' = FALSE /\ UNCHANGED <<content, names>>

Restart ==
  /\ content' = [f \in File |-> IF f \in names THEN content[f] ELSE NoFile]
  /\ up' = TRUE
  /\ names' = names
FNext ==
  \/ \E f \in File :
       \/ Unname(f) \/ Erase(f) \/ Forget(f)
       \/ \E n \in CreateLengths : Make(f, n)
       \/ \E offset \in Offsets, n \in Sizes, b \in Byte : \E m \in 0..n : Put(f, offset, n, m, b)
  \/ Stop \/ Restart

FSpec == FInit /\ [][FNext]_fvars
=============================================================================
