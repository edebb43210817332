-------------------------------- MODULE SCM --------------------------------
(***************************************************************************)
(* p3/scm.c: allocation in a file that is mapped shared, always at the     *)
(* same address: what is in memory is what is in the file, and pointers    *)
(* stay good from one opening to the next.                                 *)
(*                                                                         *)
(* The whole state of the allocator is one number, the bytes in use, which *)
(* is also where the next block begins.  Freeing a block subtracts its     *)
(* size from it, whichever block it is.  Offsets count from scm->addr, a   *)
(* word after the beginning of the mapping.                                *)
(***************************************************************************)
EXTENDS Integers

CONSTANTS Capacity,    \* size.capacity, the size of the file
          Word,        \* sizeof (size_t), before scm->addr
          Overhead     \* what scm_malloc puts before a block: a short and a size_t

ASSUME SCMAssumption == /\ Capacity \in Nat /\ Word \in Nat
                        /\ Overhead \in Nat \ {0}

\* A block, with what is before it.
Block(from, n) == [from |-> from, size |-> Overhead + n]

Overlap(b, c) == b.from < c.from + c.size /\ c.from < b.from + b.size

\* In the file.  scm_malloc does not count the word, and lets a block end after it.
InFile(b) == b.from >= 0 /\ b.from + b.size <= Capacity - Word

\* scm_malloc has room for n bytes.  A size_t that went below zero is huge, and
\* so is the sum, unless it is zero or more again.
Fits(used, n) == used + Overhead + n \in 0 .. Capacity

\* size.utilized after scm_malloc and after scm_free.
AfterMalloc(used, n) == IF Fits(used, n) THEN used + Overhead + n ELSE used
AfterFree(used, b)   == used - b.size
=============================================================================
