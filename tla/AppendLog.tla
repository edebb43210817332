----------------------------- MODULE AppendLog -----------------------------
(***************************************************************************)
(* What p4/logfs.h promises to its caller, with nothing of how logfs.c     *)
(* does it: an append-only sequence of bytes.  A call is accepted, and     *)
(* later it returns; logfs_append extends the log by the bytes it was      *)
(* given, logfs_read answers with exactly the bytes of the log it was      *)
(* asked for, or fails, and logfs_close ends the log.  logfs_open always   *)
(* starts an empty log: logfs.c recovers nothing from the device.          *)
(*                                                                         *)
(* The byte at position p of the log is represented by p + 1.  The code    *)
(* never looks at a byte, so this loses nothing, and a byte that is lost,  *)
(* repeated, stale or out of place is seen at once.                        *)
(***************************************************************************)
EXTENDS Integers, Sequences

CONSTANTS MaxLog,      \* bound: bytes ever appended to one log
          MaxAppend    \* bound: bytes of one logfs_append

VARIABLES log,         \* the bytes of the completed appends
          call,        \* the call in progress, or NoCall
          answer       \* what the last call delivered to its caller

logvars == <<log, call, answer>>

Closed     == [op |-> "closed", off |-> 0, len |-> 0]
NoCall     == [op |-> "none",   off |-> 0, len |-> 0]
Closing    == [op |-> "close",  off |-> 0, len |-> 0]
Append_(n) == [op |-> "append", off |-> 0, len |-> n]
Read_(o,n) == [op |-> "read",   off |-> o, len |-> n]

\* The answer of a logfs_read that returned -1.
Failed == <<-1>>

Init == log = <<>> /\ call = Closed /\ answer = <<>>

Open == /\ call = Closed
        /\ call' = NoCall
        /\ log' = <<>>
        /\ answer' = <<>>

\* There is no log to be had: the handle is NULL.
OpenFails == /\ call = Closed
             /\ answer' = Failed
             /\ UNCHANGED <<log, call>>

\* A caller reads only what it has appended: kvraw.c checks the range.
Invoke == /\ call = NoCall
          /\ \/ \E n \in 0 .. MaxAppend :
                  /\ Len(log) + n <= MaxLog
                  /\ call' = Append_(n)
             \/ \E o \in 0 .. Len(log) : \E n \in 0 .. Len(log) - o :
                  call' = Read_(o, n)
             \/ call' = Closing
          /\ answer' = <<>>
          /\ UNCHANGED log

AppendReturns == /\ call.op = "append"
                 /\ log' = [i \in 1 .. Len(log) + call.len |-> i]
                 /\ call' = NoCall
                 /\ UNCHANGED answer

ReadReturns == /\ call.op = "read"
               /\ answer' \in {SubSeq(log, call.off + 1, call.off + call.len), Failed}
               /\ call' = NoCall
               /\ UNCHANGED log

CloseReturns == /\ call = Closing
                /\ call' = Closed
                /\ UNCHANGED <<log, answer>>

Next == Open \/ OpenFails \/ Invoke \/ AppendReturns \/ ReadReturns \/ CloseReturns

Spec == Init /\ [][Next]_logvars
=============================================================================
