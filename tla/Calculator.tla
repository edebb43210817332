----------------------------- MODULE Calculator -----------------------------
(***************************************************************************)
(* p1/main.c and p1/jitc.c over Parser: a run of the program parses its    *)
(* text, writes out.c, has a child process compile that to out.so, loads   *)
(* it, prints what it computes and deletes it.  Runs follow each other in  *)
(* one directory, and what one leaves there the next one meets: out.c,     *)
(* out.so, and a compiler that outlived its parent.                        *)
(*                                                                         *)
(* Run r has two processes: <<"main", r>> and the child it forks.  When    *)
(* the child cannot execute the compiler it returns from jitc_compile, and *)
(* goes on as its parent will: the steps after compiling are steps of any  *)
(* process.                                                                *)
(***************************************************************************)
EXTENDS Parser

CONSTANTS Inputs,     \* the texts for each run
          MaxRoom,    \* bound: nodes there is memory for, when there is too little
          MaxFaults   \* bound: failures of what the program calls, and kills

Runs  == DOMAIN Inputs
Texts == UNION {Inputs[r] : r \in Runs}

ASSUME CalculatorAssumption ==
  /\ Inputs \in Seq(SUBSET Seq(STRING))
  /\ \A s \in Texts : Len(s) <= MaxText
  /\ MaxRoom \in Nat /\ MaxFaults \in Nat

VARIABLES run,        \* the last run that was started
          pc,         \* of every process
          text,       \* of the last run
          unit,       \* its tree, and what the C generated from that computes
          source,     \* out.c: the text it is for, and what it computes
          object,     \* what each compiler has made of out.c
          library,    \* out.so: a text and the term it computes, or Nothing
          handle,     \* what each process has loaded
          printed,    \* by the last run: pairs of a text and a term
          status,     \* how the main process of the last run ended
          clean,      \* history: did the run start with no out.so and no compiler?
          faults      \* history: how many failures, and whether in the last run

vars == <<run, pc, text, unit, source, object, library, handle, printed, status, clean, faults>>

Processes == {"main", "child"} \X Runs
Main      == <<"main", run>>
Child     == <<"child", run>>
Alive(p)  == pc[p] # "none"
Nothing   == <<>>
NoSource  == [text |-> <<>>, term |-> NoProgram]
\* The terms that the grammar gives each text.
TermsOf == [s \in Texts |-> Terms(s)]

Init ==
  /\ run = 0 /\ pc = [p \in Processes |-> "none"]
  /\ text = <<>> /\ unit = Nothing
  /\ source = NoSource /\ library = Nothing
  /\ object = [r \in Runs |-> Nothing] /\ handle = [p \in Processes |-> Nothing]
  /\ printed = <<>> /\ status = "none" /\ clean = TRUE
  /\ faults = [all |-> 0, here |-> FALSE]

Fault == faults.all < MaxFaults /\ faults' = [all |-> faults.all + 1, here |-> TRUE]
NoFault == UNCHANGED faults

Goes(p, place) == pc' = [pc EXCEPT ![p] = place]

Ends(p, how) ==
  /\ Goes(p, "none")
  /\ handle' = [handle EXCEPT ![p] = Nothing]
  /\ status' = IF p = Main THEN how ELSE status

-----------------------------------------------------------------------------
\* A run starts, and parses its text: nobody else takes part in that.
Begins(room) ==
  /\ run < Len(Inputs) /\ (run > 0 => ~Alive(Main))
  /\ run' = run + 1
  /\ text' \in Inputs[run + 1]
  /\ LET result == Parse(text', room)
         Stops(how) == status' = how /\ unit' = Nothing /\ UNCHANGED pc
     IN  \/ text' = <<>> /\ Stops("aborted")      \* the assertion of parser_open
         \/ /\ text' # <<>> /\ result.dag # Null
            /\ status' = "running"
            /\ unit' = [tree |-> Stripped[result.dag],
                        term |-> Meaning(text', Generate(result.dag))]
            /\ pc' = [pc EXCEPT ![<<"main", run + 1>>] = "write"]
         \/ text' # <<>> /\ result.dag = Null /\ Stops("rejected")
         \/ text' # <<>> /\ result.bad /\ Stops("crashed")
  /\ printed' = <<>>
  /\ clean' = (library = Nothing /\ \A p \in Processes : ~Alive(p))
  /\ UNCHANGED <<source, object, library, handle>>

\* No text has more nodes than characters.
Begin == Begins(MaxText) /\ faults' = [faults EXCEPT !.here = FALSE]

BeginWithoutMemory == Fault /\ \E room \in 0 .. MaxRoom : Begins(room)

WritesOnce(p) ==
  /\ pc[p] = "write" /\ NoFault
  /\ source' = IF source # NoSource THEN source ELSE [text |-> text, term |-> unit.term]
  /\ unit' = Nothing
  /\ Goes(p, "fork")
  /\ UNCHANGED <<run, text, object, library, handle, printed, status, clean>>

Writes(p) ==
  /\ pc[p] = "write"
  /\ \/ source' = [text |-> text, term |-> unit.term] /\ NoFault
     \/ source' = [text |-> text, term |-> NoProgram] /\ Fault
  /\ unit' = Nothing
  /\ Goes(p, "fork")
  /\ UNCHANGED <<run, text, object, library, handle, printed, status, clean>>

FailsToOpen(p) ==
  /\ pc[p] = "write" /\ Fault /\ unit' = Nothing /\ Ends(p, "failed")
  /\ UNCHANGED <<run, text, source, object, library, printed, clean>>

-----------------------------------------------------------------------------
(* jitc_compile                                                            *)

Forks(p) ==
  /\ pc[p] = "fork" /\ NoFault
  /\ pc' = [pc EXCEPT ![p] = "wait", ![Child] = "exec"]
  /\ UNCHANGED <<run, text, unit, source, object, library, handle, printed, status, clean>>

\* It says so, and returns 0.
FailsToFork(p) ==
  /\ pc[p] = "fork" /\ Fault /\ Goes(p, "load")
  /\ UNCHANGED <<run, text, unit, source, object, library, handle, printed, status, clean>>

Executes(p) ==
  /\ pc[p] = "exec"
  /\ \/ Goes(p, "compile") /\ NoFault
     \/ Goes(p, "load") /\ Fault
  /\ UNCHANGED <<run, text, unit, source, object, library, handle, printed, status, clean>>

\* The compiler reads out.c, whichever it is by now.
CompilesGood(p) ==
  /\ pc[p] = "compile" /\ NoFault
  /\ source.term # NoProgram
  /\ Goes(p, "link") /\ object' = [object EXCEPT ![p[2]] = source]
  /\ UNCHANGED <<run, text, unit, source, library, handle, printed, status, clean>>

Compiles(p) ==
  /\ pc[p] = "compile" /\ NoFault
  /\ IF source.term = NoProgram
     THEN Goes(p, "none") /\ UNCHANGED object
     ELSE Goes(p, "link") /\ object' = [object EXCEPT ![p[2]] = source]
  /\ UNCHANGED <<run, text, unit, source, library, handle, printed, status, clean>>

\* It fails on its own, and may have removed its output by then.
FailsToCompile(p) ==
  /\ pc[p] \in {"compile", "link"} /\ Fault /\ Goes(p, "none")
  /\ library' \in {library, Nothing}
  /\ object' = [object EXCEPT ![p[2]] = Nothing]
  /\ UNCHANGED <<run, text, unit, source, handle, printed, status, clean>>

Links(p) ==
  /\ pc[p] = "link" /\ NoFault /\ Goes(p, "none")
  /\ library' = object[p[2]]
  /\ object' = [object EXCEPT ![p[2]] = Nothing]
  /\ UNCHANGED <<run, text, unit, source, handle, printed, status, clean>>

\* The child's exit status is printed, and jitc_compile returns 0.
Waits(p) ==
  /\ pc[p] = "wait" /\ NoFault /\ ~Alive(Child)
  /\ Goes(p, "load")
  /\ UNCHANGED <<run, text, unit, source, object, library, handle, printed, status, clean>>

FailsToWait(p) ==
  /\ pc[p] = "wait" /\ Fault
  /\ source' = NoSource /\ Ends(p, "failed")
  /\ UNCHANGED <<run, text, unit, object, library, printed, clean>>

-----------------------------------------------------------------------------
(* Loading, looking up, calling, deleting                                  *)

\* With no library jitc_open returns a handle with NULL in it, the lookup finds
\* nothing, and closing the NULL is undefined.
Loads(p) ==
  /\ pc[p] = "load" /\ NoFault
  /\ IF library # Nothing
     THEN /\ handle' = [handle EXCEPT ![p] = library]
          /\ Goes(p, "print")
          /\ UNCHANGED status
     ELSE \E how \in {"crashed", "failed"} : Ends(p, how)
  /\ UNCHANGED <<run, text, unit, source, object, library, printed, clean>>

\* No memory for the handle, or no library in what is there.
FailsToLoad(p) ==
  /\ pc[p] = "load" /\ Fault
  /\ library' = Nothing
  /\ \E how \in {"crashed", "failed"} : Ends(p, how)
  /\ UNCHANGED <<run, text, unit, source, object, printed, clean>>

Prints(p) ==
  /\ pc[p] = "print" /\ NoFault
  /\ printed' = IF p[2] = run THEN Append(printed, handle[p]) ELSE printed
  /\ Goes(p, "delete")
  /\ UNCHANGED <<run, text, unit, source, object, library, handle, status, clean>>

Deletes(p) ==
  /\ pc[p] = "delete" /\ NoFault
  /\ library' = Nothing
  /\ Ends(p, "done")
  /\ UNCHANGED <<run, text, unit, source, object, printed, clean>>

-----------------------------------------------------------------------------
\* One process is killed, or, from the keyboard, both.
Killed ==
  /\ run > 0 /\ Fault
  /\ \E dead \in SUBSET {Main, Child} \ {{}} :
       /\ \A p \in dead : Alive(p)
       /\ pc' = [p \in Processes |-> IF p \in dead THEN "none" ELSE pc[p]]
       /\ handle' = [p \in Processes |-> IF p \in dead THEN Nothing ELSE handle[p]]
       /\ object' = IF Child \in dead THEN [object EXCEPT ![run] = Nothing] ELSE object
       /\ status' = IF Main \in dead THEN "killed" ELSE status
  /\ unit' = IF pc'[Main] = "none" THEN Nothing ELSE unit
  /\ UNCHANGED <<run, text, source, library, printed, clean>>

Step(p) ==
  \/ Writes(p) \/ Forks(p) \/ Executes(p) \/ Compiles(p)
  \/ Links(p) \/ Waits(p) \/ Loads(p) \/ Prints(p) \/ Deletes(p)

Fails(p) ==
  \/ FailsToOpen(p) \/ FailsToFork(p) \/ FailsToCompile(p)
  \/ FailsToWait(p) \/ FailsToLoad(p)

Next ==
  \/ Begin
  \/ BeginWithoutMemory
  \/ \E p \in Processes : Step(p)
  \/ \E p \in Processes : Fails(p)
  \/ Killed

\* The operating system runs every process on.
Spec == Init /\ [][Next]_vars /\ \A p \in Processes : WF_vars(Step(p))

-----------------------------------------------------------------------------
Alone == \A p \in Processes : ~Alive(p)

(* A process holds a library from loading to deleting it, and a compiler   *)
(* has made something only between compiling and linking.                  *)
TypeOK ==
  /\ run \in 0 .. Len(Inputs)
  /\ pc \in [Processes -> {"none", "write", "fork", "wait", "exec", "compile", "link",
                           "load", "print", "delete"}]
  /\ status \in {"none", "running", "aborted", "rejected", "crashed", "failed", "killed", "done"}
  /\ \A p \in Processes : handle[p] # Nothing <=> pc[p] \in {"print", "delete"}
  /\ \A r \in Runs : object[r] # Nothing <=> pc[<<"child", r>>] = "link"
  /\ run > 0 => (status = "running" <=> Alive(Main)) /\ (unit # Nothing <=> pc[Main] = "write")
  /\ faults.all \in 0 .. MaxFaults /\ {faults.here, clean} \subseteq BOOLEAN

(* The recursive descent of parser.c accepts the texts of the grammar in   *)
(* its comments, and no other, and its tree is the one that the grammar    *)
(* gives, of which there is one only.                                      *)
ParserFollowsGrammar ==
  run > 0 => /\ pc[Main] = "write" => TermsOf[text] = {unit.tree}
             /\ status = "rejected" /\ ~faults.here => TermsOf[text] = {}
             /\ status = "crashed" /\ ~faults.here /\ clean /\ "i" \notin ToSet(text)
                  => TermsOf[text] = {}

(* The C function written for a text computes the term of that text: each  *)
(* variable is declared once and before its uses (main.c:22).  Only a      *)
(* number that strtod reads as infinite gives no C.                        *)
CodeMeansText ==
  run > 0 /\ pc[Main] = "fork" /\ ~faults.here =>
    IF "i" \in ToSet(text) THEN source.term = NoProgram
                           ELSE TermsOf[text] = {source.term}

(* Where no out.so and no compiler was left by an earlier run, a run       *)
(* prints the value of its own text or nothing, and prints it once,        *)
(* whatever fails, though jitc_compile reports hardly any failure          *)
(* (jitc.c:65): there is nothing else that could be loaded.                *)
CleanRunNeverLies ==
  clean => /\ Len(printed) <= 1
           /\ \A k \in DOMAIN printed : printed[k].text = text /\ TermsOf[text] = {printed[k].term}

(* Such a run leaves no out.so behind for the next one, unless it was      *)
(* killed or could not wait for its compiler.                              *)
CleanRunCleansUp ==
  clean /\ Alone /\ status \notin {"killed", "failed"} => library = Nothing

(* A clean run is true to its text, and leaves a clean place.               *)
CleanRunIsSafe == TypeOK /\ CleanRunNeverLies /\ CleanRunCleansUp

(* With nothing failing, a good text is computed and printed.              *)
Calculates ==
  status = "running" /\ clean /\ ~faults.here /\ TermsOf[text] # {} /\ "i" \notin ToSet(text)
    ~> faults.here \/ (status = "done" /\ TermsOf[text] = {printed[k].term : k \in DOMAIN printed})

(* A run ends, also when its child became a second main or its compiler    *)
(* failed.                                                                 *)
EveryRunEnds == status = "running" ~> status # "running"

(* Runs end, and with a result if nothing is in the way.                    *)
RunsEnd == Calculates /\ EveryRunEnds
=============================================================================
