----------------------------- MODULE Scheduler -----------------------------
(***************************************************************************)
(* p2/scheduler.c: user threads on one kernel thread, switched by setjmp   *)
(* and longjmp, round robin, when a thread yields or when SIGALRM, a       *)
(* second after the last switch, makes it yield.                           *)
(*                                                                         *)
(* Threads are numbered in the order of their creation, and 0 is NULL.     *)
(* The scheduler's own code has a pc, because the alarm can interrupt it.  *)
(* A user thread is what its calls are: it runs, yields or returns, and it *)
(* need not ever do either, and it may create threads.  What C leaves      *)
(* undefined ends in pc = "crash".  scheduler_execute is not called from a *)
(* thread: it "is not re-enterant" (line 136).                             *)
(***************************************************************************)
EXTENDS Naturals

CONSTANT MaxThreads  \* bound: threads created in all

ASSUME SchedulerAssumption == MaxThreads \in Nat \ {0}

Threads == 1 .. MaxThreads

VARIABLES pc,          \* "main" (the caller), "round", "pick", "walk", "switch",
                       \* "run", "destroy", or "crash"
          why,         \* what made it crash
          status, link, \* of each thread; link is linked_thread
          saved,       \* what the jump buffer of the thread holds: "none",
                       \* "thread" (where it yielded), "other" (anything else)
          head, tail, current,
          next,        \* next_thread of thread_candidate
          freed,       \* the threads whose memory was freed
          alarm,       \* is the alarm armed?
          odd          \* history: has anything happened that the scheduler does
                       \* not provide for?  Those steps set it.

list == <<link, head, tail, freed>>
vars == <<pc, why, status, saved, current, list, next, alarm, odd>>

Created    == {t \in Threads : status[t] # "none"}
Unfinished == {t \in Threads : status[t] \in {"new", "running"}}

Init ==
  /\ pc = "main" /\ why = "-"
  /\ status = [t \in Threads |-> "none"] /\ saved = [t \in Threads |-> "none"]
  /\ link = [t \in Threads |-> 0]
  /\ head = 0 /\ tail = 0 /\ current = 0
  /\ next = 0 /\ freed = {} /\ alarm = FALSE /\ odd = FALSE

Crash(reason) ==
  /\ pc' = "crash" /\ why' = reason
  /\ UNCHANGED <<status, saved, current, list, next, alarm>>

-----------------------------------------------------------------------------
(* scheduler_create, called by the caller of scheduler_execute or, later,  *)
(* by a thread; and scheduler_execute.                                     *)

LinkedOpen(t) ==
  IF head = 0 THEN [link EXCEPT ![t] = t] ELSE [link EXCEPT ![tail] = t]

LinkedPastTail(t) ==
  IF head = 0 THEN [link EXCEPT ![t] = t]
              ELSE [link EXCEPT ![tail] = t, ![t] = t + 1]

\* The ring with t after its tail.
Linked(t) ==
  IF head = 0 THEN [link EXCEPT ![t] = t]
              ELSE [link EXCEPT ![tail] = t, ![t] = head]

InUserCode == pc \in {"main", "run"}

Create ==
  /\ InUserCode
  /\ \E t \in Threads :
        /\ status[t] = "none" /\ Created = 1 .. t - 1
        /\ status' = [status EXCEPT ![t] = "new"]
        /\ link' = Linked(t)
        /\ head' = (IF head = 0 THEN t ELSE head) /\ tail' = t
  /\ UNCHANGED <<pc, why, saved, current, freed, alarm, next, odd>>

\* A malloc fails, and the NULL is written through, though "return: 0 on success,
\* otherwise error", scheduler.c:74.
CreateFails == InUserCode /\ Created # Threads /\ odd' = TRUE /\ Crash("memory")

\* Odd with no thread, or with one that an earlier call left unfinished.
Execute ==
  /\ pc = "main"
  /\ pc' = "round"
  /\ odd' = (odd \/ head = 0 \/ \E t \in Threads : status[t] = "running")
  /\ UNCHANGED <<why, status, saved, current, list, alarm, next>>

-----------------------------------------------------------------------------
(* scheduler_execute, which every longjmp to state.ctx enters again.       *)

\* The handler is set and the alarm armed.
Round ==
  /\ pc = "round"
  /\ alarm' = TRUE /\ pc' = "pick"
  /\ UNCHANGED <<why, status, saved, current, list, next, odd>>

\* thread_candidate, with no thread current.
PickFirst ==
  /\ pc = "pick" /\ current = 0
  /\ current' = head
  /\ pc' = (IF head = 0 THEN "destroy" ELSE "switch")
  /\ UNCHANGED <<why, status, saved, list, next, alarm, odd>>

FirstNextHead == head

\* A freed thread has no link to follow.
FirstNext == IF current \in freed THEN 0 ELSE link[current]

PickNext ==
  /\ pc = "pick" /\ current # 0
  /\ next' = FirstNext
  /\ pc' = "walk"
  /\ UNCHANGED <<why, status, saved, current, list, alarm, odd>>

\* The thread that the walk comes to was freed, or is NULL.
PickFreed ==
  /\ pc = "walk" /\ next # current /\ next \in freed \cup {0}
  /\ Crash("freed") /\ UNCHANGED odd

EligibleIfRunning(t) == status[t] = "running"

Eligible(t) == status[t] # "terminated"

\* One turn of its loop, for a thread that is there.
Walking == pc = "walk" /\ next # current /\ next \notin freed \cup {0}

WalkPast ==
  /\ Walking /\ ~Eligible(next)
  /\ next' = link[next]
  /\ UNCHANGED <<pc, why, status, saved, current, list, alarm, odd>>

WalkStops ==
  /\ Walking /\ Eligible(next)
  /\ current' = next
  /\ pc' = "switch"
  /\ UNCHANGED <<why, status, saved, list, next, alarm, odd>>

\* Round the ring: every other thread has terminated, though the one that ran may
\* not have.
WalkEnds ==
  /\ pc = "walk" /\ next = current
  /\ pc' = "destroy"
  /\ UNCHANGED <<why, status, saved, current, list, next, alarm, odd>>

Start ==
  /\ pc = "switch" /\ status[current] = "new"
  /\ status' = [status EXCEPT ![current] = "running"]
  /\ pc' = "run"
  /\ UNCHANGED <<why, saved, current, list, alarm, next, odd>>

Resume ==
  /\ pc = "switch" /\ status[current] = "running" /\ saved[current] = "thread"
  /\ pc' = "run"
  /\ UNCHANGED <<why, status, saved, current, list, alarm, next, odd>>

\* longjmp to a buffer that is not that of a thread that yielded.
ResumeStale ==
  /\ pc = "switch" /\ status[current] # "new"
  /\ status[current] = "terminated" \/ saved[current] # "thread"
  /\ Crash("stale") /\ UNCHANGED odd

FreeableAny(t) == status[t] # "new"

\* The loop of destroy frees the threads at the head that have terminated.
Freeable(t) == status[t] = "terminated"

CurrentKept == current

CurrentAfterFree == 0

DestroyOne ==
  /\ pc = "destroy" /\ head # 0 /\ Freeable(head)
  /\ freed' = freed \cup {head}
  /\ IF head = tail
       THEN head' = 0 /\ tail' = 0 /\ link' = [link EXCEPT ![head] = 0] /\ pc' = "main"
       ELSE head' = link[head] /\ UNCHANGED <<tail, link, pc>>
  /\ current' = CurrentAfterFree
  /\ UNCHANGED <<why, status, saved, alarm, next, odd>>

DestroyEnd ==
  /\ pc = "destroy" /\ head # 0 /\ ~Freeable(head)
  /\ pc' = "main"
  /\ UNCHANGED <<why, status, saved, current, list, alarm, next, odd>>

\* With no thread at all, the status of head is read through NULL.
DestroyNull == pc = "destroy" /\ head = 0 /\ Crash("empty") /\ UNCHANGED odd

-----------------------------------------------------------------------------
(* User threads and the alarm.                                             *)

\* fnc returns; the alarm stays armed.
Return ==
  /\ pc = "run"
  /\ status' = [status EXCEPT ![current] = "terminated"]
  /\ pc' = "round"
  /\ UNCHANGED <<why, saved, current, list, alarm, next, odd>>

\* scheduler_yield, called in the context that place stands for.
YieldFrom(place) ==
  /\ saved' = [saved EXCEPT ![current] = place]
  /\ alarm' = FALSE
  /\ pc' = "round"
  /\ UNCHANGED <<why, status, current, list, next>>

Yield == pc = "run" /\ YieldFrom("thread") /\ UNCHANGED odd

Preempt == pc = "run" /\ alarm /\ YieldFrom("thread") /\ UNCHANGED odd

\* The alarm of a thread that has returned interrupts the scheduler on its way
\* back, before it is armed again: nobody will resume what is saved.
AlarmAfterReturn ==
  /\ alarm /\ pc = "round" /\ current # 0
  /\ YieldFrom("other")
  /\ UNCHANGED odd

\* The alarm just armed interrupts the scheduler.  It has a second, and takes it
\* only when the process is stopped or starved.
AlarmInScheduler ==
  /\ alarm /\ pc \in {"pick", "walk", "switch", "destroy"}
  /\ odd' = TRUE
  /\ IF current = 0 THEN Crash("alarm") ELSE YieldFrom("other")

\* The alarm just armed interrupts an iteration of destroy that has moved the head
\* and not yet forgotten the current thread: the old head is not in the list and
\* is never freed.  When it was the last thread its link is NULL by then; whether
\* head and tail are too makes no difference to the round, which does not read
\* them.  Later in an iteration no thread is current: the crash that
\* AlarmInScheduler takes after DestroyOne.
AlarmInDestroy ==
  /\ alarm /\ pc = "destroy" /\ head # 0 /\ Freeable(head) /\ current # 0
  /\ odd' = TRUE
  /\ IF head = tail
       THEN head' = 0 /\ tail' = 0 /\ link' = [link EXCEPT ![head] = 0]
       ELSE head' = link[head] /\ UNCHANGED <<tail, link>>
  /\ saved' = [saved EXCEPT ![current] = "other"]
  /\ alarm' = FALSE /\ pc' = "round"
  /\ UNCHANGED <<why, status, current, freed, next>>

\* The alarm interrupts a thread inside malloc, or between the three assignments of
\* scheduler_create that link the new thread, and the others meet a heap or a list
\* that is half made.  The model ends there and does not follow them.  An alarm
\* elsewhere in scheduler_create is Preempt, and then Create.
AlarmInCreate ==
  /\ pc = "run" /\ alarm /\ Created # Threads
  /\ odd' = TRUE
  /\ Crash("create")

\* The handler in the caller, or before the first round: current_thread is NULL,
\* or state.ctx leads to a frame that is gone.
AlarmInCaller ==
  /\ alarm
  /\ pc = "main" \/ (pc = "round" /\ current = 0)
  /\ odd' = TRUE
  /\ Crash("late")

SchedulerStep == \/ Round \/ PickFirst \/ PickNext \/ PickFreed
                 \/ WalkPast \/ WalkStops \/ WalkEnds
                 \/ Start \/ Resume \/ ResumeStale
                 \/ DestroyOne \/ DestroyEnd \/ DestroyNull

Next == \/ Create \/ CreateFails \/ Execute
        \/ SchedulerStep
        \/ Return \/ Yield \/ Preempt
        \/ AlarmAfterReturn \/ AlarmInScheduler \/ AlarmInDestroy
        \/ AlarmInCreate \/ AlarmInCaller

Spec == Init /\ [][Next]_vars

\* The scheduler's code runs on, and the alarm goes off in the end; a user thread
\* need not yield or return.
FairSpec == Spec /\ WF_vars(SchedulerStep) /\ WF_vars(Preempt)

-----------------------------------------------------------------------------
(* Properties.                                                             *)

\* Links, head, tail and the current thread name threads or are NULL, through
\* every misuse and every alarm.
TypeOK ==
  /\ pc \in {"main", "round", "pick", "walk", "switch", "run", "destroy", "crash"}
  /\ why \in {"-", "memory", "empty", "freed", "stale", "alarm", "create", "late"}
  /\ status \in [Threads -> {"none", "new", "running", "terminated"}]
  /\ saved \in [Threads -> {"none", "thread", "other"}]
  /\ link \in [Threads -> Threads \cup {0}]
  /\ head \in Threads \cup {0} /\ tail \in Threads \cup {0}
  /\ current \in Threads \cup {0} /\ next \in Threads \cup {0}
  /\ freed \subseteq Threads /\ alarm \in BOOLEAN /\ odd \in BOOLEAN

\* However creation, switching, misuse and the alarm interleave, also when the alarm
\* interrupts destroy itself, no thread is freed that could run again, and no freed
\* thread is the head, the tail or the current one.  (A scheduler_create that the
\* alarm cuts in two is not followed.)
FreesTheDead ==
  /\ \A t \in freed : status[t] = "terminated"
  /\ {head, tail, current} \cap freed = {}

\* While threads are scheduled, and create others, the list is one ring, in the order
\* of creation, through all that are not freed: none can drop out of the round.
RingIsWhole ==
  ~odd /\ pc \in {"round", "pick", "walk", "switch", "run"} =>
    /\ Created \ freed = head .. tail
    /\ \A t \in head .. tail : link[t] = IF t = tail THEN head ELSE t + 1

\* A caller that creates threads, and goes on only when all had terminated and
\* their alarm was over, meets no undefined behaviour: no freed thread, no stale
\* buffer and no NULL is used.  Steps that set odd are excused: misuse, a failed
\* malloc, and an alarm inside the scheduler, scheduler_create or the caller.
NeverCrashes == ~odd => pc # "crash"

\* scheduler_execute leaves at most one thread unfinished, one that yielded to
\* nobody and could be resumed, and none that never ran.
LeavesAtMostOne ==
  [][~odd /\ pc = "destroy" /\ pc' = "main" =>
       /\ \A t, u \in Unfinished : t = u
       /\ \A t \in Unfinished : status[t] = "running" /\ saved[t] = "thread"]_vars

\* While threads are scheduled each that is unfinished gets its turn, although the
\* others may never yield: the alarm and the round robin see to it.
NoStarvation ==
  \A t \in Threads :
    pc = "run" /\ t \in Unfinished
      ~> (pc = "run" /\ current = t) \/ t \notin Unfinished \/ odd
=============================================================================
