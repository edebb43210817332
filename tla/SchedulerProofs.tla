-------------------------- MODULE SchedulerProofs --------------------------
(***************************************************************************)
(* Theorems about Scheduler for any number of threads.  Threads are freed  *)
(* in the order in which they were created, so the list is an interval of  *)
(* the threads, and all before it have ended: that much holds whatever     *)
(* happens (LooseInv).  While nothing odd has happened all before it are   *)
(* freed and it is a ring (ListInv), and where the scheduler is says which *)
(* of its threads have ended (RoundInv, EndInv).                           *)
(***************************************************************************)
EXTENDS Scheduler, TLAPS

Listed == {t \in Threads : head <= t /\ t <= tail}

LooseInv ==
  /\ head <= tail /\ (head = 0 => tail = 0)
  /\ \A t, u \in Threads : status[t] # "none" /\ u <= t => status[u] # "none"
  /\ head # 0 => \A t \in Threads : t <= tail <=> status[t] # "none"
  /\ \A t \in Unfinished : t \in Listed
  /\ \A t \in freed : status[t] = "terminated" /\ (head # 0 => t < head)
  /\ \A t \in Listed : t # tail => link[t] = t + 1
  /\ \A t \in Created : link[t] \in Created \cup {0}
  /\ current # 0 => current \in Created \ freed
  /\ pc \in {"walk", "switch", "run"} => current # 0
  /\ pc = "walk" => next \in Created \cup {0}

ListInv ==
  /\ head <= tail /\ (head = 0 => tail = 0 /\ current = 0 /\ freed = Created)
  /\ head # 0 => /\ \A t \in Threads : t <= tail <=> status[t] # "none"
                 /\ \A t \in Threads : t \in freed <=> t < head
                 /\ link[tail] \in 1 .. head
  /\ \A t \in freed : status[t] = "terminated"
  /\ \A t \in Listed : t # tail => link[t] = t + 1
  /\ current # 0 => current \in Listed
  /\ pc \in {"walk", "switch", "run"} => current # 0
  /\ pc = "walk" => next \in 1 .. tail

InRound == pc \in {"round", "pick", "walk", "switch", "run"}

Terminated(t) == status[t] = "terminated"

\* The threads of the ring that the walk has passed.
Passed(t) == IF current < next THEN current < t /\ t < next
                               ELSE current < t \/ t < next

RoundInv ==
  /\ pc # "crash"
  /\ InRound \/ pc = "destroy" => head # 0
  /\ InRound => link[tail] = head
  /\ pc \in {"round", "pick"} /\ current = 0 => \A t \in Listed : status[t] = "new"
  /\ pc = "round" /\ alarm /\ current # 0 => Terminated(current)
  /\ pc \in {"round", "pick", "walk"} /\ current # 0 => status[current] # "new"
  /\ pc = "walk" => next \in Listed /\ \A t \in Listed : Passed(t) => Terminated(t)
  /\ pc = "switch" => ~Terminated(current)
  /\ pc = "run" => status[current] = "running"
  /\ \A t \in Threads : status[t] = "running" =>
       saved[t] = "thread" \/ (pc = "run" /\ t = current)

EndInv ==
  /\ pc = "destroy" =>
       /\ \A t \in Listed : status[t] # "new"
       /\ \A t, u \in Listed : ~Terminated(t) /\ ~Terminated(u) => t = u
       /\ current # 0 => \A t \in Listed : t # current => Terminated(t)
  /\ pc = "main" =>
       \/ \E t \in Threads : status[t] = "running"
       \/ /\ current = 0 /\ \A t \in Listed : status[t] = "new"
          /\ head # 0 => link[tail] = head

IInv == TypeOK /\ LooseInv /\ (~odd => ListInv /\ RoundInv /\ EndInv)

-----------------------------------------------------------------------------
(* Proofs.                                                                 *)

LEMMA InitIInv == Init => IInv
<1> SUFFICES ASSUME Init PROVE IInv
  OBVIOUS
<1>1. TypeOK
  BY DEF Init, TypeOK
<1>2. Created = {}
  BY DEF Init, Created
<1>3. \A t \in Threads : ~(t <= 0)
  BY SchedulerAssumption DEF Threads
<1>4. ListInv /\ LooseInv
  BY <1>2, <1>3 DEF Init, ListInv, LooseInv, Listed, Unfinished
<1>5. RoundInv /\ EndInv
  BY <1>3 DEF Init, RoundInv, EndInv, Listed, InRound
<1> QED
  BY <1>1, <1>4, <1>5 DEF IInv

LEMMA NextIInv == IInv /\ [Next]_vars => IInv'
<1> SUFFICES ASSUME IInv, [Next]_vars PROVE IInv'
  OBVIOUS
<1> USE SchedulerAssumption DEF list
<1>0. TypeOK /\ LooseInv /\ (~odd => ListInv /\ RoundInv /\ EndInv)
  BY DEF IInv
<1>1. CASE Create
  <2>0. PICK t \in Threads :
          /\ status[t] = "none" /\ Created = 1 .. t - 1
          /\ status' = [status EXCEPT ![t] = "new"]
          /\ link' = Linked(t)
          /\ head' = (IF head = 0 THEN t ELSE head) /\ tail' = t
    BY <1>1 DEF Create
  <2>1. /\ pc \in {"main", "run"}
        /\ UNCHANGED <<pc, why, saved, current, freed, alarm, next, odd>>
    BY <1>1 DEF Create, InUserCode
  <2>2. /\ t \in Nat /\ t > 0 /\ Created \subseteq Threads
        /\ Created' = 1 .. t
        /\ \A u \in Threads : status[u] # "none" <=> u < t
        /\ \A u \in Threads : status'[u] # "none" <=> u <= t
        /\ \A u \in Threads : u # t => status'[u] = status[u]
        /\ status'[t] = "new"
    <3>1. t \in Nat /\ t > 0 /\ Created \subseteq Threads
      BY <2>0 DEF Created, Threads
    <3>2. \A u \in Threads : u # t => status'[u] = status[u]
      BY <1>0, <2>0 DEF TypeOK
    <3>3. status'[t] = "new"
      BY <1>0, <2>0 DEF TypeOK
    <3>4. \A u \in Threads : status[u] # "none" <=> u < t
      BY <2>0, <3>1 DEF Created, Threads
    <3>5. \A u \in Threads : status'[u] # "none" <=> u <= t
      BY <3>1, <3>2, <3>3, <3>4 DEF Threads
    <3>6. Created' = 1 .. t
      BY <2>0, <3>1, <3>5 DEF Created, Threads
    <3> QED
      BY <3>1, <3>2, <3>3, <3>4, <3>5, <3>6
  <2>3. CASE head = 0
    <3>1. tail = 0 /\ \A u \in Created : status[u] = "terminated"
      BY <1>0, <2>3 DEF TypeOK, LooseInv, Unfinished, Listed, Created, Threads
    <3>2. link' = [link EXCEPT ![t] = t] /\ head' = t /\ tail' = t
      BY <2>0, <2>3 DEF Linked
    <3>3. TypeOK'
      BY <1>0, <2>0, <2>1, <3>2 DEF TypeOK
    <3>4. LooseInv'
      <4>1. \A u \in freed : u < t /\ status'[u] = "terminated"
        BY <1>0, <2>0, <2>2 DEF TypeOK, LooseInv, Threads
      <4>2. \A u \in Unfinished' : u \in Listed'
        BY <1>0, <2>0, <2>2, <3>1, <3>2 DEF TypeOK, Unfinished, Listed, Created, Threads
      <4>3. \A u \in Created' : link'[u] \in Created'
                             \/ link'[u] = 0
        BY <1>0, <2>0, <2>2, <3>2 DEF TypeOK, LooseInv, Threads
      <4>4. current # 0 => current \in Created' \ freed'
        BY <1>0, <2>0, <2>1, <2>2 DEF LooseInv, Threads
      <4>5. head' <= tail' /\ head' # 0 /\ \A u \in Listed' : u = tail'
        BY <2>2, <3>2 DEF Listed, Threads
      <4> QED
        BY <1>0, <2>1, <2>2, <3>2, <4>1, <4>2, <4>3, <4>4, <4>5 DEF LooseInv, Threads
    <3>5. ASSUME ~odd' PROVE ListInv'
      BY <1>0, <2>0, <2>1, <2>2, <3>1, <3>2, <3>5 DEF TypeOK, ListInv, Listed, Threads
    <3>6. ASSUME ~odd' PROVE RoundInv' /\ EndInv'
      BY <1>0, <2>0, <2>1, <2>2, <2>3, <3>1, <3>2, <3>6 DEF TypeOK, ListInv, Listed,
         Threads, RoundInv, EndInv, InRound
    <3> QED
      BY <3>3, <3>4, <3>5, <3>6 DEF IInv
  <2>4. CASE head # 0
    <3>1. tail = t - 1 /\ tail \in Threads /\ head \in Threads /\ tail # t /\ head <= tail
      BY <1>0, <2>0, <2>2, <2>4 DEF LooseInv, TypeOK, Threads
    <3>2. /\ link' = [link EXCEPT ![tail] = t, ![t] = head]
          /\ head' = head /\ tail' = t
      BY <2>0, <2>4 DEF Linked
    <3>3. TypeOK'
      BY <1>0, <2>0, <2>1, <3>1, <3>2 DEF TypeOK
    <3>4. /\ link'[t] = head /\ link'[tail] = t
          /\ \A u \in Threads : u # t /\ u # tail => link'[u] = link[u]
      BY <1>0, <3>1, <3>2 DEF TypeOK
    <3>5. \A u \in Listed' : u # t => link'[u] = u + 1
      <4> SUFFICES ASSUME NEW u \in Listed', u # t PROVE link'[u] = u + 1
        OBVIOUS
      <4>1. u \in Threads /\ head <= u /\ u <= tail
        BY <2>2, <3>1, <3>2 DEF Listed, Threads
      <4>2. CASE u = tail
        BY <3>1, <3>4, <4>2
      <4>3. CASE u # tail
        BY <1>0, <3>4, <4>1, <4>3 DEF LooseInv, Listed
      <4> QED
        BY <4>2, <4>3
    <3>6. \A u \in freed : status'[u] = "terminated" /\ u < head
      BY <1>0, <2>2, <2>4, <3>3 DEF TypeOK, LooseInv
    <3>7. LooseInv'
      <4>1. \A u \in Unfinished' : u \in Listed'
        BY <1>0, <2>2, <3>1, <3>2 DEF LooseInv, Unfinished, Listed, Threads
      <4>2. \A u \in Created' : link'[u] \in Created' \cup {0}
        BY <1>0, <2>0, <2>2, <3>1, <3>4 DEF LooseInv, Threads
      <4>3. current # 0 => current \in Created' \ freed'
        BY <1>0, <2>0, <2>1, <2>2 DEF LooseInv, Threads
      <4> QED
        BY <1>0, <2>1, <2>2, <2>4, <3>1, <3>2, <3>5, <3>6, <4>1, <4>2, <4>3
           DEF LooseInv, Threads
    <3>8. ASSUME ~odd' PROVE ListInv'
      <4>1. ListInv
        BY <1>0, <2>1, <3>8
      <4>2. current # 0 => current \in Listed'
        BY <3>1, <3>2, <4>1 DEF ListInv, Listed, Threads
      <4>3. head' <= tail' /\ head' # 0 /\ link'[tail'] \in 1 .. head'
        BY <2>4, <3>1, <3>2, <3>4 DEF Threads
      <4>4. \A u \in Threads : u \in freed' <=> u < head'
        BY <2>1, <2>4, <3>2, <4>1 DEF ListInv
      <4>5. \A u \in Threads : u <= tail' <=> status'[u] # "none"
        BY <2>2, <3>2
      <4> QED
        BY <2>1, <3>2, <3>5, <3>6, <4>1, <4>2, <4>3, <4>4, <4>5 DEF ListInv
    <3>9. ASSUME ~odd' PROVE RoundInv' /\ EndInv'
      BY <1>0, <2>0, <2>1, <2>2, <2>4, <3>1, <3>2, <3>4, <3>9 DEF TypeOK, ListInv,
         Listed, Threads, RoundInv, EndInv, InRound
    <3> QED
      BY <3>3, <3>7, <3>8, <3>9 DEF IInv
  <2> QED
    BY <2>3, <2>4
<1>2. CASE CreateFails
  <2>1. TypeOK'
    BY <1>0, <1>2 DEF CreateFails, Crash, InUserCode, TypeOK, LooseInv, Listed,
       Threads, Created
  <2>2. LooseInv'
    BY <1>0, <1>2 DEF CreateFails, Crash, InUserCode, TypeOK, LooseInv, Listed,
       Threads, Created, Unfinished
  <2>3. odd'
    BY <1>2 DEF CreateFails, Crash, InUserCode
  <2> QED
    BY <2>1, <2>2, <2>3 DEF IInv
<1>3. CASE Execute
  <2>1. TypeOK'
    BY <1>0, <1>3 DEF Execute, TypeOK, LooseInv, Listed, Threads, Created
  <2>2. LooseInv'
    BY <1>0, <1>3 DEF Execute, TypeOK, LooseInv, Listed, Threads, Created, Unfinished
  <2>3. ASSUME ~odd' PROVE ListInv'
    BY <1>0, <1>3, <2>3 DEF Execute, TypeOK, ListInv, Listed, Threads, Created
  <2>4. ASSUME ~odd' PROVE RoundInv'
    BY <1>0, <1>3, <2>4 DEF Execute, TypeOK, ListInv, Listed, Threads,
       RoundInv, EndInv, InRound, Terminated, Passed
  <2>5. ASSUME ~odd' PROVE EndInv'
    BY <1>0, <1>3, <2>5 DEF Execute, TypeOK, ListInv, Listed, Threads,
       RoundInv, EndInv, InRound, Terminated, Passed
  <2> QED
    BY <2>1, <2>2, <2>3, <2>4, <2>5 DEF IInv
<1>4. CASE Round
  <2>1. TypeOK'
    BY <1>0, <1>4 DEF Round, TypeOK, LooseInv, Listed, Threads, Created
  <2>2. LooseInv'
    BY <1>0, <1>4 DEF Round, TypeOK, LooseInv, Listed, Threads, Created, Unfinished
  <2>3. ASSUME ~odd' PROVE ListInv'
    BY <1>0, <1>4, <2>3 DEF Round, TypeOK, ListInv, Listed, Threads, Created
  <2>4. ASSUME ~odd' PROVE RoundInv'
    BY <1>0, <1>4, <2>4 DEF Round, TypeOK, ListInv, Listed, Threads,
       RoundInv, EndInv, InRound, Terminated, Passed
  <2>5. ASSUME ~odd' PROVE EndInv'
    BY <1>0, <1>4, <2>5 DEF Round, TypeOK, ListInv, Listed, Threads,
       RoundInv, EndInv, InRound, Terminated, Passed
  <2> QED
    BY <2>1, <2>2, <2>3, <2>4, <2>5 DEF IInv
<1>5. CASE PickFirst
  <2>1. TypeOK'
    BY <1>0, <1>5 DEF PickFirst, TypeOK, LooseInv, Listed, Threads, Created
  <2>2. LooseInv'
    BY <1>0, <1>5 DEF PickFirst, TypeOK, LooseInv, Listed, Threads, Created, Unfinished
  <2>3. ASSUME ~odd' PROVE ListInv'
    BY <1>0, <1>5, <2>3 DEF PickFirst, TypeOK, ListInv, Listed, Threads, Created
  <2>4. ASSUME ~odd' PROVE RoundInv'
    BY <1>0, <1>5, <2>4 DEF PickFirst, TypeOK, ListInv, Listed, Threads,
       RoundInv, EndInv, InRound, Terminated, Passed
  <2>5. ASSUME ~odd' PROVE EndInv'
    BY <1>0, <1>5, <2>5 DEF PickFirst, TypeOK, ListInv, Listed, Threads,
       RoundInv, EndInv, InRound, Terminated, Passed
  <2> QED
    BY <2>1, <2>2, <2>3, <2>4, <2>5 DEF IInv
<1>6. CASE PickNext
  <2>1. TypeOK'
    BY <1>0, <1>6 DEF PickNext, FirstNext, TypeOK, LooseInv, Listed, Threads, Created
  <2>2. LooseInv'
    BY <1>0, <1>6 DEF PickNext, FirstNext, TypeOK, LooseInv, Listed, Threads,
       Created, Unfinished
  <2>3. ASSUME ~odd' PROVE ListInv'
    BY <1>0, <1>6, <2>3 DEF PickNext, FirstNext, TypeOK, ListInv, Listed, Threads,
       Created
  <2>4. ASSUME ~odd' PROVE RoundInv'
    BY <1>0, <1>6, <2>4 DEF PickNext, FirstNext, TypeOK, ListInv, Listed, Threads,
       RoundInv, EndInv, InRound, Terminated, Passed
  <2>5. ASSUME ~odd' PROVE EndInv'
    BY <1>0, <1>6, <2>5 DEF PickNext, FirstNext, TypeOK, ListInv, Listed, Threads,
       RoundInv, EndInv, InRound, Terminated, Passed
  <2> QED
    BY <2>1, <2>2, <2>3, <2>4, <2>5 DEF IInv
<1>7. CASE PickFreed
  <2>1. TypeOK'
    BY <1>0, <1>7 DEF PickFreed, Crash, TypeOK, LooseInv, Listed, Threads, Created
  <2>2. LooseInv'
    BY <1>0, <1>7 DEF PickFreed, Crash, TypeOK, LooseInv, Listed, Threads, Created,
       Unfinished
  <2>3. ASSUME ~odd' PROVE ListInv'
    BY <1>0, <1>7, <2>3 DEF PickFreed, Crash, TypeOK, ListInv, Listed, Threads, Created
  <2>4. ASSUME ~odd' PROVE RoundInv'
    BY <1>0, <1>7, <2>4 DEF PickFreed, Crash, TypeOK, ListInv, Listed, Threads,
       RoundInv, EndInv, InRound, Terminated, Passed
  <2>5. ASSUME ~odd' PROVE EndInv'
    BY <1>0, <1>7, <2>5 DEF PickFreed, Crash, TypeOK, ListInv, Listed, Threads,
       RoundInv, EndInv, InRound, Terminated, Passed
  <2> QED
    BY <2>1, <2>2, <2>3, <2>4, <2>5 DEF IInv
<1>8. CASE WalkPast
  <2>1. TypeOK'
    BY <1>0, <1>8 DEF WalkPast, Walking, Eligible, TypeOK, LooseInv, Listed, Threads,
       Created
  <2>2. LooseInv'
    BY <1>0, <1>8 DEF WalkPast, Walking, Eligible, TypeOK, LooseInv, Listed, Threads,
       Created, Unfinished
  <2>3. ASSUME ~odd' PROVE ListInv'
    BY <1>0, <1>8, <2>3 DEF WalkPast, Walking, Eligible, TypeOK, ListInv, Listed,
       Threads, Created
  <2>4. ASSUME ~odd' PROVE RoundInv'
    BY <1>0, <1>8, <2>4 DEF WalkPast, Walking, Eligible, TypeOK, ListInv, Listed,
       Threads,
       RoundInv, EndInv, InRound, Terminated, Passed
  <2>5. ASSUME ~odd' PROVE EndInv'
    BY <1>0, <1>8, <2>5 DEF WalkPast, Walking, Eligible, TypeOK, ListInv, Listed,
       Threads,
       RoundInv, EndInv, InRound, Terminated, Passed
  <2> QED
    BY <2>1, <2>2, <2>3, <2>4, <2>5 DEF IInv
<1>9. CASE WalkStops
  <2>1. TypeOK'
    BY <1>0, <1>9 DEF WalkStops, Walking, Eligible, TypeOK, LooseInv, Listed,
       Threads, Created
  <2>2. LooseInv'
    BY <1>0, <1>9 DEF WalkStops, Walking, Eligible, TypeOK, LooseInv, Listed,
       Threads, Created, Unfinished
  <2>3. ASSUME ~odd' PROVE ListInv'
    BY <1>0, <1>9, <2>3 DEF WalkStops, Walking, Eligible, TypeOK, ListInv, Listed,
       Threads, Created
  <2>4. ASSUME ~odd' PROVE RoundInv'
    BY <1>0, <1>9, <2>4 DEF WalkStops, Walking, Eligible, TypeOK, ListInv, Listed,
       Threads,
       RoundInv, EndInv, InRound, Terminated, Passed
  <2>5. ASSUME ~odd' PROVE EndInv'
    BY <1>0, <1>9, <2>5 DEF WalkStops, Walking, Eligible, TypeOK, ListInv, Listed,
       Threads,
       RoundInv, EndInv, InRound, Terminated, Passed
  <2> QED
    BY <2>1, <2>2, <2>3, <2>4, <2>5 DEF IInv
<1>10. CASE WalkEnds
  <2>1. TypeOK'
    BY <1>0, <1>10 DEF WalkEnds, TypeOK, LooseInv, Listed, Threads, Created
  <2>2. LooseInv'
    BY <1>0, <1>10 DEF WalkEnds, TypeOK, LooseInv, Listed, Threads, Created, Unfinished
  <2>3. ASSUME ~odd' PROVE ListInv'
    BY <1>0, <1>10, <2>3 DEF WalkEnds, TypeOK, ListInv, Listed, Threads, Created
  <2>4. ASSUME ~odd' PROVE RoundInv'
    BY <1>0, <1>10, <2>4 DEF WalkEnds, TypeOK, ListInv, Listed, Threads,
       RoundInv, EndInv, InRound, Terminated, Passed
  <2>5. ASSUME ~odd' PROVE EndInv'
    BY <1>0, <1>10, <2>5 DEF WalkEnds, TypeOK, ListInv, Listed, Threads,
       RoundInv, EndInv, InRound, Terminated, Passed
  <2> QED
    BY <2>1, <2>2, <2>3, <2>4, <2>5 DEF IInv
<1>11. CASE Start
  <2>1. TypeOK'
    BY <1>0, <1>11 DEF Start, TypeOK, LooseInv, Listed, Threads, Created
  <2>2. LooseInv'
    BY <1>0, <1>11 DEF Start, TypeOK, LooseInv, Listed, Threads, Created, Unfinished
  <2>3. ASSUME ~odd' PROVE ListInv'
    BY <1>0, <1>11, <2>3 DEF Start, TypeOK, ListInv, Listed, Threads, Created
  <2>4. ASSUME ~odd' PROVE RoundInv'
    BY <1>0, <1>11, <2>4 DEF Start, TypeOK, ListInv, Listed, Threads,
       RoundInv, EndInv, InRound, Terminated, Passed
  <2>5. ASSUME ~odd' PROVE EndInv'
    BY <1>0, <1>11, <2>5 DEF Start, TypeOK, ListInv, Listed, Threads,
       RoundInv, EndInv, InRound, Terminated, Passed
  <2> QED
    BY <2>1, <2>2, <2>3, <2>4, <2>5 DEF IInv
<1>12. CASE Resume
  <2>1. TypeOK'
    BY <1>0, <1>12 DEF Resume, TypeOK, LooseInv, Listed, Threads, Created
  <2>2. LooseInv'
    BY <1>0, <1>12 DEF Resume, TypeOK, LooseInv, Listed, Threads, Created, Unfinished
  <2>3. ASSUME ~odd' PROVE ListInv'
    BY <1>0, <1>12, <2>3 DEF Resume, TypeOK, ListInv, Listed, Threads, Created
  <2>4. ASSUME ~odd' PROVE RoundInv'
    BY <1>0, <1>12, <2>4 DEF Resume, TypeOK, ListInv, Listed, Threads,
       RoundInv, EndInv, InRound, Terminated, Passed
  <2>5. ASSUME ~odd' PROVE EndInv'
    BY <1>0, <1>12, <2>5 DEF Resume, TypeOK, ListInv, Listed, Threads,
       RoundInv, EndInv, InRound, Terminated, Passed
  <2> QED
    BY <2>1, <2>2, <2>3, <2>4, <2>5 DEF IInv
<1>13. CASE ResumeStale
  <2>1. TypeOK'
    BY <1>0, <1>13 DEF ResumeStale, Crash, TypeOK, LooseInv, Listed, Threads, Created
  <2>2. LooseInv'
    BY <1>0, <1>13 DEF ResumeStale, Crash, TypeOK, LooseInv, Listed, Threads,
       Created, Unfinished
  <2>3. ASSUME ~odd' PROVE ListInv'
    BY <1>0, <1>13, <2>3 DEF ResumeStale, Crash, TypeOK, ListInv, Listed, Threads,
       Created
  <2>4. ASSUME ~odd' PROVE RoundInv'
    BY <1>0, <1>13, <2>4 DEF ResumeStale, Crash, TypeOK, ListInv, Listed, Threads,
       RoundInv, EndInv, InRound, Terminated, Passed
  <2>5. ASSUME ~odd' PROVE EndInv'
    BY <1>0, <1>13, <2>5 DEF ResumeStale, Crash, TypeOK, ListInv, Listed, Threads,
       RoundInv, EndInv, InRound, Terminated, Passed
  <2> QED
    BY <2>1, <2>2, <2>3, <2>4, <2>5 DEF IInv
<1>14. CASE DestroyOne
  <2>0. /\ pc = "destroy" /\ head \in Threads /\ Terminated(head)
        /\ freed' = freed \cup {head} /\ current' = 0
        /\ UNCHANGED <<why, status, saved, alarm, next, odd>>
    BY <1>0, <1>14 DEF DestroyOne, Freeable, CurrentAfterFree, TypeOK, Terminated
  <2>1. TypeOK'
    BY <1>0, <1>14 DEF DestroyOne, Freeable, CurrentAfterFree, TypeOK
  <2>2. ASSUME head = tail PROVE LooseInv' /\ (~odd' => ListInv')
    <3>1. /\ head' = 0 /\ tail' = 0 /\ link' = [link EXCEPT ![head] = 0]
          /\ pc' = "main"
      BY <1>14, <2>2 DEF DestroyOne
    <3>2. \A t \in Unfinished : FALSE
      BY <1>0, <2>0, <2>2 DEF LooseInv, Listed, Threads, Unfinished, Terminated
    <3>3. LooseInv'
      BY <1>0, <2>0, <3>1, <3>2 DEF TypeOK, LooseInv, Listed, Terminated, Threads,
         Created, Unfinished
    <3>4. ASSUME ~odd' PROVE ListInv'
      <4>1. \A t \in Threads : t \in freed' <=> status[t] # "none"
        BY <1>0, <2>0, <2>2, <3>4 DEF ListInv, Threads
      <4>2. freed' = Created'
        BY <2>0, <2>1, <4>1 DEF TypeOK, Created
      <4> QED
        BY <1>0, <2>0, <3>1, <3>4, <4>2 DEF ListInv, Listed, Terminated, Threads
    <3> QED
      BY <3>3, <3>4
  <2>3. ASSUME head # tail PROVE LooseInv' /\ (~odd' => ListInv')
    <3>1. head' = link[head] /\ UNCHANGED <<tail, link, pc>>
      BY <1>14, <2>3 DEF DestroyOne
    <3>2. link[head] = head + 1 /\ head < tail
      BY <1>0, <2>0, <2>3 DEF TypeOK, LooseInv, Listed, Threads
    <3>3. LooseInv'
      BY <1>0, <2>0, <3>1, <3>2 DEF TypeOK, LooseInv, Listed, Terminated, Threads,
         Created, Unfinished
    <3>4. ASSUME ~odd' PROVE ListInv'
      BY <1>0, <2>0, <3>1, <3>2, <3>4 DEF TypeOK, ListInv, Listed, Terminated, Threads
    <3> QED
      BY <3>3, <3>4
  <2>4. LooseInv' /\ (~odd' => ListInv')
    BY <2>2, <2>3
  <2>5. ASSUME ~odd' PROVE RoundInv'
    BY <1>0, <1>14, <2>5 DEF DestroyOne, Freeable, CurrentAfterFree, TypeOK, ListInv,
       Listed, Threads, RoundInv, EndInv, InRound, Terminated, Passed
  <2>6. ASSUME ~odd' PROVE EndInv'
    BY <1>0, <1>14, <2>6 DEF DestroyOne, Freeable, CurrentAfterFree, TypeOK, ListInv,
       Listed, Threads, RoundInv, EndInv, InRound, Terminated, Passed
  <2> QED
    BY <2>1, <2>4, <2>5, <2>6 DEF IInv
<1>15. CASE DestroyEnd
  <2>1. TypeOK'
    BY <1>0, <1>15 DEF DestroyEnd, Freeable, TypeOK, LooseInv, Listed, Threads, Created
  <2>2. LooseInv'
    BY <1>0, <1>15 DEF DestroyEnd, Freeable, TypeOK, LooseInv, Listed, Threads,
       Created, Unfinished
  <2>3. ASSUME ~odd' PROVE ListInv'
    BY <1>0, <1>15, <2>3 DEF DestroyEnd, Freeable, TypeOK, ListInv, Listed, Threads,
       Created
  <2>4. ASSUME ~odd' PROVE RoundInv'
    BY <1>0, <1>15, <2>4 DEF DestroyEnd, Freeable, TypeOK, ListInv, Listed, Threads,
       RoundInv, EndInv, InRound, Terminated, Passed
  <2>5. ASSUME ~odd' PROVE EndInv'
    BY <1>0, <1>15, <2>5 DEF DestroyEnd, Freeable, TypeOK, ListInv, Listed, Threads,
       RoundInv, EndInv, InRound, Terminated, Passed
  <2> QED
    BY <2>1, <2>2, <2>3, <2>4, <2>5 DEF IInv
<1>16. CASE DestroyNull
  <2>1. TypeOK'
    BY <1>0, <1>16 DEF DestroyNull, Crash, TypeOK, LooseInv, Listed, Threads, Created
  <2>2. LooseInv'
    BY <1>0, <1>16 DEF DestroyNull, Crash, TypeOK, LooseInv, Listed, Threads,
       Created, Unfinished
  <2>3. ASSUME ~odd' PROVE ListInv'
    BY <1>0, <1>16, <2>3 DEF DestroyNull, Crash, TypeOK, ListInv, Listed, Threads,
       Created
  <2>4. ASSUME ~odd' PROVE RoundInv'
    BY <1>0, <1>16, <2>4 DEF DestroyNull, Crash, TypeOK, ListInv, Listed, Threads,
       RoundInv, EndInv, InRound, Terminated, Passed
  <2>5. ASSUME ~odd' PROVE EndInv'
    BY <1>0, <1>16, <2>5 DEF DestroyNull, Crash, TypeOK, ListInv, Listed, Threads,
       RoundInv, EndInv, InRound, Terminated, Passed
  <2> QED
    BY <2>1, <2>2, <2>3, <2>4, <2>5 DEF IInv
<1>17. CASE Return
  <2>1. TypeOK'
    BY <1>0, <1>17 DEF Return, TypeOK, LooseInv, Listed, Threads, Created
  <2>2. LooseInv'
    BY <1>0, <1>17 DEF Return, TypeOK, LooseInv, Listed, Threads, Created, Unfinished
  <2>3. ASSUME ~odd' PROVE ListInv'
    BY <1>0, <1>17, <2>3 DEF Return, TypeOK, ListInv, Listed, Threads, Created
  <2>4. ASSUME ~odd' PROVE RoundInv'
    BY <1>0, <1>17, <2>4 DEF Return, TypeOK, ListInv, Listed, Threads,
       RoundInv, EndInv, InRound, Terminated, Passed
  <2>5. ASSUME ~odd' PROVE EndInv'
    BY <1>0, <1>17, <2>5 DEF Return, TypeOK, ListInv, Listed, Threads,
       RoundInv, EndInv, InRound, Terminated, Passed
  <2> QED
    BY <2>1, <2>2, <2>3, <2>4, <2>5 DEF IInv
<1>18. CASE Yield
  <2>1. TypeOK'
    BY <1>0, <1>18 DEF Yield, YieldFrom, TypeOK, LooseInv, Listed, Threads, Created
  <2>2. LooseInv'
    BY <1>0, <1>18 DEF Yield, YieldFrom, TypeOK, LooseInv, Listed, Threads, Created,
       Unfinished
  <2>3. ASSUME ~odd' PROVE ListInv'
    BY <1>0, <1>18, <2>3 DEF Yield, YieldFrom, TypeOK, ListInv, Listed, Threads, Created
  <2>4. ASSUME ~odd' PROVE RoundInv'
    BY <1>0, <1>18, <2>4 DEF Yield, YieldFrom, TypeOK, ListInv, Listed, Threads,
       RoundInv, EndInv, InRound, Terminated, Passed
  <2>5. ASSUME ~odd' PROVE EndInv'
    BY <1>0, <1>18, <2>5 DEF Yield, YieldFrom, TypeOK, ListInv, Listed, Threads,
       RoundInv, EndInv, InRound, Terminated, Passed
  <2> QED
    BY <2>1, <2>2, <2>3, <2>4, <2>5 DEF IInv
<1>19. CASE Preempt
  <2>1. TypeOK'
    BY <1>0, <1>19 DEF Preempt, YieldFrom, TypeOK, LooseInv, Listed, Threads, Created
  <2>2. LooseInv'
    BY <1>0, <1>19 DEF Preempt, YieldFrom, TypeOK, LooseInv, Listed, Threads,
       Created, Unfinished
  <2>3. ASSUME ~odd' PROVE ListInv'
    BY <1>0, <1>19, <2>3 DEF Preempt, YieldFrom, TypeOK, ListInv, Listed, Threads,
       Created
  <2>4. ASSUME ~odd' PROVE RoundInv'
    BY <1>0, <1>19, <2>4 DEF Preempt, YieldFrom, TypeOK, ListInv, Listed, Threads,
       RoundInv, EndInv, InRound, Terminated, Passed
  <2>5. ASSUME ~odd' PROVE EndInv'
    BY <1>0, <1>19, <2>5 DEF Preempt, YieldFrom, TypeOK, ListInv, Listed, Threads,
       RoundInv, EndInv, InRound, Terminated, Passed
  <2> QED
    BY <2>1, <2>2, <2>3, <2>4, <2>5 DEF IInv
<1>20. CASE AlarmAfterReturn
  <2>1. TypeOK'
    BY <1>0, <1>20 DEF AlarmAfterReturn, YieldFrom, TypeOK, LooseInv, Listed,
       Threads, Created
  <2>2. LooseInv'
    BY <1>0, <1>20 DEF AlarmAfterReturn, YieldFrom, TypeOK, LooseInv, Listed,
       Threads, Created, Unfinished
  <2>3. ASSUME ~odd' PROVE ListInv'
    BY <1>0, <1>20, <2>3 DEF AlarmAfterReturn, YieldFrom, TypeOK, ListInv, Listed,
       Threads, Created
  <2>4. ASSUME ~odd' PROVE RoundInv'
    BY <1>0, <1>20, <2>4 DEF AlarmAfterReturn, YieldFrom, TypeOK, ListInv, Listed,
       Threads,
       RoundInv, EndInv, InRound, Terminated, Passed
  <2>5. ASSUME ~odd' PROVE EndInv'
    BY <1>0, <1>20, <2>5 DEF AlarmAfterReturn, YieldFrom, TypeOK, ListInv, Listed,
       Threads,
       RoundInv, EndInv, InRound, Terminated, Passed
  <2> QED
    BY <2>1, <2>2, <2>3, <2>4, <2>5 DEF IInv
<1>21. CASE AlarmInScheduler
  <2>1. TypeOK'
    BY <1>0, <1>21 DEF AlarmInScheduler, YieldFrom, Crash, TypeOK, LooseInv, Listed,
       Threads, Created
  <2>2. UNCHANGED <<status, current, list, next>> /\ pc' \in {"crash", "round"}
    BY <1>21 DEF AlarmInScheduler, YieldFrom, Crash
  <2>3. LooseInv'
    BY <1>0, <2>2 DEF LooseInv, Listed, Created, Unfinished
  <2>4. odd'
    BY <1>21 DEF AlarmInScheduler, YieldFrom, Crash
  <2> QED
    BY <2>1, <2>3, <2>4 DEF IInv
<1>22. CASE AlarmInCaller
  <2>1. TypeOK'
    BY <1>0, <1>22 DEF AlarmInCaller, Crash, TypeOK, LooseInv, Listed, Threads, Created
  <2>2. LooseInv'
    BY <1>0, <1>22 DEF AlarmInCaller, Crash, TypeOK, LooseInv, Listed, Threads,
       Created, Unfinished
  <2>3. odd'
    BY <1>22 DEF AlarmInCaller, Crash
  <2> QED
    BY <2>1, <2>2, <2>3 DEF IInv
<1>23. CASE AlarmInDestroy
  <2>0. /\ head \in Threads /\ Terminated(head) /\ odd'
        /\ pc' = "round"
        /\ UNCHANGED <<status, current, freed, next>>
    BY <1>0, <1>23 DEF AlarmInDestroy, Freeable, TypeOK, Terminated
  <2>1. TypeOK'
    BY <1>0, <1>23 DEF AlarmInDestroy, Freeable, TypeOK
  <2>2. ASSUME head = tail PROVE LooseInv'
    <3>1. head' = 0 /\ tail' = 0 /\ link' = [link EXCEPT ![head] = 0]
      BY <1>23, <2>2 DEF AlarmInDestroy
    <3>2. Unfinished' = {} /\ Created' = Created
      BY <1>0, <2>0, <2>2 DEF LooseInv, Listed, Threads, Unfinished, Created, Terminated
    <3>3. \A t \in Created' : link'[t] \in Created' \cup {0}
      BY <1>0, <2>0, <3>1, <3>2 DEF TypeOK, LooseInv
    <3>4. \A t \in Listed' : FALSE
      BY <3>1 DEF Listed, Threads
    <3> QED
      BY <1>0, <2>0, <3>1, <3>2, <3>3, <3>4 DEF LooseInv
  <2>3. ASSUME head # tail PROVE LooseInv'
    <3>1. head' = link[head] /\ UNCHANGED <<tail, link>>
      BY <1>23, <2>3 DEF AlarmInDestroy
    <3>2. head' = head + 1 /\ head < tail
      BY <1>0, <2>0, <2>3, <3>1 DEF TypeOK, LooseInv, Listed, Threads
    <3>3. Unfinished' = Unfinished /\ Created' = Created
      BY <2>0 DEF Unfinished, Created
    <3>4. \A t \in Unfinished' : t \in Listed'
      BY <1>0, <2>0, <3>1, <3>2, <3>3 DEF LooseInv, Listed, Unfinished, Terminated, Threads
    <3>5. \A t \in Listed' : t \in Listed
      BY <1>0, <2>0, <3>1, <3>2 DEF Listed, Threads
    <3>6. \A t \in freed' : t < head'
      BY <1>0, <2>0, <3>2 DEF TypeOK, LooseInv, Threads
    <3>7. head' <= tail' /\ head' # 0 /\ head # 0
      BY <1>0, <2>0, <3>1, <3>2 DEF TypeOK, Threads
    <3> QED
      BY <1>0, <2>0, <3>1, <3>3, <3>4, <3>5, <3>6, <3>7 DEF LooseInv
  <2>4. LooseInv'
    BY <2>2, <2>3
  <2> QED
    BY <2>0, <2>1, <2>4 DEF IInv
<1>24. CASE AlarmInCreate
  <2>1. TypeOK'
    BY <1>0, <1>24 DEF AlarmInCreate, Crash, TypeOK, LooseInv, Listed, Threads, Created
  <2>2. LooseInv'
    BY <1>0, <1>24 DEF AlarmInCreate, Crash, TypeOK, LooseInv, Listed, Threads,
       Created, Unfinished
  <2>3. odd'
    BY <1>24 DEF AlarmInCreate, Crash
  <2> QED
    BY <2>1, <2>2, <2>3 DEF IInv
<1>25. CASE UNCHANGED vars
  BY <1>0, <1>25 DEF vars, IInv, TypeOK, LooseInv, ListInv, RoundInv, EndInv, Listed,
     Created, Unfinished, InRound, Terminated, Passed
<1> QED
  BY <1>1, <1>2, <1>3, <1>4, <1>5, <1>6, <1>7, <1>8, <1>9,
     <1>10, <1>11, <1>12, <1>13, <1>14, <1>15, <1>16, <1>17, <1>18,
     <1>19, <1>20, <1>21, <1>22, <1>23, <1>24, <1>25
     DEF Next, SchedulerStep

-----------------------------------------------------------------------------
\* Every link and every place of the scheduler is one of its declared values, for
\* any number of threads and through every crash.
THEOREM TypeCorrect == Spec => []TypeOK
<1>1. IInv => TypeOK
  BY DEF IInv
<1> QED
  BY <1>1, InitIInv, NextIInv, PTL DEF Spec

\* destroy frees only threads that have terminated, and leaves none of them as the
\* head, the tail or the current thread, whatever the caller and the alarm do.
THEOREM FreesOnlyTheDead == Spec => []FreesTheDead
<1>1. IInv => FreesTheDead
  BY SchedulerAssumption DEF IInv, TypeOK, LooseInv, Threads, FreesTheDead
<1> QED
  BY <1>1, InitIInv, NextIInv, PTL DEF Spec

\* While threads are scheduled and nothing odd has happened, the list is a ring of
\* all the threads that are not freed.
THEOREM RingStaysWhole == Spec => []RingIsWhole
<1>1. IInv => RingIsWhole
  <2> SUFFICES ASSUME IInv, ~odd, InRound
               PROVE  /\ Created \ freed = head .. tail
                      /\ \A t \in head .. tail : link[t] = IF t = tail THEN head ELSE t + 1
    BY DEF RingIsWhole, InRound
  <2>1. /\ TypeOK /\ ListInv /\ head # 0 /\ link[tail] = head
    BY DEF IInv, RoundInv
  <2>2. \A t \in head .. tail : t \in Listed
    BY <2>1, SchedulerAssumption DEF TypeOK, Listed, Threads
  <2>3. Created \ freed = head .. tail
    BY <2>1, <2>2, SchedulerAssumption DEF ListInv, TypeOK, Created, Listed, Threads
  <2> QED
    BY <2>1, <2>2, <2>3 DEF ListInv
<1> QED
  BY <1>1, InitIInv, NextIInv, PTL DEF Spec

\* The scheduler uses no freed thread, no stale buffer and no NULL, unless something
\* odd has happened.
THEOREM NoCrash == Spec => []NeverCrashes
<1>1. IInv => NeverCrashes
  BY DEF IInv, RoundInv, NeverCrashes
<1> QED
  BY <1>1, InitIInv, NextIInv, PTL DEF Spec

\* scheduler_execute returns with at most one thread unfinished, which has run and
\* could be resumed.
THEOREM AtMostOneLeft == Spec => LeavesAtMostOne
<1>1. ASSUME IInv, [Next]_vars, ~odd, pc = "destroy", pc' = "main"
      PROVE  /\ \A t, u \in Unfinished : t = u
             /\ \A t \in Unfinished : status[t] = "running" /\ saved[t] = "thread"
  <2>1. /\ TypeOK /\ ListInv /\ RoundInv /\ EndInv /\ head # 0
    BY <1>1 DEF IInv, RoundInv
  <2>2. \A t \in Unfinished : t \in Listed /\ ~Terminated(t)
    BY <2>1, SchedulerAssumption DEF TypeOK, ListInv, Unfinished, Listed, Terminated,
       Threads
  <2>3. \A t, u \in Unfinished : t = u
    BY <1>1, <2>1, <2>2 DEF EndInv
  <2>4. \A t \in Unfinished : status[t] = "running" /\ saved[t] = "thread"
    BY <1>1, <2>1, <2>2 DEF EndInv, RoundInv, Unfinished, Listed
  <2> QED
    BY <2>3, <2>4
<1>2. IInv /\ [Next]_vars => [~odd /\ pc = "destroy" /\ pc' = "main" =>
        /\ \A t, u \in Unfinished : t = u
        /\ \A t \in Unfinished : status[t] = "running" /\ saved[t] = "thread"]_vars
  BY <1>1
<1> QED
  BY <1>2, InitIInv, NextIInv, PTL DEF Spec, LeavesAtMostOne
=============================================================================
