---------------------------- MODULE JobListProofs ----------------------------
(***************************************************************************)
(* The invariants of module JobList, for every number of slots and of      *)
(* processes and every bound on the ids.                                   *)
(***************************************************************************)
EXTENDS JobList, JobTableProofs

(* maxjid is the id of a slot, or 0, and no slot has a greater one.        *)
LEMMA MaxjidIsGreatest ==
    ASSUME NEW b \in Nat, NEW list \in JobLists(b)
    PROVE  /\ maxjid(list) \in 0 .. b
           /\ \A i \in Slots : list[i].jid <= maxjid(list)
           /\ maxjid(list) = 0 \/ \E i \in Slots : list[i].jid = maxjid(list)
<1> DEFINE S == {list[i].jid : i \in Slots} \cup {0}
<1>1. \A k \in S : k \in 0 .. b
  BY DEF JobLists
<1>2. S \in SUBSET Nat /\ S # {} /\ \A k \in S : k <= b
  BY <1>1
<1>3. Max(S) \in S /\ \A k \in S : k <= Max(S)
  <2> HIDE DEF S
  <2> QED
    BY <1>2, MaxOfNats
<1>4. maxjid(list) = Max(S)
  BY DEF maxjid
<1>5. \A i \in Slots : list[i].jid \in S
  OBVIOUS
<1> QED
  BY <1>1, <1>3, <1>4, <1>5

(* The list as JidBound keeps it.                                          *)
Bounded == jobs \in JobLists(JidBound) /\ nextjid \in 1 .. JidBound + 1

(* Every id in use is below the next one, or one is at least MAXJOBS.      *)
IInv == Bounded /\ OneSlotPerProcess /\ EmptyListRestarts /\ FreshUnlessWrapped

(* The empty list satisfies the invariant.                                 *)
LEMMA InitIInv == Init => IInv
<1> SUFFICES ASSUME Init PROVE IInv
  OBVIOUS
<1> USE JidBoundAssumption
<1>1. \A i \in Slots : jobs[i] = clearjob
  BY DEF Init, initjobs
<1>2. Bounded
  BY InitjobsType DEF Init, Bounded
<1>3. OneSlotPerProcess
  BY <1>1 DEF OneSlotPerProcess, clearjob
<1>4. EmptyListRestarts
  BY DEF Init, EmptyListRestarts
<1>5. maxjid(jobs) = 0
  <2>1. \A i \in Slots : jobs[i].jid = 0
    BY <1>1 DEF clearjob
  <2> QED
    BY <1>2, <2>1, MaxjidIsGreatest DEF Bounded
<1>6. FreshUnlessWrapped
  BY <1>5 DEF Init, FreshUnlessWrapped
<1> QED
  BY <1>2, <1>3, <1>4, <1>6 DEF IInv

(* addjob leaves a full list alone; otherwise it fills a free slot.        *)
LEMMA AddStep ==
    ASSUME IInv, NEW pid \in PID, NEW state \in {"FG", "BG"}, Add(pid, state)
    PROVE  /\ Bounded'
           /\ \/ jobs' = jobs /\ nextjid' = nextjid
              \/ \E k \in Slots :
                   /\ jobs[k].pid = NoPid
                   /\ jobs' = [jobs EXCEPT ![k] =
                                 [pid |-> pid, jid |-> nextjid, state |-> state]]
                   /\ nextjid' = bumpjid(nextjid)
<1> DEFINE new == addjob(jobs, nextjid, pid, state)
<1>1. jobs' = new.jobs /\ nextjid' = new.nextjid /\ nextjid \in 1 .. JidBound
  BY JidBoundAssumption DEF Add, IInv, Bounded
<1>2. Bounded'
  <2>1. state \in States
    BY DEF States
  <2> QED
    BY <1>1, <2>1, AddjobEffect, JidBoundAssumption DEF IInv, Bounded
<1>3. CASE Full(jobs)
  BY <1>1, <1>2, <1>3 DEF addjob
<1>4. CASE ~Full(jobs)
  <2> DEFINE k == getjobpid(jobs, NoPid)
  <2>1. SlotsOfPid(jobs, NoPid) \in SUBSET Slots /\ SlotsOfPid(jobs, NoPid) # {}
    BY <1>4 DEF Full, SlotsOfPid
  <2>2. k \in Slots /\ jobs[k].pid = NoPid
    BY <2>1, FirstOfMatches DEF getjobpid, SlotsOfPid
  <2>3. new = [jobs    |-> [jobs EXCEPT ![k] = [pid |-> pid, jid |-> nextjid, state |-> state]],
               nextjid |-> bumpjid(nextjid)]
    BY <1>4 DEF addjob
  <2> HIDE DEF new, k
  <2> QED
    BY <1>1, <1>2, <2>2, <2>3
<1> QED
  BY <1>3, <1>4

(* deletejob clears a slot and numbers on from the ids that are left.      *)
LEMMA DeleteStep ==
    ASSUME IInv, NEW pid \in PID, Delete(pid)
    PROVE  /\ Bounded'
           /\ \/ jobs' = jobs /\ nextjid' = nextjid
              \/ /\ \E k \in Slots : jobs' = [jobs EXCEPT ![k] = clearjob]
                 /\ nextjid' = maxjid(jobs') + 1
<1> DEFINE new == deletejob(jobs, nextjid, pid)
<1>1. jobs' = new.jobs /\ nextjid' = new.nextjid
  BY DEF Delete
<1>2. Bounded'
  BY <1>1, DeletejobEffect, JidBoundAssumption DEF IInv, Bounded
<1>3. CASE SlotsOfPid(jobs, pid) = {}
  BY <1>1, <1>2, <1>3 DEF deletejob
<1>4. CASE SlotsOfPid(jobs, pid) # {}
  <2> DEFINE k       == getjobpid(jobs, pid)
             cleared == [jobs EXCEPT ![k] = clearjob]
  <2>1. SlotsOfPid(jobs, pid) \in SUBSET Slots
    BY DEF SlotsOfPid
  <2>2. k \in Slots
    BY <1>4, <2>1, FirstOfMatches DEF getjobpid
  <2>3. new = [jobs |-> cleared, nextjid |-> maxjid(cleared) + 1]
    BY <1>4 DEF deletejob
  <2> HIDE DEF new, k
  <2>4. jobs' = cleared /\ nextjid' = maxjid(cleared) + 1
    BY <1>1, <2>3
  <2> QED
    BY <1>2, <2>2, <2>4
<1> QED
  BY <1>3, <1>4

(* Writing a state changes neither the processes listed nor their ids.     *)
LEMMA SetStateStep ==
    ASSUME IInv, NEW pid \in PID, NEW state \in {"FG", "BG", "ST"}, SetState(pid, state)
    PROVE  /\ Bounded'
           /\ nextjid' = nextjid
           /\ \E k \in Slots :
                jobs[k].pid # NoPid /\ jobs' = [jobs EXCEPT ![k].state = state]
<1> DEFINE k == getjobpid(jobs, pid)
<1>1. SlotsOfPid(jobs, pid) \in SUBSET Slots /\ SlotsOfPid(jobs, pid) # {}
  BY DEF SetState, Listed, SlotsOfPid
<1>2. k \in Slots /\ jobs[k].pid = pid
  BY <1>1, FirstOfMatches DEF getjobpid, SlotsOfPid
<1>3. jobs[k].pid # NoPid
  BY <1>2, PidAssumption
<1>4. jobs' = setstate(jobs, k, state) /\ nextjid' = nextjid
  BY DEF SetState
<1>5. state \in States
  BY DEF States
<1> HIDE DEF k
<1>6. Bounded'
  BY <1>2, <1>4, <1>5, SetstateType, JidBoundAssumption DEF IInv, Bounded
<1> QED
  BY <1>2, <1>3, <1>4, <1>6 DEF setstate

(* Every call on the list preserves it.                                    *)
LEMMA NextIInv == IInv /\ [Next]_vars => IInv'
<1> SUFFICES ASSUME IInv, [Next]_vars PROVE IInv'
  OBVIOUS
<1>0. /\ DOMAIN jobs = Slots /\ \A i \in Slots : jobs[i].jid \in 0 .. JidBound
      /\ nextjid \in Nat \ {0}
  BY JidBoundAssumption DEF IInv, Bounded, JobLists
<1>1. ASSUME NEW pid \in PID, NEW state \in {"FG", "BG"}, Add(pid, state)
      PROVE  IInv'
  <2>1. Bounded'
    BY <1>1, AddStep
  <2>2. CASE jobs' = jobs /\ nextjid' = nextjid
    BY <2>1, <2>2 DEF IInv, OneSlotPerProcess, EmptyListRestarts, FreshUnlessWrapped, maxjid
  <2>3. CASE jobs' # jobs \/ nextjid' # nextjid
    <3>1. PICK k \in Slots :
            /\ jobs[k].pid = NoPid
            /\ jobs' = [jobs EXCEPT ![k] = [pid |-> pid, jid |-> nextjid, state |-> state]]
            /\ nextjid' = bumpjid(nextjid)
      BY <1>1, <2>3, AddStep
    <3>2. /\ jobs'[k] = [pid |-> pid, jid |-> nextjid, state |-> state]
          /\ \A i \in Slots \ {k} : jobs'[i] = jobs[i]
      BY <1>0, <3>1
    <3>3. OneSlotPerProcess'
      <4>1. \A i \in Slots : jobs[i].pid # pid
        BY <1>1 DEF Add, Listed, SlotsOfPid
      <4> QED
        BY <1>0, <3>2, <4>1, PidAssumption DEF IInv, OneSlotPerProcess
    <3>4. EmptyListRestarts'
      BY <3>2, PidAssumption DEF EmptyListRestarts
    <3>5. FreshUnlessWrapped'
      <4>1. /\ maxjid(jobs') \in Nat
            /\ \A i \in Slots : jobs'[i].jid <= maxjid(jobs')
            /\ maxjid(jobs') = 0 \/ \E i \in Slots : jobs'[i].jid = maxjid(jobs')
        BY <2>1, MaxjidIsGreatest, JidBoundAssumption DEF Bounded
      <4>2. maxjid(jobs) \in Nat /\ (\A i \in Slots : jobs[i].jid <= maxjid(jobs))
            /\ (maxjid(jobs) = 0 \/ \E i \in Slots : jobs[i].jid = maxjid(jobs))
        BY MaxjidIsGreatest, JidBoundAssumption DEF IInv, Bounded
      <4>3. nextjid <= maxjid(jobs')
        BY <3>2, <4>1
      <4>4. CASE nextjid >= MAXJOBS
        BY <1>0, <4>1, <4>3, <4>4, MaxJobsAssumption DEF FreshUnlessWrapped
      <4>5. CASE ~(nextjid >= MAXJOBS)
        <5>1. nextjid' = nextjid + 1
          BY <1>0, <3>1, <4>5, MaxJobsAssumption DEF bumpjid
        <5>2. SUFFICES ASSUME nextjid' <= maxjid(jobs') PROVE maxjid(jobs') >= MAXJOBS
          BY DEF FreshUnlessWrapped
        <5>3. PICK i \in Slots : jobs'[i].jid = maxjid(jobs')
          BY <1>0, <4>1, <5>1, <5>2
        <5>4. i # k
          BY <1>0, <3>2, <5>1, <5>2, <5>3
        <5>5. nextjid <= maxjid(jobs)
          BY <1>0, <3>2, <4>1, <4>2, <5>1, <5>2, <5>3, <5>4
        <5>6. maxjid(jobs) >= MAXJOBS
          BY <5>5 DEF IInv, FreshUnlessWrapped
        <5>7. PICK n \in Slots : jobs[n].jid = maxjid(jobs)
          BY <1>0, <4>2, <5>5
        <5>8. n # k
          BY <1>0, <3>1, <4>2, <5>5, <5>7 DEF IInv, OneSlotPerProcess
        <5>9. maxjid(jobs) <= maxjid(jobs')
          BY <3>2, <4>1, <5>7, <5>8
        <5> QED
          BY <4>1, <4>2, <5>6, <5>9, MaxJobsAssumption
      <4> QED
        BY <4>4, <4>5
    <3> QED
      BY <2>1, <3>3, <3>4, <3>5 DEF IInv
  <2> QED
    BY <2>2, <2>3
<1>2. ASSUME NEW pid \in PID, Delete(pid)
      PROVE  IInv'
  <2>1. Bounded'
    BY <1>2, DeleteStep
  <2>2. CASE jobs' = jobs /\ nextjid' = nextjid
    BY <2>1, <2>2 DEF IInv, OneSlotPerProcess, EmptyListRestarts, FreshUnlessWrapped, maxjid
  <2>3. CASE jobs' # jobs \/ nextjid' # nextjid
    <3>1. PICK k \in Slots : jobs' = [jobs EXCEPT ![k] = clearjob]
      BY <1>2, <2>3, DeleteStep
    <3>2. nextjid' = maxjid(jobs') + 1
      BY <1>2, <2>3, DeleteStep
    <3>3. jobs'[k] = clearjob /\ \A i \in Slots \ {k} : jobs'[i] = jobs[i]
      BY <1>0, <3>1
    <3>4. OneSlotPerProcess'
      BY <3>3 DEF IInv, OneSlotPerProcess, clearjob
    <3>5. /\ maxjid(jobs') \in Nat
          /\ maxjid(jobs') = 0 \/ \E i \in Slots : jobs'[i].jid = maxjid(jobs')
      BY <2>1, MaxjidIsGreatest, JidBoundAssumption DEF Bounded
    <3>6. EmptyListRestarts'
      <4>1. SUFFICES ASSUME \A i \in Slots : jobs'[i].pid = NoPid PROVE nextjid' = 1
        BY DEF EmptyListRestarts
      <4>2. \A i \in Slots : jobs'[i].jid = 0
        BY <3>4, <4>1 DEF OneSlotPerProcess
      <4> QED
        BY <3>2, <3>5, <4>2
    <3>7. FreshUnlessWrapped'
      BY <3>2, <3>5 DEF FreshUnlessWrapped
    <3> QED
      BY <2>1, <3>4, <3>6, <3>7 DEF IInv
  <2> QED
    BY <2>2, <2>3
<1>3. ASSUME NEW pid \in PID, NEW state \in {"FG", "BG", "ST"}, SetState(pid, state)
      PROVE  IInv'
  <2>1. PICK k \in Slots : jobs[k].pid # NoPid /\ jobs' = [jobs EXCEPT ![k].state = state]
    BY <1>3, SetStateStep
  <2>2. Bounded' /\ nextjid' = nextjid
    BY <1>3, SetStateStep
  <2>3. /\ \A i \in Slots : jobs'[i].pid = jobs[i].pid /\ jobs'[i].jid = jobs[i].jid
        /\ \A i \in Slots \ {k} : jobs'[i] = jobs[i]
        /\ jobs'[k].state = state
    BY <2>1 DEF IInv, Bounded, JobLists
  <2>4. OneSlotPerProcess'
    <3>1. state # "UNDEF"
      OBVIOUS
    <3> QED
      BY <2>1, <2>3, <3>1 DEF IInv, OneSlotPerProcess
  <2>5. EmptyListRestarts'
    BY <2>2, <2>3 DEF IInv, EmptyListRestarts
  <2>6. maxjid(jobs') = maxjid(jobs)
    <3>1. {jobs'[i].jid : i \in Slots} = {jobs[i].jid : i \in Slots}
      BY <2>3
    <3> QED
      BY <3>1 DEF maxjid
  <2>7. FreshUnlessWrapped'
    BY <2>2, <2>6 DEF IInv, FreshUnlessWrapped
  <2> QED
    BY <2>2, <2>4, <2>5, <2>7 DEF IInv
<1>4. CASE UNCHANGED vars
  BY <1>4 DEF vars, IInv, Bounded, OneSlotPerProcess, EmptyListRestarts, FreshUnlessWrapped, maxjid
<1> QED
  BY <1>1, <1>2, <1>3, <1>4 DEF Next
-----------------------------------------------------------------------------
(* So it holds after every sequence of calls.                              *)
LEMMA ListInvariant == Spec => []IInv
  BY InitIInv, NextIInv, PTL DEF Spec

(* The list and its id counter keep their types (addjob, deletejob).       *)
THEOREM ListTypes == Spec => []TypeOK
<1>1. IInv => TypeOK
  BY JidBoundAssumption DEF IInv, Bounded, TypeOK, JobLists, Job
<1> QED
  BY <1>1, ListInvariant, PTL

(* No process is listed twice, and a free slot is entirely clear, so that  *)
(* the scans by pid, by jid and by state agree on what is free.            *)
THEOREM SlotsAreConsistent == Spec => []OneSlotPerProcess
<1>1. IInv => OneSlotPerProcess
  BY DEF IInv
<1> QED
  BY <1>1, ListInvariant, PTL

(* Numbering restarts at 1 with an empty list (deletejob).                 *)
THEOREM NumberingRestarts == Spec => []EmptyListRestarts
<1>1. IInv => EmptyListRestarts
  BY DEF IInv
<1> QED
  BY <1>1, ListInvariant, PTL

(* The next id is above all in use until an id reaches MAXJOBS (addjob).   *)
THEOREM NextIsFresh == Spec => []FreshUnlessWrapped
<1>1. IInv => FreshUnlessWrapped
  BY DEF IInv
<1> QED
  BY <1>1, ListInvariant, PTL
=============================================================================
