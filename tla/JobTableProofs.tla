--------------------------- MODULE JobTableProofs ---------------------------
(***************************************************************************)
(* What the scans of the job list return and what its updates preserve.    *)
(***************************************************************************)
EXTENDS JobTable, DataLemmas, TLAPS

(* A scan returns a slot that matches, the first one, or NULL.             *)
LEMMA FirstOfMatches ==
    ASSUME NEW matching \in SUBSET Slots, matching # {}
    PROVE  FirstOf(matching) \in matching /\ FirstOf(matching) # NULL
<1>1. matching \in SUBSET Nat
  BY DEF Slots
<1>2. Min(matching) \in matching
  BY <1>1, MinOfNats
<1>3. FirstOf(matching) = Min(matching)
  BY DEF FirstOf
<1>4. Min(matching) # NULL
  BY <1>1, <1>2 DEF NULL
<1> QED
  BY <1>2, <1>3, <1>4

(* A scan fails exactly when no slot matches.                              *)
LEMMA FirstOfType ==
    ASSUME NEW matching \in SUBSET Slots
    PROVE  /\ FirstOf(matching) \in Slots \cup {NULL}
           /\ FirstOf(matching) = NULL <=> matching = {}
<1>1. CASE matching = {}
  BY <1>1 DEF FirstOf
<1>2. CASE matching # {}
  BY <1>2, FirstOfMatches
<1> QED
  BY <1>1, <1>2

(* Lists whose job ids do not exceed b.                                    *)
JobLists(b) == [Slots -> [pid : PID \cup {NoPid}, jid : 0 .. b, state : States]]

(* The list main starts with is a list.                                    *)
LEMMA InitjobsType ==
    ASSUME NEW b \in Nat
    PROVE  initjobs \in JobLists(b)
  BY DEF initjobs, clearjob, JobLists, States

(* maxjid stays in the range of the ids.                                   *)
LEMMA MaxjidType ==
    ASSUME NEW b \in Nat, NEW jobs \in JobLists(b)
    PROVE  maxjid(jobs) \in 0 .. b
<1> DEFINE S == {jobs[i].jid : i \in Slots} \cup {0}
<1>1. \A k \in S : k \in 0 .. b
  BY DEF JobLists
<1>2. S \in SUBSET Nat /\ S # {} /\ \A k \in S : k <= b
  BY <1>1
<1>3. Max(S) \in S
  <2> HIDE DEF S
  <2> QED
    BY <1>2, MaxOfNats
<1>4. maxjid(jobs) = Max(S)
  BY DEF maxjid
<1> QED
  BY <1>1, <1>3, <1>4

(* Writing the state of a slot leaves a list.                              *)
LEMMA SetstateType ==
    ASSUME NEW b \in Nat, NEW jobs \in JobLists(b),
           NEW slot \in Slots, NEW state \in States
    PROVE  setstate(jobs, slot, state) \in JobLists(b)
  BY DEF setstate, JobLists

(* addjob either fills one free slot or, on a full list, changes nothing.  *)
LEMMA AddjobEffect ==
    ASSUME NEW b \in Nat, NEW jobs \in JobLists(b), NEW nextjid \in 1 .. b,
           NEW pid \in PID, NEW state \in States
    PROVE  LET new == addjob(jobs, nextjid, pid, state)
           IN  /\ new.jobs \in JobLists(b)
               /\ new.nextjid \in 1 .. b + 1
               /\ \/ new.jobs = jobs /\ Full(jobs)
                  \/ \E k \in Slots :
                       /\ jobs[k].pid = NoPid
                       /\ new.jobs = [jobs EXCEPT ![k] =
                            [pid |-> pid, jid |-> nextjid, state |-> state]]
<1> DEFINE new == addjob(jobs, nextjid, pid, state)
<1>1. CASE Full(jobs)
  <2>1. new = [jobs |-> jobs, nextjid |-> nextjid]
    BY <1>1 DEF addjob
  <2> HIDE DEF new
  <2>2. new.jobs = jobs /\ new.nextjid = nextjid
    BY <2>1
  <2> QED
    BY <1>1, <2>2 DEF new
<1>2. CASE ~Full(jobs)
  <2> DEFINE k == getjobpid(jobs, NoPid)
             job == [pid |-> pid, jid |-> nextjid, state |-> state]
  <2>1. new = [jobs |-> [jobs EXCEPT ![k] = job], nextjid |-> bumpjid(nextjid)]
    BY <1>2 DEF addjob
  <2>2. k \in Slots /\ jobs[k].pid = NoPid
    <3>1. SlotsOfPid(jobs, NoPid) \in SUBSET Slots /\ SlotsOfPid(jobs, NoPid) # {}
      BY <1>2 DEF Full, SlotsOfPid
    <3>2. k \in SlotsOfPid(jobs, NoPid)
      BY <3>1, FirstOfMatches DEF getjobpid
    <3> QED
      BY <3>2 DEF SlotsOfPid
  <2>3. job \in [pid : PID \cup {NoPid}, jid : 0 .. b, state : States]
    OBVIOUS
  <2>4. bumpjid(nextjid) \in 1 .. b + 1
    BY DEF bumpjid
  <2> HIDE DEF new, k, job
  <2>5. [jobs EXCEPT ![k] = job] \in JobLists(b)
    BY <2>2, <2>3 DEF JobLists
  <2>6. new.jobs = [jobs EXCEPT ![k] = job] /\ new.nextjid = bumpjid(nextjid)
    BY <2>1
  <2> QED
    BY <2>2, <2>4, <2>5, <2>6 DEF job, new
<1> QED
  BY <1>1, <1>2

(* deletejob clears one slot of the pid, if there is one.                  *)
LEMMA DeletejobEffect ==
    ASSUME NEW b \in Nat, NEW jobs \in JobLists(b), NEW nextjid \in 1 .. b + 1,
           NEW pid \in PID
    PROVE  LET new == deletejob(jobs, nextjid, pid)
           IN  /\ new.jobs \in JobLists(b)
               /\ new.nextjid \in 1 .. b + 1
               /\ \/ new.jobs = jobs /\ SlotsOfPid(jobs, pid) = {}
                  \/ \E k \in Slots :
                       /\ jobs[k].pid = pid
                       /\ new.jobs = [jobs EXCEPT ![k] = clearjob]
<1> DEFINE new == deletejob(jobs, nextjid, pid)
<1>1. CASE SlotsOfPid(jobs, pid) = {}
  <2>1. new = [jobs |-> jobs, nextjid |-> nextjid]
    BY <1>1 DEF deletejob
  <2> HIDE DEF new
  <2>2. new.jobs = jobs /\ new.nextjid = nextjid
    BY <2>1
  <2> QED
    BY <1>1, <2>2 DEF new
<1>2. CASE SlotsOfPid(jobs, pid) # {}
  <2> DEFINE k == getjobpid(jobs, pid)
             cleared == [jobs EXCEPT ![k] = clearjob]
  <2>1. new = [jobs |-> cleared, nextjid |-> maxjid(cleared) + 1]
    BY <1>2 DEF deletejob
  <2>2. k \in Slots /\ jobs[k].pid = pid
    <3>1. SlotsOfPid(jobs, pid) \in SUBSET Slots
      BY DEF SlotsOfPid
    <3>2. k \in SlotsOfPid(jobs, pid)
      BY <1>2, <3>1, FirstOfMatches DEF getjobpid
    <3> QED
      BY <3>2 DEF SlotsOfPid
  <2>3. clearjob \in [pid : PID \cup {NoPid}, jid : 0 .. b, state : States]
    BY DEF clearjob, States
  <2> HIDE DEF new, k
  <2>4. cleared \in JobLists(b)
    BY <2>2, <2>3 DEF JobLists
  <2> HIDE DEF cleared
  <2>5. maxjid(cleared) \in 0 .. b
    BY <2>4, MaxjidType
  <2>6. new.jobs = cleared /\ new.nextjid = maxjid(cleared) + 1
    BY <2>1
  <2>7. new.jobs \in JobLists(b) /\ new.nextjid \in 1 .. b + 1
    BY <2>4, <2>5, <2>6
  <2>8. \E i \in Slots : jobs[i].pid = pid /\ new.jobs = [jobs EXCEPT ![i] = clearjob]
    BY <2>2, <2>6 DEF cleared
  <2> QED
    BY <2>7, <2>8 DEF new
<1> QED
  BY <1>1, <1>2
=============================================================================
