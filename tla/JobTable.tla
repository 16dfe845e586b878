------------------------------ MODULE JobTable ------------------------------
(***************************************************************************)
(* The job list of the shell (tsh.c): an array of MAXJOBS records and the  *)
(* helper routines that read and update it.  Every routine of the code is  *)
(* a linear scan that acts on the first slot that matches; here a scan is  *)
(* the least index of a set of slots.  The routines that update the array  *)
(* and nextjid in place return the pair of new values here.  A command     *)
(* line is never inspected after it is stored, so it is left out.          *)
(***************************************************************************)
EXTENDS Integers, FiniteSetsExt

CONSTANTS
    MAXJOBS,    \* slots of the array
    PID,        \* process ids the kernel may hand out (all positive)
    NoPid       \* the pid 0 of a cleared slot

ASSUME MaxJobsAssumption == MAXJOBS \in Nat \ {0}
ASSUME PidAssumption     == NoPid \notin PID

Slots == 0 .. MAXJOBS - 1
States == {"UNDEF", "FG", "BG", "ST"}

(* A null job pointer. *)
NULL == -1

Job == [pid : PID \cup {NoPid}, jid : Nat, state : States]

clearjob == [pid |-> NoPid, jid |-> 0, state |-> "UNDEF"]

initjobs == [i \in Slots |-> clearjob]

(* The slot a scan stops at, or NULL when no slot matches. *)
FirstOf(matching) == IF matching = {} THEN NULL ELSE Min(matching)

SlotsOfPid(jobs, pid) == {i \in Slots : jobs[i].pid = pid}

(* Seeded fault: every running job counts as the foreground job.           *)
Foreground_AnyRunning(jobs) == {i \in Slots : jobs[i].state \in {"FG", "BG"}}

Foreground(jobs) == {i \in Slots : jobs[i].state = "FG"}

maxjid(jobs) == Max({jobs[i].jid : i \in Slots} \cup {0})

getjobpid(jobs, pid) == FirstOf(SlotsOfPid(jobs, pid))

getjobjid(jobs, jid) ==
    IF jid < 1 THEN NULL ELSE FirstOf({i \in Slots : jobs[i].jid = jid})

fgpid(jobs) ==
    IF Foreground(jobs) = {} THEN NoPid ELSE jobs[FirstOf(Foreground(jobs))].pid

setstate(jobs, slot, state) == [jobs EXCEPT ![slot].state = state]

(* The table is full when a scan for a free slot finds none. *)
Full(jobs) == SlotsOfPid(jobs, NoPid) = {}

(* Seeded fault: the wrap comes one id too early.                          *)
bumpjid_Early(nextjid) == IF nextjid + 1 >= MAXJOBS THEN 1 ELSE nextjid + 1

(* nextjid++, back to 1 when it has passed MAXJOBS. *)
bumpjid(nextjid) == IF nextjid + 1 > MAXJOBS THEN 1 ELSE nextjid + 1

addjob(jobs, nextjid, pid, state) ==
    IF Full(jobs)
      THEN [jobs |-> jobs, nextjid |-> nextjid]
      ELSE [jobs    |-> [jobs EXCEPT ![getjobpid(jobs, NoPid)] =
                           [pid |-> pid, jid |-> nextjid, state |-> state]],
            nextjid |-> bumpjid(nextjid)]

(* Seeded faults: the + 1 is missing; the maximum is taken before the slot *)
(* is cleared; only the pid of the slot is cleared.                        *)
deletejob_NoIncrement(jobs, nextjid, pid) ==
    IF SlotsOfPid(jobs, pid) = {}
      THEN [jobs |-> jobs, nextjid |-> nextjid]
      ELSE LET cleared == [jobs EXCEPT ![getjobpid(jobs, pid)] = clearjob]
           IN  [jobs |-> cleared, nextjid |-> maxjid(cleared)]

deletejob_EarlyMax(jobs, nextjid, pid) ==
    IF SlotsOfPid(jobs, pid) = {}
      THEN [jobs |-> jobs, nextjid |-> nextjid]
      ELSE [jobs    |-> [jobs EXCEPT ![getjobpid(jobs, pid)] = clearjob],
            nextjid |-> maxjid(jobs) + 1]

deletejob_PidOnly(jobs, nextjid, pid) ==
    IF SlotsOfPid(jobs, pid) = {}
      THEN [jobs |-> jobs, nextjid |-> nextjid]
      ELSE LET cleared == [jobs EXCEPT ![getjobpid(jobs, pid)].pid = NoPid]
           IN  [jobs |-> cleared, nextjid |-> maxjid(cleared) + 1]

deletejob(jobs, nextjid, pid) ==
    IF SlotsOfPid(jobs, pid) = {}
      THEN [jobs |-> jobs, nextjid |-> nextjid]
      ELSE LET cleared == [jobs EXCEPT ![getjobpid(jobs, pid)] = clearjob]
           IN  [jobs |-> cleared, nextjid |-> maxjid(cleared) + 1]
=============================================================================
