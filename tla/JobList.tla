------------------------------ MODULE JobList -------------------------------
(***************************************************************************)
(* The job list on its own: any legal sequence of the calls the shell      *)
(* makes on it, without the processes and the signals behind them.  What   *)
(* the job ids promise a user who types "fg %2" is decided here, by the    *)
(* interplay of nextjid++ with its wrap (addjob) and its reset to          *)
(* maxjid + 1 (deletejob).                                                 *)
(***************************************************************************)
EXTENDS JobTable

CONSTANT
    JidBound    \* bound of the model: no job is added once nextjid passes it

ASSUME JidBoundAssumption == JidBound \in Nat

VARIABLES jobs, nextjid

vars == <<jobs, nextjid>>

Listed(pid) == SlotsOfPid(jobs, pid) # {}

Init == jobs = initjobs /\ nextjid = 1

(* The shell has a prompt: no job is in the foreground. *)
AtPrompt == Foreground(jobs) = {}

(* eval adds a job for a process it has just forked. *)
Add(pid, state) ==
    /\ AtPrompt /\ ~Listed(pid)
    /\ nextjid <= JidBound
    /\ LET new == addjob(jobs, nextjid, pid, state)
       IN  jobs' = new.jobs /\ nextjid' = new.nextjid

(* sigchld_handler deletes the job of a process it has reaped. *)
Delete(pid) ==
    LET new == deletejob(jobs, nextjid, pid)
    IN  jobs' = new.jobs /\ nextjid' = new.nextjid

(* sigchld_handler (ST, at any time) and do_bgfg (FG and BG, from the      *)
(* prompt) write the state of a job they have looked up.                   *)
SetState(pid, state) ==
    /\ Listed(pid)
    /\ state # "ST" => AtPrompt
    /\ jobs' = setstate(jobs, getjobpid(jobs, pid), state)
    /\ UNCHANGED nextjid

Next ==
    \E pid \in PID :
        \/ \E state \in {"FG", "BG"} : Add(pid, state)
        \/ Delete(pid)
        \/ \E state \in {"FG", "BG", "ST"} : SetState(pid, state)

Spec == Init /\ [][Next]_vars
-----------------------------------------------------------------------------
TypeOK ==
    /\ jobs \in [Slots -> Job]
    /\ nextjid \in Nat \ {0}

(* A process is listed at most once, and a free slot carries nothing of    *)
(* the job it held: the scans by pid, by jid and by state can never return *)
(* a slot that another scan considers free.  (In module Tsh do_bgfg can    *)
(* break the second part, when a handler clears the slot it holds.)        *)
OneSlotPerProcess ==
    /\ \A i, k \in Slots :
         jobs[i].pid = jobs[k].pid /\ jobs[i].pid # NoPid => i = k
    /\ \A i \in Slots :
         /\ (jobs[i].pid = NoPid) <=> (jobs[i].jid = 0)
         /\ (jobs[i].pid = NoPid) <=> (jobs[i].state = "UNDEF")

(* Numbering restarts at 1 whenever the list has emptied itself, whatever  *)
(* ids were handed out before.                                             *)
EmptyListRestarts == (\A i \in Slots : jobs[i].pid = NoPid) => nextjid = 1

(* The id handed out next is above every id in use, or the wrap at MAXJOBS *)
(* has just happened: a clash of ids needs an id of at least MAXJOBS.      *)
FreshUnlessWrapped == nextjid <= maxjid(jobs) => maxjid(jobs) >= MAXJOBS
=============================================================================
