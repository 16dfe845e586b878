-------------------------------- MODULE Tsh ---------------------------------
(***************************************************************************)
(* The shell (tsh.c): its read/eval loop, the builtins fg and bg, waitfg,  *)
(* and the three signal handlers that interrupt all of them, together with *)
(* the processes the shell forks and the part of the kernel that connects  *)
(* them (masks, pending signals, waitpid, process groups).                 *)
(*                                                                         *)
(* The shell is one thread.  Handlers run on its stack: a handler that is  *)
(* delivered suspends whatever ran before it and, its sa_mask being empty, *)
(* blocks only its own signal.  The main flow is the program counter       *)
(* `main'; each handler that has started has a frame in `handler', which   *)
(* records the handlers beneath it and the mask to be restored.  The code  *)
(* a block-all mask protects is one step, and so is code that touches only *)
(* locals; everywhere else a handler may come in between.                  *)
(*                                                                         *)
(* `jobs', `&' and blank lines change no state and are left out, as is a   *)
(* job's own offspring (a job is its group's only member).                 *)
(***************************************************************************)
EXTENDS JobTable

CONSTANTS
    Builtins,     \* which of "fg" and "bg" the user may type
    UserSignals,  \* which signals reach the shell from the keyboard or the driver
    JidBound      \* bound of the model: no command is read once nextjid passes it

Signals == {"SIGCHLD", "SIGINT", "SIGTSTP", "SIGQUIT"}
Caught  == {"SIGCHLD", "SIGINT", "SIGTSTP"}    \* handlers that return

ASSUME BuiltinsAssumption    == Builtins \subseteq {"fg", "bg"}
ASSUME UserSignalsAssumption == UserSignals \subseteq Signals \ {"SIGCHLD"}
ASSUME JidBoundAssumption    == JidBound \in Nat /\ JidBound >= MAXJOBS

VARIABLES
    jobs, nextjid,  \* the job list
    main,           \* where the main flow is
    pid,            \* eval's pid, and the argument of waitfg
    bg,             \* eval's bg; in do_bgfg, whether the command is "bg"
    job_ptr,        \* do_bgfg's job_ptr, a slot of jobs
    prev_one,       \* eval's saved mask
    mask,           \* the signals the shell blocks now
    pending,        \* the signals pending for the shell
    handler,        \* one frame per handler
    child,          \* the process behind each pid
    intPending,     \* stopped processes with a SIGINT pending
    shell           \* "up", or how the shell ended

listVars  == <<jobs, nextjid>>
mainVars  == <<main, pid, bg, job_ptr, prev_one>>
childVars == <<child, intPending>>
vars == <<listVars, mainVars, mask, pending, handler, childVars, shell>>

MainPCs == {"read", "fork", "maskall", "addjob", "announce",
            "sendcont", "setstate", "waitarg", "waitfg", "sigsuspend", "suspended"}
HandlerPCs == {"idle", "waitpid", "exited", "signaled", "stopped", "fgpid", "kill"}

(***************************************************************************)
(* A process: not there; a copy of the shell, first in the shell's process *)
(* group, then in its own; the job's program, running or stopped; stopped  *)
(* and reported as such by waitpid; a zombie.                              *)
(***************************************************************************)
ChildStates == {"none", "forked", "ownpgrp", "running", "stopped", "reported",
                "exited", "signaled"}
Zombie == {"exited", "signaled"}

Idle == [pc |-> "idle", beneath |-> {}, mask |-> {}, pid |-> NoPid]

Init ==
    /\ jobs = initjobs
    /\ nextjid = 1
    /\ main = "read"
    /\ pid = NoPid
    /\ bg = FALSE
    /\ job_ptr = NULL
    /\ prev_one = {}
    /\ mask = {}
    /\ pending = {}
    /\ handler = [s \in Caught |-> Idle]
    /\ child = [p \in PID |-> "none"]
    /\ intPending = {}
    /\ shell = "up"

Active == {s \in Caught : handler[s].pc # "idle"}

(* The main flow has the processor; the handler of s has it.               *)
MainRuns == shell = "up" /\ Active = {}
Runs(s)  == shell = "up" /\ s \in Active /\ handler[s].beneath = Active \ {s}

(* Seeded fault: the shell sleeps with its signals still blocked.          *)
Blocked_Pause == mask

(* sigsuspend waits with an empty mask.                                    *)
Sleeping == main = "suspended" /\ Active = {}
Blocked  == IF Sleeping THEN {} ELSE mask
-----------------------------------------------------------------------------
(* Signals sent to the group of process p, which is a group of its own.    *)

HasGroup(p) == child[p] \notin {"none", "forked"}

(* A process that has not yet called exec still has the shell's handlers,  *)
(* and they find no foreground job in its copy of the list.                *)
Interrupt(p) ==
    CASE child[p] = "running" ->
           /\ child' = [child EXCEPT ![p] = "signaled"]
           /\ pending' = pending \cup {"SIGCHLD"}
           /\ UNCHANGED intPending
      [] child[p] \in {"stopped", "reported"} ->
           /\ intPending' = intPending \cup {p}
           /\ UNCHANGED <<child, pending>>
      [] OTHER -> UNCHANGED <<childVars, pending>>

Suspend(p) ==
    IF child[p] = "running"
      THEN /\ child' = [child EXCEPT ![p] = "stopped"]
           /\ pending' = pending \cup {"SIGCHLD"}
           /\ UNCHANGED intPending
      ELSE UNCHANGED <<childVars, pending>>

Continue(p) ==
    IF p \in PID /\ child[p] \in {"stopped", "reported"}
      THEN /\ child' = [child EXCEPT ![p] =
                          IF p \in intPending THEN "signaled" ELSE "running"]
           /\ intPending' = intPending \ {p}
           /\ pending' = pending \cup {"SIGCHLD"}
      ELSE UNCHANGED <<childVars, pending>>
-----------------------------------------------------------------------------
(* The main flow: eval. *)

(* Seeded fault: SIGCHLD is not blocked before the fork.                   *)
ReadCommand_Unblocked(background) ==
    /\ MainRuns /\ main = "read"
    /\ nextjid <= JidBound
    /\ bg' = background
    /\ prev_one' = mask
    /\ main' = "fork"
    /\ UNCHANGED <<listVars, pid, job_ptr, mask, pending, handler, childVars, shell>>

(* A command that is no builtin has been read: block SIGCHLD.              *)
ReadCommand(background) ==
    /\ MainRuns /\ main = "read"
    /\ nextjid <= JidBound
    /\ bg' = background
    /\ prev_one' = mask
    /\ mask' = mask \cup {"SIGCHLD"}
    /\ main' = "fork"
    /\ UNCHANGED <<listVars, pid, job_ptr, pending, handler, childVars, shell>>

Fork(p) ==
    /\ MainRuns /\ main = "fork"
    /\ child[p] = "none"
    /\ child' = [child EXCEPT ![p] = "forked"]
    /\ pid' = p
    /\ main' = "maskall"
    /\ UNCHANGED <<listVars, bg, job_ptr, prev_one, mask, pending, handler,
                   intPending, shell>>

(* Also what happens when no process id is left.                           *)
ForkError ==
    /\ MainRuns /\ main = "fork"
    /\ shell' = "fork_error"
    /\ UNCHANGED <<listVars, mainVars, mask, pending, handler, childVars>>

MaskAll ==
    /\ MainRuns /\ main = "maskall"
    /\ mask' = Signals
    /\ main' = "addjob"
    /\ UNCHANGED <<listVars, pid, bg, job_ptr, prev_one, pending, handler,
                   childVars, shell>>

(* Seeded fault: the mask is restored for a foreground job, too.           *)
AddJob_Unmasks ==
    /\ MainRuns /\ main = "addjob"
    /\ LET new == addjob(jobs, nextjid, pid, IF bg THEN "BG" ELSE "FG")
       IN  jobs' = new.jobs /\ nextjid' = new.nextjid
    /\ main' = IF bg THEN "announce" ELSE "waitfg"
    /\ mask' = prev_one
    /\ UNCHANGED <<pid, bg, job_ptr, prev_one, pending, handler, childVars, shell>>

(* addjob; a background job also gets the mask restored, a foreground job  *)
(* is waited for with everything still blocked.                            *)
AddJob ==
    /\ MainRuns /\ main = "addjob"
    /\ LET new == addjob(jobs, nextjid, pid, IF bg THEN "BG" ELSE "FG")
       IN  jobs' = new.jobs /\ nextjid' = new.nextjid
    /\ main' = IF bg THEN "announce" ELSE "waitfg"
    /\ mask' = IF bg THEN prev_one ELSE mask
    /\ UNCHANGED <<pid, bg, job_ptr, prev_one, pending, handler, childVars, shell>>

(* eval returns to the loop; its locals and do_bgfg's are gone.            *)
BackToPrompt ==
    /\ main' = "read"
    /\ pid' = NoPid
    /\ bg' = FALSE
    /\ job_ptr' = NULL
    /\ prev_one' = {}

(* The announcement of a background job reads the list and writes nothing. *)
Announce ==
    /\ MainRuns /\ main = "announce"
    /\ BackToPrompt
    /\ UNCHANGED <<listVars, mask, pending, handler, childVars, shell>>

(* quit, or the end of the input.                                          *)
Quit ==
    /\ MainRuns /\ main = "read"
    /\ shell' = "quit"
    /\ UNCHANGED <<listVars, mainVars, mask, pending, handler, childVars>>
-----------------------------------------------------------------------------
(* The main flow: do_bgfg and waitfg.  do_bgfg blocks nothing.             *)

(* What "fg 123" or "fg %2" may look up; NULL ends the command.            *)
JobArguments == {getjobpid(jobs, p) : p \in PID}
                  \cup {getjobjid(jobs, jid) : jid \in 1 .. JidBound}

ReadBuiltin(cmd) ==
    /\ MainRuns /\ main = "read"
    /\ job_ptr' \in JobArguments \ {NULL}
    /\ bg' = (cmd = "bg")
    /\ main' = "sendcont"
    /\ UNCHANGED <<listVars, pid, prev_one, mask, pending, handler, childVars, shell>>

(* kill(-(job_ptr->pid), SIGCONT).  If the slot has been cleared this is   *)
(* kill(0, SIGCONT): the shell's own group, where nobody is stopped.       *)
SendCont ==
    /\ MainRuns /\ main = "sendcont"
    /\ Continue(jobs[job_ptr].pid)
    /\ main' = "setstate"
    /\ UNCHANGED <<listVars, pid, bg, job_ptr, prev_one, mask, handler, shell>>

(* Seeded fault: fg does not wait for the job it brings forward.           *)
SetState_NoWait ==
    /\ MainRuns /\ main = "setstate"
    /\ jobs' = setstate(jobs, job_ptr, IF bg THEN "BG" ELSE "FG")
    /\ BackToPrompt
    /\ UNCHANGED <<nextjid, mask, pending, handler, childVars, shell>>

SetState ==
    /\ MainRuns /\ main = "setstate"
    /\ jobs' = setstate(jobs, job_ptr, IF bg THEN "BG" ELSE "FG")
    /\ \/ bg /\ BackToPrompt
       \/ ~bg /\ main' = "waitarg" /\ UNCHANGED <<pid, bg, job_ptr, prev_one>>
    /\ UNCHANGED <<nextjid, mask, pending, handler, childVars, shell>>

(* The argument of waitfg(job_ptr->pid).                                   *)
WaitArg ==
    /\ MainRuns /\ main = "waitarg"
    /\ pid' = jobs[job_ptr].pid
    /\ main' = "waitfg"
    /\ UNCHANGED <<listVars, bg, job_ptr, prev_one, mask, pending, handler,
                   childVars, shell>>

(* Seeded fault: waitfg leaves the signals blocked.                        *)
WaitTest_KeepsMask ==
    /\ MainRuns /\ main = "waitfg"
    /\ \/ /\ pid = fgpid(jobs)
          /\ main' = "sigsuspend"
          /\ UNCHANGED <<pid, bg, job_ptr, prev_one>>
       \/ /\ pid # fgpid(jobs)
          /\ BackToPrompt
    /\ UNCHANGED <<listVars, mask, pending, handler, childVars, shell>>

(* The loop test of waitfg, and the sigsuspend after it.  Only the mask    *)
(* of the caller keeps a handler from coming in between.                   *)
WaitTest ==
    /\ MainRuns /\ main = "waitfg"
    /\ \/ /\ pid = fgpid(jobs)
          /\ main' = "sigsuspend"
          /\ UNCHANGED <<pid, bg, job_ptr, prev_one, mask>>
       \/ /\ pid # fgpid(jobs)
          /\ mask' = {}
          /\ BackToPrompt
    /\ UNCHANGED <<listVars, pending, handler, childVars, shell>>

Sigsuspend ==
    /\ MainRuns /\ main = "sigsuspend"
    /\ main' = "suspended"
    /\ UNCHANGED <<listVars, pid, bg, job_ptr, prev_one, mask, pending, handler,
                   childVars, shell>>

MainStep ==
    \/ ForkError \/ \E p \in PID : Fork(p)
    \/ MaskAll \/ AddJob \/ Announce
    \/ SendCont \/ SetState \/ WaitArg \/ WaitTest \/ Sigsuspend
-----------------------------------------------------------------------------
(* Signal delivery and the handlers. *)

FirstPC(s) == IF s = "SIGCHLD" THEN "waitpid" ELSE "fgpid"

(* A handler starts: on top of what runs now, its own signal blocked.      *)
Deliver(s) ==
    /\ shell = "up"
    /\ s \in pending \ Blocked
    /\ handler' = [handler EXCEPT ![s] =
         [pc |-> FirstPC(s), beneath |-> Active, mask |-> mask, pid |-> NoPid]]
    /\ mask' = Blocked \cup {s}
    /\ main' = IF Sleeping THEN "waitfg" ELSE main
    /\ pending' = pending \ {s}
    /\ UNCHANGED <<listVars, pid, bg, job_ptr, prev_one, childVars, shell>>

(* sigquit_handler leaves at once.                                         *)
DeliverQuit ==
    /\ shell = "up"
    /\ "SIGQUIT" \in pending \ Blocked
    /\ shell' = "sigquit"
    /\ UNCHANGED <<listVars, mainVars, mask, pending, handler, childVars>>

(* Moves the handler of s to pc with the pid it works on.                  *)
Goto(s, pc, p) == [handler EXCEPT ![s] = [@ EXCEPT !.pc = pc, !.pid = p]]

Return(s) ==
    /\ handler' = [handler EXCEPT ![s] = Idle]
    /\ mask' = handler[s].mask

(* sigchld_handler: one call of waitpid(-1, WNOHANG | WUNTRACED).          *)
Waitpid ==
    /\ Runs("SIGCHLD") /\ handler["SIGCHLD"].pc = "waitpid"
    /\ \/ \E p \in PID :
            /\ child[p] \in Zombie
            /\ handler' = Goto("SIGCHLD", child[p], p)
            /\ child' = [child EXCEPT ![p] = "none"]
            /\ UNCHANGED mask
       \/ \E p \in PID :
            /\ child[p] = "stopped"
            /\ handler' = Goto("SIGCHLD", "stopped", p)
            /\ child' = [child EXCEPT ![p] = "reported"]
            /\ UNCHANGED mask
       \/ /\ \A p \in PID : child[p] \notin Zombie \cup {"stopped"}
          /\ Return("SIGCHLD")
          /\ UNCHANGED child
    /\ UNCHANGED <<listVars, mainVars, pending, intPending, shell>>

(* The three branches of its loop.  The last two print through a job_ptr   *)
(* that getjobpid may have returned as NULL.                               *)
Reaped == handler["SIGCHLD"].pid

(* Seeded fault: one child is reaped per signal ("if", not "while").       *)
Delete_Once ==
    /\ LET new == deletejob(jobs, nextjid, Reaped)
       IN  jobs' = new.jobs /\ nextjid' = new.nextjid
    /\ Return("SIGCHLD")
    /\ UNCHANGED <<mainVars, pending, childVars, shell>>

Delete ==
    /\ LET new == deletejob(jobs, nextjid, Reaped)
       IN  jobs' = new.jobs /\ nextjid' = new.nextjid
    /\ handler' = Goto("SIGCHLD", "waitpid", NoPid)
    /\ UNCHANGED <<mainVars, mask, pending, childVars, shell>>

ChildExited ==
    /\ Runs("SIGCHLD") /\ handler["SIGCHLD"].pc = "exited"
    /\ Delete

ChildSignaled ==
    /\ Runs("SIGCHLD") /\ handler["SIGCHLD"].pc = "signaled"
    /\ getjobpid(jobs, Reaped) # NULL
    /\ Delete

(* Seeded faults: a stopped child is taken off the list; the new state is  *)
(* not recorded; it is recorded for the job in the foreground.             *)
ChildStopped_Deletes ==
    /\ Runs("SIGCHLD") /\ handler["SIGCHLD"].pc = "stopped"
    /\ getjobpid(jobs, Reaped) # NULL
    /\ Delete

ChildStopped_Forgets ==
    /\ Runs("SIGCHLD") /\ handler["SIGCHLD"].pc = "stopped"
    /\ getjobpid(jobs, Reaped) # NULL
    /\ handler' = Goto("SIGCHLD", "waitpid", NoPid)
    /\ UNCHANGED <<listVars, mainVars, mask, pending, childVars, shell>>

ChildStopped_Foreground ==
    /\ Runs("SIGCHLD") /\ handler["SIGCHLD"].pc = "stopped"
    /\ getjobpid(jobs, Reaped) # NULL
    /\ jobs' = setstate(jobs, getjobpid(jobs, fgpid(jobs)), "ST")
    /\ handler' = Goto("SIGCHLD", "waitpid", NoPid)
    /\ UNCHANGED <<nextjid, mainVars, mask, pending, childVars, shell>>

ChildStopped ==
    /\ Runs("SIGCHLD") /\ handler["SIGCHLD"].pc = "stopped"
    /\ getjobpid(jobs, Reaped) # NULL
    /\ jobs' = setstate(jobs, getjobpid(jobs, Reaped), "ST")
    /\ handler' = Goto("SIGCHLD", "waitpid", NoPid)
    /\ UNCHANGED <<nextjid, mainVars, mask, pending, childVars, shell>>

NullJob ==
    /\ Runs("SIGCHLD") /\ handler["SIGCHLD"].pc \in {"signaled", "stopped"}
    /\ getjobpid(jobs, Reaped) = NULL
    /\ shell' = "segfault"
    /\ UNCHANGED <<listVars, mainVars, mask, pending, handler, childVars>>

(* sigint_handler and sigtstp_handler: find the foreground job ...         *)
FindForeground(s) ==
    /\ Runs(s) /\ handler[s].pc = "fgpid"
    /\ handler' = Goto(s, "kill", fgpid(jobs))
    /\ UNCHANGED <<listVars, mainVars, mask, pending, childVars, shell>>

(* ... and pass the signal on to its group.                                *)
NoForeground(s) ==
    /\ Runs(s) /\ handler[s].pc = "kill"
    /\ handler[s].pid = NoPid
    /\ Return(s)
    /\ UNCHANGED <<listVars, mainVars, pending, childVars, shell>>

Forward(s) ==
    /\ Runs(s) /\ handler[s].pc = "kill"
    /\ handler[s].pid # NoPid
    /\ HasGroup(handler[s].pid)
    /\ IF s = "SIGINT" THEN Interrupt(handler[s].pid) ELSE Suspend(handler[s].pid)
    /\ Return(s)
    /\ UNCHANGED <<listVars, mainVars, shell>>

(* kill fails with ESRCH: unix_error ends the shell.                       *)
KillError(s) ==
    /\ Runs(s) /\ handler[s].pc = "kill"
    /\ handler[s].pid # NoPid
    /\ ~HasGroup(handler[s].pid)
    /\ shell' = "kill_error"
    /\ UNCHANGED <<listVars, mainVars, mask, pending, handler, childVars>>

ChldStep == Waitpid \/ ChildExited \/ ChildSignaled \/ ChildStopped \/ NullJob
KeyStep(s) == FindForeground(s) \/ NoForeground(s) \/ Forward(s) \/ KillError(s)
HandlerStep == ChldStep \/ \E s \in {"SIGINT", "SIGTSTP"} : KeyStep(s)
-----------------------------------------------------------------------------
(* The processes and the user. *)

(* p moves from a state in `from' to `to' with no signal to the shell.     *)
Advances(p, from, to) ==
    /\ shell = "up"
    /\ child[p] = from
    /\ child' = [child EXCEPT ![p] = to]
    /\ UNCHANGED <<listVars, mainVars, mask, pending, handler, intPending, shell>>

Setpgid(p) == Advances(p, "forked", "ownpgrp")
Exec(p)    == Advances(p, "ownpgrp", "running")

(* p changes state in a way the kernel reports with SIGCHLD.               *)
Reports(p, from, to) ==
    /\ shell = "up"
    /\ child[p] \in from
    /\ child' = [child EXCEPT ![p] = to]
    /\ pending' = pending \cup {"SIGCHLD"}
    /\ intPending' = intPending \ {p}
    /\ UNCHANGED <<listVars, mainVars, mask, handler, shell>>

(* The program ends, or exec found no such command.                        *)
Exit(p) == Reports(p, {"ownpgrp", "running"}, "exited")

(* A signal that did not come from the shell, to a job that has its group. *)
Killed(p) ==
    Reports(p, {"ownpgrp", "running", "stopped", "reported"}, "signaled")
Stops(p)  == Reports(p, {"running"}, "stopped")

UserTypes(s) ==
    /\ shell = "up"
    /\ pending' = pending \cup {s}
    /\ UNCHANGED <<listVars, mainVars, mask, handler, childVars, shell>>

(* The shell has ended.                                                    *)
Ended == shell # "up" /\ UNCHANGED vars

Next ==
    \/ \E background \in BOOLEAN : ReadCommand(background)
    \/ \E cmd \in Builtins : ReadBuiltin(cmd)
    \/ Quit \/ MainStep
    \/ \E s \in Caught : Deliver(s)
    \/ DeliverQuit
    \/ HandlerStep
    \/ \E p \in PID : Setpgid(p) \/ Exec(p) \/ Exit(p) \/ Killed(p) \/ Stops(p)
    \/ \E s \in UserSignals : UserTypes(s)
    \/ Ended

Spec == Init /\ [][Next]_vars

(***************************************************************************)
(* What the kernel's scheduling gives.  A pending signal that is not       *)
(* blocked is delivered before the shell's next instruction, so it cannot  *)
(* stay pending while it is unblocked again and again; code that keeps     *)
(* getting the processor back gets on with it, however often keys are      *)
(* typed.  A forked child runs up to its program.  Nothing is assumed of   *)
(* the user or of the programs, which may run for ever.                    *)
(***************************************************************************)
Fairness ==
    /\ SF_vars(MainStep)
    /\ \A s \in Caught : SF_vars(Deliver(s))
    /\ SF_vars(ChldStep)
    /\ \A s \in {"SIGINT", "SIGTSTP"} : SF_vars(KeyStep(s))
    /\ \A p \in PID : WF_vars(Setpgid(p)) /\ WF_vars(Exec(p))

FairSpec == Spec /\ Fairness
-----------------------------------------------------------------------------
Frame == [pc : HandlerPCs, beneath : SUBSET Caught, mask : SUBSET Signals,
          pid : PID \cup {NoPid}]

TypeOK ==
    /\ jobs \in [Slots -> [pid : PID \cup {NoPid}, jid : 0 .. JidBound,
                           state : States]]
    /\ nextjid \in 1 .. JidBound + 1
    /\ main \in MainPCs
    /\ pid \in PID \cup {NoPid}
    /\ bg \in BOOLEAN
    /\ job_ptr \in Slots \cup {NULL}
    /\ prev_one \in SUBSET Signals
    /\ mask \in SUBSET Signals
    /\ pending \in SUBSET Signals
    /\ handler \in [Caught -> Frame]
    /\ child \in [PID -> ChildStates]
    /\ intPending \in SUBSET PID
    /\ shell \in {"up", "quit", "fork_error", "kill_error", "sigquit", "segfault"}

InTable(p) == SlotsOfPid(jobs, p) # {}

(* sigchld_handler has reaped p and is about to take it off the list.      *)
BeingDeleted(p) ==
    handler["SIGCHLD"].pc \in Zombie /\ handler["SIGCHLD"].pid = p

(* No entry of the list outlives its process: a listed pid belongs to an   *)
(* unreaped child, except inside sigchld_handler between waitpid and       *)
(* deletejob.  Otherwise fg, ctrl-c and ctrl-z would signal a process that *)
(* is gone, or another that got its pid.  It needs eval to keep SIGCHLD    *)
(* blocked from before the fork until after addjob.                        *)
JobsTrackChildren ==
    \A p \in PID : InTable(p) => child[p] # "none" \/ BeingDeleted(p)

(* The other direction, when there are slots enough: every child is on the *)
(* list, except between fork and addjob.                                   *)
ChildrenAreTracked ==
    \A p \in PID : child[p] # "none" =>
        InTable(p) \/ (pid = p /\ main \in {"maskall", "addjob"})

(* "At most 1 job can be in the FG state."                                 *)
AtMostOneForeground ==
    \A i, k \in Foreground(jobs) : i = k

(* The prompt returns, and a new command starts, only when no job is in    *)
(* the foreground, and then no signal is left blocked by mistake.          *)
PromptHasNoForeground ==
    /\ main \in {"read", "fork", "maskall", "addjob", "announce"} =>
         Foreground(jobs) = {}
    /\ main = "read" /\ Active = {} => mask = {}

(* A key pressed in the foreground never reaches a background job: as long *)
(* as sigint_handler or sigtstp_handler holds the process it is about to   *)
(* signal, that process is not listed as BG, although other handlers may   *)
(* change the list after it was read.                                      *)
KeysSpareBackground ==
    \A s \in {"SIGINT", "SIGTSTP"} :
        handler[s].pc = "kill" /\ handler[s].pid # NoPid =>
            \A i \in SlotsOfPid(jobs, handler[s].pid) : jobs[i].state # "BG"

(* The list calls a job stopped as soon as waitpid has said so: between    *)
(* the two lies only the rest of the handler's loop body.                  *)
StoppedIsRecorded ==
    \A p \in PID : child[p] = "reported" =>
        \/ \A i \in SlotsOfPid(jobs, p) : jobs[i].state = "ST"
        \/ handler["SIGCHLD"].pc = "stopped" /\ handler["SIGCHLD"].pid = p

(* waitfg: "Block until process pid is no longer the foreground process".  *)
(* When the shell sleeps and nothing is about to wake it, the process it   *)
(* waits for is still the foreground job: no wakeup was lost between the   *)
(* test of the loop and sigsuspend.                                        *)
SleepsOnlyForForeground ==
    Sleeping /\ pending = {} => fgpid(jobs) = pid

(* Every zombie is reaped, listed or not, unless the shell ends first.     *)
ZombiesReaped ==
    \A p \in PID : child[p] \in Zombie ~> child[p] = "none" \/ shell # "up"

(* A foreground job that has ended or stopped gives the prompt back.       *)
ForegroundWaitEnds ==
    \A p \in PID :
        main = "suspended" /\ pid = p /\ child[p] \in Zombie \cup {"stopped"}
          ~> main = "read" \/ shell # "up"
-----------------------------------------------------------------------------
(* The shell as the user sees it: what a process does, what the list says  *)
(* of it, and what waitpid has told sigchld_handler that it has not yet    *)
(* written to the list.                                                    *)

Process(p) ==
    IF child[p] \in Zombie THEN "ended"
    ELSE IF child[p] \in {"stopped", "reported"} THEN "stopped"
    ELSE IF child[p] = "none" THEN "none" ELSE "alive"

Listed(p) ==
    IF InTable(p) THEN jobs[CHOOSE i \in SlotsOfPid(jobs, p) : TRUE].state ELSE "none"

News(p) ==
    IF handler["SIGCHLD"].pid # p THEN "none"
    ELSE IF handler["SIGCHLD"].pc \in Zombie THEN "ended"
    ELSE IF handler["SIGCHLD"].pc = "stopped" THEN "stopped" ELSE "none"

Control == INSTANCE JobControl
             WITH process <- [p \in PID |-> Process(p)],
                  job     <- [p \in PID |-> Listed(p)],
                  news    <- [p \in PID |-> News(p)],
                  prompt  <- main = "read"

(* The shell keeps the promises of job control, whatever handlers come in  *)
(* between: an entry changes only for the process it is about, it is ST    *)
(* only if that process was found stopped, goes only when the process is   *)
(* gone, and is set running only by a command that fg, bg or the start of  *)
(* a job stands for, while no other job is in the foreground.              *)
ImplementsJobControl == Control!Spec
=============================================================================
