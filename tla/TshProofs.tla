------------------------------ MODULE TshProofs -----------------------------
(***************************************************************************)
(* Safety of the shell, for every number of slots and of processes.        *)
(***************************************************************************)
EXTENDS Tsh, JobTableProofs

(***************************************************************************)
(* Typing is inductive only together with what the program counters imply: *)
(* do_bgfg holds a slot, eval holds a process, and sigchld_handler works   *)
(* on a process.                                                           *)
(***************************************************************************)
LocalsOK ==
    /\ main \in {"sendcont", "setstate", "waitarg"} => job_ptr \in Slots
    /\ main \in {"maskall", "addjob"} => pid \in PID
    /\ handler["SIGCHLD"].pc \in {"exited", "signaled", "stopped"}
         => handler["SIGCHLD"].pid \in PID

(* From before the fork until after addjob, sigchld_handler neither runs   *)
(* nor can be started by a handler that returns.                           *)
CriticalSection ==
    main \in {"fork", "maskall", "addjob"} =>
        /\ nextjid <= JidBound
        /\ "SIGCHLD" \in mask
        /\ handler["SIGCHLD"].pc = "idle"
        /\ \A s \in Active : "SIGCHLD" \in handler[s].mask

TypeInv == TypeOK /\ LocalsOK /\ CriticalSection

(* The shell starts in its types.                                          *)
LEMMA InitTypeInv == Init => TypeInv
<1> SUFFICES ASSUME Init PROVE TypeInv
  OBVIOUS
<1>1. jobs \in JobLists(JidBound)
  BY JidBoundAssumption, InitjobsType DEF Init
<1>2. Idle \in Frame
  BY DEF Idle, Frame, HandlerPCs
<1>3. nextjid \in 1 .. JidBound + 1
  BY JidBoundAssumption, MaxJobsAssumption DEF Init
<1>4. TypeOK
  BY <1>1, <1>2, <1>3 DEF Init, TypeOK, JobLists, MainPCs, ChildStates
<1> QED
  BY <1>4 DEF Init, TypeInv, LocalsOK, CriticalSection, Caught, Idle

(* What the operations on frames do. *)
LEMMA FrameOps ==
    ASSUME TypeOK, NEW s \in Caught
    PROVE  /\ \A pc \in HandlerPCs, p \in PID \cup {NoPid} :
                /\ Goto(s, pc, p) \in [Caught -> Frame]
                /\ Goto(s, pc, p)[s].pc = pc
                /\ Goto(s, pc, p)[s].pid = p
                /\ Goto(s, pc, p)[s].beneath = handler[s].beneath
                /\ Goto(s, pc, p)[s].mask = handler[s].mask
                /\ \A t \in Caught \ {s} : Goto(s, pc, p)[t] = handler[t]
           /\ Idle \in Frame
           /\ [handler EXCEPT ![s] = Idle] \in [Caught -> Frame]
           /\ \A pc \in HandlerPCs :
                [handler EXCEPT ![s] = [pc |-> pc, beneath |-> Active,
                  mask |-> mask, pid |-> NoPid]] \in [Caught -> Frame]
<1>1. Idle \in Frame
  BY DEF Idle, Frame, HandlerPCs
<1>2. \A pc \in HandlerPCs :
        [pc |-> pc, beneath |-> Active, mask |-> mask, pid |-> NoPid] \in Frame
  BY DEF Frame, Active, TypeOK
<1>3. ASSUME NEW pc \in HandlerPCs, NEW p \in PID \cup {NoPid}
      PROVE  /\ Goto(s, pc, p) \in [Caught -> Frame]
             /\ Goto(s, pc, p)[s].pc = pc
             /\ Goto(s, pc, p)[s].pid = p
             /\ Goto(s, pc, p)[s].beneath = handler[s].beneath
             /\ Goto(s, pc, p)[s].mask = handler[s].mask
             /\ \A t \in Caught \ {s} : Goto(s, pc, p)[t] = handler[t]
  <2> DEFINE f == handler[s]
             g == [f EXCEPT !.pc = pc, !.pid = p]
  <2>1. handler \in [Caught -> Frame]
    BY DEF TypeOK
  <2>2. f \in Frame
    BY <2>1
  <2>3. /\ g \in Frame
        /\ g.pc = pc /\ g.pid = p /\ g.beneath = f.beneath /\ g.mask = f.mask
    <3> HIDE DEF f
    <3> QED
      BY <2>2 DEF Frame
  <2>4. Goto(s, pc, p) = [handler EXCEPT ![s] = g]
    BY DEF Goto
  <2> HIDE DEF g
  <2> QED
    BY <2>1, <2>3, <2>4
<1> QED
  BY <1>1, <1>2, <1>3 DEF TypeOK

(* The signals a job's group gets change processes and pending signals only. *)
LEMMA GroupSignals ==
    ASSUME TypeOK, NEW p,
           (p \in PID /\ (Interrupt(p) \/ Suspend(p))) \/ Continue(p)
    PROVE  /\ child' \in [PID -> ChildStates]
           /\ intPending' \in SUBSET PID
           /\ pending' \in SUBSET Signals
<1>1. CASE p \in PID /\ Interrupt(p)
  BY <1>1 DEF Interrupt, TypeOK, childVars, ChildStates, Signals
<1>2. CASE p \in PID /\ Suspend(p)
  BY <1>2 DEF Suspend, TypeOK, childVars, ChildStates, Signals
<1>3. CASE Continue(p)
  BY <1>3 DEF Continue, TypeOK, childVars, ChildStates, Signals
<1> QED
  BY <1>1, <1>2, <1>3

(* fgpid returns the pid of a foreground slot, or 0. *)
LEMMA FgpidType ==
    ASSUME TypeOK
    PROVE  /\ fgpid(jobs) \in PID \cup {NoPid}
           /\ Foreground(jobs) # {} =>
                \E i \in Foreground(jobs) : fgpid(jobs) = jobs[i].pid
<1>1. Foreground(jobs) \in SUBSET Slots
  BY DEF Foreground
<1>2. CASE Foreground(jobs) # {}
  <2>1. FirstOf(Foreground(jobs)) \in Foreground(jobs)
    BY <1>1, <1>2, FirstOfMatches
  <2>2. fgpid(jobs) = jobs[FirstOf(Foreground(jobs))].pid
    BY <1>2 DEF fgpid
  <2>3. \A i \in Slots : jobs[i].pid \in PID \cup {NoPid}
    BY DEF TypeOK
  <2> QED
    BY <1>1, <2>1, <2>2, <2>3
<1> QED
  BY <1>2 DEF fgpid

(* What sigchld_handler does to the list once it has reaped a child: it    *)
(* clears the slot of that child, and the main flow is not about to list   *)
(* another.                                                                *)
LEMMA ReapedIsDeleted ==
    ASSUME TypeInv, ChildExited \/ ChildSignaled
    PROVE  /\ Reaped \in PID /\ BeingDeleted(Reaped)
           /\ main \notin {"maskall", "addjob"}
           /\ Delete
           /\ \/ jobs' = jobs /\ SlotsOfPid(jobs, Reaped) = {}
              \/ \E k \in Slots :
                   jobs[k].pid = Reaped /\ jobs' = [jobs EXCEPT ![k] = clearjob]
<1>1. /\ Reaped \in PID /\ nextjid \in 1 .. JidBound + 1 /\ Delete
      /\ jobs \in JobLists(JidBound) /\ BeingDeleted(Reaped)
      /\ main \notin {"maskall", "addjob"}
  BY DEF ChildExited, ChildSignaled, Reaped, TypeInv, TypeOK, LocalsOK,
         JobLists, BeingDeleted, Zombie, Runs, Active, CriticalSection
<1>2. \/ jobs' = jobs /\ SlotsOfPid(jobs, Reaped) = {}
      \/ \E k \in Slots :
           jobs[k].pid = Reaped /\ jobs' = [jobs EXCEPT ![k] = clearjob]
  BY <1>1, JidBoundAssumption, DeletejobEffect DEF Delete
<1> QED
  BY <1>1, <1>2

(* Every step of the shell preserves them, by one case for each action.    *)
LEMMA TypeStep ==
    ASSUME TypeInv, [Next]_vars
    PROVE  TypeInv'
<1> USE DEF TypeInv
<1>a. "SIGCHLD" \in Caught /\ Caught \subseteq Signals
  BY DEF Caught, Signals
<1>1. ASSUME NEW background \in BOOLEAN, ReadCommand(background)
      PROVE  TypeInv'
  <2>1. TypeOK'
    BY <1>1, <1>a DEF ReadCommand, TypeOK, MainPCs, listVars, childVars
  <2>2. LocalsOK'
    BY <1>1 DEF ReadCommand, LocalsOK
  <2>3. CriticalSection'
    BY <1>1, <1>a DEF ReadCommand, CriticalSection, MainRuns, Active, listVars
  <2> QED
    BY <2>1, <2>2, <2>3
<1>2. ASSUME NEW cmd \in Builtins, ReadBuiltin(cmd)
      PROVE  TypeInv'
  <2>1. job_ptr' \in Slots
    <3>1. \A p : getjobpid(jobs, p) \in Slots \cup {NULL}
      BY FirstOfType DEF getjobpid, SlotsOfPid
    <3>2. \A jid : getjobjid(jobs, jid) \in Slots \cup {NULL}
      <4> SUFFICES ASSUME NEW jid PROVE getjobjid(jobs, jid) \in Slots \cup {NULL}
        OBVIOUS
      <4>1. FirstOf({i \in Slots : jobs[i].jid = jid}) \in Slots \cup {NULL}
        BY FirstOfType
      <4> QED
        BY <4>1 DEF getjobjid
    <3> QED
      BY <1>2, <3>1, <3>2 DEF ReadBuiltin, JobArguments
  <2>2. TypeOK'
    BY <1>2, <2>1 DEF ReadBuiltin, TypeOK, MainPCs, listVars, childVars
  <2>3. LocalsOK'
    BY <1>2, <2>1 DEF ReadBuiltin, LocalsOK
  <2>4. CriticalSection'
    BY <1>2 DEF ReadBuiltin, CriticalSection
  <2> QED
    BY <2>2, <2>3, <2>4
<1>3. CASE Quit \/ ForkError
  BY <1>3 DEF Quit, ForkError, TypeOK, LocalsOK, CriticalSection, Active,
              listVars, mainVars, childVars
<1>4. ASSUME NEW p \in PID, Fork(p)
      PROVE  TypeInv'
  BY <1>4 DEF Fork, TypeOK, LocalsOK, CriticalSection, Active, MainPCs,
              ChildStates, listVars
<1>5. CASE MaskAll
  <2>1. TypeOK'
    BY <1>5 DEF MaskAll, TypeOK, MainPCs, listVars, childVars
  <2>2. LocalsOK'
    BY <1>5 DEF MaskAll, LocalsOK
  <2>3. CriticalSection'
    BY <1>5 DEF MaskAll, CriticalSection, Active, Signals, listVars
  <2> QED
    BY <2>1, <2>2, <2>3
<1>6. CASE AddJob
  <2>1. pid \in PID /\ nextjid \in 1 .. JidBound
    BY <1>6 DEF AddJob, LocalsOK, CriticalSection, TypeOK
  <2>2. jobs' \in JobLists(JidBound) /\ nextjid' \in 1 .. JidBound + 1
    <3>1. (IF bg THEN "BG" ELSE "FG") \in States
      BY DEF States
    <3>2. jobs \in JobLists(JidBound)
      BY DEF JobLists, TypeOK
    <3> QED
      BY <1>6, <2>1, <3>1, <3>2, JidBoundAssumption, AddjobEffect DEF AddJob
  <2>3. TypeOK'
    BY <1>6, <2>2 DEF AddJob, TypeOK, JobLists, MainPCs, childVars
  <2>4. LocalsOK' /\ CriticalSection'
    BY <1>6 DEF AddJob, LocalsOK, CriticalSection
  <2> QED
    BY <2>3, <2>4
<1>7. CASE Announce
  BY <1>7 DEF Announce, BackToPrompt, TypeOK, LocalsOK, CriticalSection, MainPCs,
              listVars, childVars
<1>8. CASE SendCont
  <2>1. TypeOK'
    BY <1>8, GroupSignals DEF SendCont, TypeOK, MainPCs, listVars
  <2>2. LocalsOK' /\ CriticalSection'
    BY <1>8 DEF SendCont, LocalsOK, CriticalSection
  <2> QED
    BY <2>1, <2>2
<1>9. CASE SetState
  <2>1. jobs' \in JobLists(JidBound)
    <3>1. job_ptr \in Slots /\ (IF bg THEN "BG" ELSE "FG") \in States
      BY <1>9 DEF SetState, LocalsOK, States
    <3> QED
      BY <1>9, <3>1, JidBoundAssumption, SetstateType DEF SetState, TypeOK, JobLists
  <2>2. TypeOK'
    BY <1>9, <2>1 DEF SetState, BackToPrompt, TypeOK, JobLists, MainPCs, childVars
  <2>3. LocalsOK' /\ CriticalSection'
    BY <1>9 DEF SetState, BackToPrompt, LocalsOK, CriticalSection
  <2> QED
    BY <2>2, <2>3
<1>10. CASE WaitArg
  <2>1. jobs[job_ptr].pid \in PID \cup {NoPid}
    BY <1>10 DEF WaitArg, LocalsOK, TypeOK
  <2> QED
    BY <1>10, <2>1 DEF WaitArg, TypeOK, LocalsOK, CriticalSection, MainPCs,
                       listVars, childVars
<1>11. CASE WaitTest
  BY <1>11 DEF WaitTest, BackToPrompt, TypeOK, LocalsOK, CriticalSection, MainPCs,
               listVars, childVars
<1>12. CASE Sigsuspend
  BY <1>12 DEF Sigsuspend, TypeOK, LocalsOK, CriticalSection, MainPCs,
               listVars, childVars
<1>13. ASSUME NEW s \in Caught, Deliver(s)
       PROVE  TypeInv'
  <2> DEFINE frame == [pc |-> FirstPC(s), beneath |-> Active, mask |-> mask,
                       pid |-> NoPid]
  <2>1. FirstPC(s) \in {"waitpid", "fgpid"} /\ FirstPC(s) \in HandlerPCs
    BY DEF FirstPC, HandlerPCs
  <2>2. handler' = [handler EXCEPT ![s] = frame] /\ handler' \in [Caught -> Frame]
    BY <1>13, <2>1, FrameOps DEF Deliver
  <2>3. TypeOK'
    BY <1>13, <1>a, <2>2 DEF Deliver, Blocked, TypeOK, MainPCs, listVars, childVars
  <2>4. LocalsOK'
    BY <1>13, <2>1, <2>2 DEF Deliver, LocalsOK, TypeOK
  <2>5. CriticalSection'
    <3> SUFFICES ASSUME main' \in {"fork", "maskall", "addjob"}
                 PROVE  CriticalSection!2'
      BY DEF CriticalSection
    <3>1. main = main' /\ Blocked = mask
      BY <1>13 DEF Deliver, Sleeping, Blocked
    <3>2. /\ nextjid <= JidBound /\ "SIGCHLD" \in mask
          /\ handler["SIGCHLD"].pc = "idle"
          /\ \A t \in Active : "SIGCHLD" \in handler[t].mask
      BY <3>1 DEF CriticalSection
    <3>3. s # "SIGCHLD"
      BY <1>13, <3>1, <3>2 DEF Deliver
    <3>4. \A t \in Caught : handler'[t] = IF t = s THEN frame ELSE handler[t]
      BY <2>2 DEF TypeOK
    <3>5. handler'["SIGCHLD"].pc = "idle"
      BY <1>a, <3>2, <3>3, <3>4
    <3>6. \A t \in Active' : "SIGCHLD" \in handler'[t].mask
      <4> SUFFICES ASSUME NEW t \in Active' PROVE "SIGCHLD" \in handler'[t].mask
        OBVIOUS
      <4>1. t \in Caught /\ handler'[t].pc # "idle"
        BY DEF Active
      <4>2. CASE t = s
        BY <3>2, <3>4, <4>2
      <4>3. CASE t # s
        BY <3>2, <3>4, <4>1, <4>3 DEF Active
      <4> QED
        BY <4>2, <4>3
    <3> QED
      BY <1>13, <3>1, <3>2, <3>5, <3>6 DEF Deliver, listVars
  <2> QED
    BY <2>3, <2>4, <2>5
<1>b. ASSUME Runs("SIGCHLD"), main' = main
      PROVE  CriticalSection'
  BY <1>b DEF Runs, Active, CriticalSection
<1>14. CASE Waitpid
  <2>1. handler["SIGCHLD"] \in Frame /\ handler["SIGCHLD"].mask \in SUBSET Signals
    BY <1>a DEF TypeOK, Frame
  <2>2. ASSUME NEW p \in PID, child[p] \in Zombie,
               handler' = Goto("SIGCHLD", child[p], p),
               child' = [child EXCEPT ![p] = "none"], UNCHANGED mask
        PROVE  TypeInv'
    <3>1. child[p] \in HandlerPCs
      BY <2>2 DEF Zombie, HandlerPCs
    <3>2. handler' \in [Caught -> Frame] /\ handler'["SIGCHLD"].pid \in PID
      BY <1>a, <2>2, <3>1, FrameOps
    <3> QED
      BY <1>14, <1>b, <2>2, <3>2 DEF Waitpid, TypeOK, LocalsOK, ChildStates,
                                     listVars, mainVars
  <2>3. ASSUME NEW p \in PID,
               handler' = Goto("SIGCHLD", "stopped", p),
               child' = [child EXCEPT ![p] = "reported"], UNCHANGED mask
        PROVE  TypeInv'
    <3>1. "stopped" \in HandlerPCs
      BY DEF HandlerPCs
    <3>2. handler' \in [Caught -> Frame] /\ handler'["SIGCHLD"].pid \in PID
      BY <1>a, <2>3, <3>1, FrameOps
    <3> QED
      BY <1>14, <1>b, <2>3, <3>2 DEF Waitpid, TypeOK, LocalsOK, ChildStates,
                                     listVars, mainVars
  <2>4. ASSUME Return("SIGCHLD"), UNCHANGED child
        PROVE  TypeInv'
    <3>1. handler' \in [Caught -> Frame]
      BY <1>a, <2>4, FrameOps DEF Return
    <3>2. handler'["SIGCHLD"].pc = "idle"
      BY <1>a, <2>4 DEF Return, Idle, TypeOK
    <3> QED
      BY <1>14, <1>b, <2>1, <2>4, <3>1, <3>2 DEF Waitpid, Return, TypeOK, LocalsOK,
                                                 listVars, mainVars
  <2> QED
    BY <1>14, <2>2, <2>3, <2>4 DEF Waitpid
<1>15. CASE ChildExited \/ ChildSignaled
  <2>1. Reaped \in PID /\ Delete /\ Runs("SIGCHLD")
    BY <1>15 DEF ChildExited, ChildSignaled, LocalsOK, Reaped
  <2>2. jobs' \in JobLists(JidBound) /\ nextjid' \in 1 .. JidBound + 1
    <3>1. jobs \in JobLists(JidBound)
      BY DEF JobLists, TypeOK
    <3>2. nextjid \in 1 .. JidBound + 1
      BY DEF TypeOK
    <3> QED
      BY <2>1, <3>1, <3>2, JidBoundAssumption, DeletejobEffect DEF Delete
  <2>3. handler' \in [Caught -> Frame] /\ handler'["SIGCHLD"].pc = "waitpid"
    BY <1>a, <2>1, FrameOps DEF Delete, HandlerPCs
  <2>4. TypeOK'
    BY <2>1, <2>2, <2>3 DEF Delete, TypeOK, JobLists, mainVars, childVars
  <2>5. LocalsOK' /\ CriticalSection'
    BY <1>b, <2>1, <2>3 DEF Delete, LocalsOK, mainVars
  <2> QED
    BY <2>4, <2>5
<1>16. CASE ChildStopped
  <2>1. jobs' \in JobLists(JidBound)
    <3>1. getjobpid(jobs, Reaped) \in Slots
      BY <1>16, FirstOfType DEF ChildStopped, getjobpid, SlotsOfPid
    <3>2. "ST" \in States
      BY DEF States
    <3> QED
      BY <1>16, <3>1, <3>2, JidBoundAssumption, SetstateType
         DEF ChildStopped, TypeOK, JobLists
  <2>2. handler' \in [Caught -> Frame] /\ handler'["SIGCHLD"].pc = "waitpid"
    BY <1>16, <1>a, FrameOps DEF ChildStopped, HandlerPCs
  <2>3. TypeOK'
    BY <1>16, <2>1, <2>2 DEF ChildStopped, TypeOK, JobLists, mainVars, childVars
  <2>4. LocalsOK' /\ CriticalSection'
    BY <1>16, <1>b, <2>2 DEF ChildStopped, LocalsOK, mainVars
  <2> QED
    BY <2>3, <2>4
<1>c. ASSUME shell' \in {"kill_error", "sigquit", "segfault"},
             UNCHANGED <<listVars, mainVars, mask, pending, handler, childVars>>
      PROVE  TypeInv'
  BY <1>c DEF TypeOK, LocalsOK, CriticalSection, Active, listVars, mainVars, childVars
<1>17. CASE NullJob \/ DeliverQuit
  BY <1>17, <1>c DEF NullJob, DeliverQuit
<1>18. ASSUME NEW s \in {"SIGINT", "SIGTSTP"}, KeyStep(s)
       PROVE  TypeInv'
  <2>1. s \in Caught /\ s # "SIGCHLD"
    BY DEF Caught
  <2>2. ASSUME Return(s), UNCHANGED <<listVars, mainVars>>, Runs(s),
               child' \in [PID -> ChildStates], intPending' \in SUBSET PID,
               pending' \in SUBSET Signals, UNCHANGED shell
        PROVE  TypeInv'
    <3>1. /\ handler' \in [Caught -> Frame]
          /\ handler'["SIGCHLD"] = handler["SIGCHLD"]
          /\ \A t \in Active' : t \in Active /\ handler'[t] = handler[t]
      <4>1. handler' = [handler EXCEPT ![s] = Idle] /\ handler \in [Caught -> Frame]
        BY <2>2 DEF Return, TypeOK
      <4>2. handler' \in [Caught -> Frame]
        BY <2>1, <4>1, FrameOps
      <4>3. handler'[s].pc = "idle" /\ \A t \in Caught \ {s} : handler'[t] = handler[t]
        BY <2>1, <4>1 DEF Idle
      <4> QED
        BY <1>a, <2>1, <4>2, <4>3 DEF Active
    <3>2. mask' = handler[s].mask /\ handler[s].mask \in SUBSET Signals /\ s \in Active
      BY <2>1, <2>2 DEF Return, Runs, TypeOK, Frame
    <3>3. TypeOK'
      BY <2>2, <3>1, <3>2 DEF TypeOK, listVars, mainVars
    <3>4. LocalsOK'
      BY <2>2, <3>1 DEF LocalsOK, mainVars
    <3>5. CriticalSection'
      BY <2>2, <3>1, <3>2 DEF CriticalSection, listVars, mainVars
    <3> QED
      BY <3>3, <3>4, <3>5
  <2>3. CASE FindForeground(s)
    <3>1. fgpid(jobs) \in PID \cup {NoPid}
      BY FgpidType
    <3>2. "kill" \in HandlerPCs
      BY DEF HandlerPCs
    <3>3. /\ handler' \in [Caught -> Frame]
          /\ handler'[s].mask = handler[s].mask
          /\ \A t \in Caught \ {s} : handler'[t] = handler[t]
      BY <2>1, <2>3, <3>1, <3>2, FrameOps DEF FindForeground
    <3>4. TypeOK'
      BY <2>3, <3>3 DEF FindForeground, TypeOK, listVars, mainVars, childVars
    <3>5. handler'["SIGCHLD"] = handler["SIGCHLD"]
      BY <1>a, <2>1, <3>3
    <3>6. \A t \in Active' : t \in Active /\ handler'[t].mask = handler[t].mask
      BY <2>3, <3>3 DEF FindForeground, Runs, Active
    <3>7. LocalsOK' /\ CriticalSection'
      BY <2>3, <3>5, <3>6 DEF FindForeground, LocalsOK, CriticalSection, listVars, mainVars
    <3> QED
      BY <3>4, <3>7
  <2>4. CASE NoForeground(s)
    BY <2>2, <2>4 DEF NoForeground, TypeOK, childVars
  <2>5. CASE Forward(s)
    <3>1. /\ child' \in [PID -> ChildStates]
          /\ intPending' \in SUBSET PID
          /\ pending' \in SUBSET Signals
      <4>1. handler[s].pid \in PID
        BY <2>1, <2>5 DEF Forward, TypeOK, Frame
      <4> QED
        BY <2>5, <4>1, GroupSignals DEF Forward
    <3> QED
      BY <2>2, <2>5, <3>1 DEF Forward
  <2>6. CASE KillError(s)
    BY <1>c, <2>6 DEF KillError
  <2> QED
    BY <1>18, <2>3, <2>4, <2>5, <2>6 DEF KeyStep
<1>19. ASSUME NEW p \in PID,
              Setpgid(p) \/ Exec(p) \/ Exit(p) \/ Killed(p) \/ Stops(p)
       PROVE  TypeInv'
  BY <1>19 DEF Setpgid, Exec, Exit, Killed, Stops, Advances, Reports, TypeOK,
               LocalsOK, CriticalSection, Active, ChildStates, Signals,
               listVars, mainVars
<1>20. ASSUME NEW s \in UserSignals, UserTypes(s)
       PROVE  TypeInv'
  BY <1>20, UserSignalsAssumption DEF UserTypes, TypeOK, LocalsOK, CriticalSection,
               Active, listVars, mainVars, childVars
<1>21. CASE Ended \/ UNCHANGED vars
  BY <1>21 DEF Ended, vars, TypeOK, LocalsOK, CriticalSection, Active,
               listVars, mainVars, childVars
<1> QED
  BY <1>1, <1>2, <1>3, <1>4, <1>5, <1>6, <1>7, <1>8, <1>9, <1>10, <1>11, <1>12,
     <1>13, <1>14, <1>15, <1>16, <1>17, <1>18, <1>19, <1>20, <1>21
     DEF Next, MainStep, HandlerStep, ChldStep

(* Types, locals and the critical section of eval, in every reachable      *)
(* state.                                                                  *)
THEOREM TypeInvariant == Spec => []TypeInv
<1>1. Init => TypeInv
  BY InitTypeInv
<1>2. TypeInv /\ [Next]_vars => TypeInv'
  BY TypeStep
<1> QED
  BY <1>1, <1>2, PTL DEF Spec

(* Every variable keeps its type, for every number of slots and processes. *)
THEOREM TypeCorrect == Spec => []TypeOK
<1>1. TypeInv => TypeOK
  BY DEF TypeInv
<1> QED
  BY <1>1, TypeInvariant, PTL

(***************************************************************************)
(* The discipline of the masks.  A handler that has started stays blocked, *)
(* in the mask itself and in every mask a handler above it will restore;   *)
(* and wherever the main flow blocks nothing, the mask it gets back when   *)
(* the last handler has returned is empty.                                 *)
(***************************************************************************)
Unprotected == {"read", "announce", "sendcont", "setstate", "waitarg"}

MaskInv ==
    /\ Active \subseteq mask
    /\ \A s \in Active : handler[s].beneath \subseteq handler[s].mask
    /\ prev_one = {}
    /\ main \in Unprotected =>
         /\ Active = {} => mask = {}
         /\ \A s \in Active : handler[s].beneath = {} => handler[s].mask = {}

(* Nothing runs and nothing is blocked at the start.                       *)
LEMMA InitMaskInv == Init => MaskInv
  BY DEF Init, MaskInv, Active, Idle, Caught

(* Every step preserves the discipline of the masks.                       *)
LEMMA MaskStep ==
    ASSUME TypeInv, MaskInv, [Next]_vars
    PROVE  MaskInv'
<1>a. "SIGCHLD" \in Caught /\ handler \in [Caught -> Frame]
  BY DEF Caught, TypeInv, TypeOK
<1>1. ASSUME NEW background \in BOOLEAN, ReadCommand(background)
      PROVE  MaskInv'
  BY <1>1 DEF ReadCommand, MaskInv, MainRuns, Active, Unprotected
<1>2. ASSUME NEW cmd \in Builtins, ReadBuiltin(cmd)
      PROVE  MaskInv'
  BY <1>2 DEF ReadBuiltin, MaskInv, MainRuns, Active, Unprotected
<1>3. CASE AddJob
  BY <1>3 DEF AddJob, MaskInv, MainRuns, Active, Unprotected
<1>4. CASE MainStep /\ ~AddJob
  BY <1>4 DEF MainStep, ForkError, Fork, MaskAll, Announce, BackToPrompt, SendCont,
              SetState, WaitArg, WaitTest, Sigsuspend, MaskInv, MainRuns, Active,
              Unprotected, mainVars
<1>5. ASSUME NEW s \in Caught, Deliver(s)
      PROVE  MaskInv'
  <2> DEFINE frame == [pc |-> FirstPC(s), beneath |-> Active, mask |-> mask,
                       pid |-> NoPid]
  <2>1. \A t \in Caught : handler'[t] = IF t = s THEN frame ELSE handler[t]
    BY <1>5, <1>a DEF Deliver
  <2>2. handler'[s].pc # "idle"
    BY <2>1 DEF FirstPC
  <2>3. Active' = Active \cup {s} /\ \A t \in Active : t # s => handler'[t] = handler[t]
    <3> HIDE DEF frame
    <3> QED
      BY <2>1, <2>2 DEF Active
  <2>4. handler'[s].beneath = Active /\ handler'[s].mask = mask
    BY <2>1
  <2>5. Active' \subseteq mask'
    BY <1>5, <2>3 DEF Deliver, Blocked, Sleeping, MaskInv
  <2>6. \A t \in Active' : handler'[t].beneath \subseteq handler'[t].mask
    BY <2>3, <2>4 DEF MaskInv
  <2>7. ASSUME main' \in Unprotected
        PROVE  main = main' /\ \A t \in Active' : handler'[t].beneath = {} => handler'[t].mask = {}
    <3>1. main = main'
      BY <1>5, <2>7 DEF Deliver, Unprotected
    <3> QED
      BY <2>3, <2>4, <2>7, <3>1 DEF MaskInv
  <2> QED
    BY <1>5, <2>3, <2>5, <2>6, <2>7 DEF MaskInv, Deliver
<1>b. ASSUME NEW s \in Caught, Runs(s), Return(s), UNCHANGED mainVars
      PROVE  MaskInv'
  <2>1. \A t \in Caught : handler'[t] = IF t = s THEN Idle ELSE handler[t]
    BY <1>a, <1>b DEF Return
  <2>2. Active' = Active \ {s} /\ \A t \in Active' : handler'[t] = handler[t]
    BY <2>1 DEF Active, Idle
  <2>3. s \in Active /\ handler[s].beneath = Active' /\ mask' = handler[s].mask
    BY <1>b, <2>2 DEF Runs, Return
  <2> QED
    BY <1>b, <2>2, <2>3 DEF MaskInv, mainVars
<1>c. ASSUME NEW s \in Caught, s \in Active, UNCHANGED <<mainVars, mask>>,
             NEW pc \in HandlerPCs \ {"idle"}, NEW p \in PID \cup {NoPid},
             handler' = Goto(s, pc, p)
      PROVE  MaskInv'
  <2>1. /\ handler'[s].pc = pc
        /\ handler'[s].beneath = handler[s].beneath
        /\ handler'[s].mask = handler[s].mask
        /\ \A t \in Caught \ {s} : handler'[t] = handler[t]
    BY <1>c, FrameOps DEF TypeInv
  <2>2. Active' = Active
    BY <1>c, <2>1 DEF Active
  <2>3. \A t \in Active : /\ handler'[t].beneath = handler[t].beneath
                         /\ handler'[t].mask = handler[t].mask
    BY <2>1 DEF Active
  <2> QED
    BY <1>c, <2>2, <2>3 DEF MaskInv, mainVars
<1>6. CASE Waitpid
  <2>1. CASE Return("SIGCHLD")
    BY <1>6, <1>a, <1>b, <2>1 DEF Waitpid
  <2>2. ASSUME NEW p \in PID, child[p] \in Zombie, UNCHANGED mask,
               handler' = Goto("SIGCHLD", child[p], p)
        PROVE  MaskInv'
    <3>1. child[p] \in HandlerPCs \ {"idle"}
      BY <2>2 DEF Zombie, HandlerPCs
    <3> QED
      BY <1>6, <1>a, <1>c, <2>2, <3>1 DEF Waitpid, Runs
  <2>3. ASSUME NEW p \in PID, handler' = Goto("SIGCHLD", "stopped", p), UNCHANGED mask
        PROVE  MaskInv'
    <3>1. "stopped" \in HandlerPCs \ {"idle"}
      BY DEF HandlerPCs
    <3> QED
      BY <1>6, <1>a, <1>c, <2>3, <3>1 DEF Waitpid, Runs
  <2> QED
    BY <1>6, <2>1, <2>2, <2>3 DEF Waitpid
<1>7. CASE ChildExited \/ ChildSignaled \/ ChildStopped
  <2>1. "waitpid" \in HandlerPCs \ {"idle"}
    BY DEF HandlerPCs
  <2> QED
    BY <1>7, <1>a, <1>c, <2>1 DEF ChildExited, ChildSignaled, ChildStopped, Delete, Runs
<1>8. ASSUME NEW s \in {"SIGINT", "SIGTSTP"}, KeyStep(s)
      PROVE  MaskInv'
  <2>1. s \in Caught /\ "kill" \in HandlerPCs \ {"idle"}
    BY DEF Caught, HandlerPCs
  <2>2. CASE FindForeground(s)
    <3>1. fgpid(jobs) \in PID \cup {NoPid}
      BY FgpidType DEF TypeInv
    <3> QED
      BY <1>c, <2>1, <2>2, <3>1 DEF FindForeground, Runs
  <2>3. CASE NoForeground(s) \/ Forward(s)
    BY <1>b, <2>1, <2>3 DEF NoForeground, Forward
  <2>4. CASE KillError(s)
    BY <2>4 DEF KillError, MaskInv, Active, mainVars
  <2> QED
    BY <1>8, <2>2, <2>3, <2>4 DEF KeyStep
<1>9. ASSUME UNCHANGED <<mainVars, mask, handler>>
      PROVE  MaskInv'
  BY <1>9 DEF MaskInv, Active, mainVars
<1>10. CASE NullJob \/ Quit \/ DeliverQuit \/ Ended \/ UNCHANGED vars
  BY <1>9, <1>10 DEF NullJob, Quit, DeliverQuit, Ended, vars, mainVars
<1>11. ASSUME NEW p \in PID,
              Setpgid(p) \/ Exec(p) \/ Exit(p) \/ Killed(p) \/ Stops(p)
       PROVE  MaskInv'
  BY <1>9, <1>11 DEF Setpgid, Exec, Exit, Killed, Stops, Advances, Reports
<1>12. ASSUME NEW s \in UserSignals, UserTypes(s)
       PROVE  MaskInv'
  BY <1>9, <1>12 DEF UserTypes
<1> QED
  BY <1>1, <1>2, <1>3, <1>4, <1>5, <1>6, <1>7, <1>8, <1>10, <1>11, <1>12
     DEF Next, HandlerStep, ChldStep

(* A started handler stays blocked in every mask that can be restored      *)
(* above it, and the unprotected code of tsh.c gets an empty mask back.    *)
THEOREM MaskInvariant == Spec => []MaskInv
<1>1. Init => MaskInv
  BY InitMaskInv
<1>2. TypeInv /\ MaskInv /\ [Next]_vars => MaskInv'
  BY MaskStep
<1> QED
  BY <1>1, <1>2, TypeInvariant, PTL DEF Spec

(***************************************************************************)
(* At most one job in the foreground, and none at the prompt.  A slot is   *)
(* FG only from the moment the main flow says so until it has left waitfg, *)
(* and then it is the slot whose pid waitfg was given.                     *)
(***************************************************************************)
NoForegroundPCs == {"read", "fork", "maskall", "addjob", "announce",
                    "sendcont", "setstate"}

ForegroundInv ==
    /\ AtMostOneForeground
    /\ main \in NoForegroundPCs => Foreground(jobs) = {}
    /\ main = "waitarg" => Foreground(jobs) \subseteq {job_ptr}
    /\ main \in {"waitfg", "sigsuspend", "suspended"} =>
         \A i \in Foreground(jobs) : jobs[i].pid = pid

(* The list is empty at the start.                                         *)
LEMMA InitForegroundInv == Init => ForegroundInv
  BY DEF Init, initjobs, clearjob, ForegroundInv, AtMostOneForeground, Foreground

(* Every step preserves what the program counter says of the foreground.   *)
LEMMA ForegroundStep ==
    ASSUME TypeInv, TypeInv', ForegroundInv, [Next]_vars
    PROVE  ForegroundInv'
<1> USE DEF ForegroundInv, NoForegroundPCs
<1>a. jobs \in [Slots -> [pid : PID \cup {NoPid}, jid : 0 .. JidBound, state : States]]
  BY DEF TypeInv, TypeOK
<1>b. ASSUME UNCHANGED <<main, pid, job_ptr>>,
             \A i \in Foreground(jobs') : i \in Foreground(jobs) /\ jobs'[i] = jobs[i]
      PROVE  ForegroundInv'
  BY <1>b DEF AtMostOneForeground
<1>1. ASSUME UNCHANGED jobs, main' = main \/ main' \in NoForegroundPCs,
             main \in NoForegroundPCs \/ UNCHANGED <<pid, job_ptr>>,
             main' \in NoForegroundPCs => main \in NoForegroundPCs
      PROVE  ForegroundInv'
  BY <1>1 DEF AtMostOneForeground
<1>2. ASSUME NEW background \in BOOLEAN, ReadCommand(background)
      PROVE  ForegroundInv'
  BY <1>1, <1>2 DEF ReadCommand, listVars
<1>3. ASSUME NEW cmd \in Builtins, ReadBuiltin(cmd)
      PROVE  ForegroundInv'
  BY <1>1, <1>3 DEF ReadBuiltin, listVars
<1>4. ASSUME NEW p \in PID, Fork(p)
      PROVE  ForegroundInv'
  BY <1>1, <1>4 DEF Fork, listVars
<1>5. CASE MaskAll \/ Announce \/ SendCont
  BY <1>1, <1>5 DEF MaskAll, Announce, BackToPrompt, SendCont, listVars
<1>6. CASE Quit \/ ForkError \/ DeliverQuit \/ NullJob \/ Ended \/ UNCHANGED vars
  BY <1>1, <1>6 DEF Quit, ForkError, DeliverQuit, NullJob, Ended, vars, listVars, mainVars
<1>7. CASE AddJob
  <2>1. pid \in PID /\ nextjid \in 1 .. JidBound /\ jobs \in JobLists(JidBound)
    BY <1>7 DEF AddJob, TypeInv, TypeOK, LocalsOK, CriticalSection, JobLists
  <2> DEFINE state == IF bg THEN "BG" ELSE "FG"
  <2>2. state \in States
    BY DEF States
  <2>3. \/ jobs' = jobs
        \/ \E k \in Slots : jobs' = [jobs EXCEPT ![k] =
              [pid |-> pid, jid |-> nextjid, state |-> state]]
    BY <1>7, <2>1, <2>2, JidBoundAssumption, AddjobEffect DEF AddJob
  <2>4. Foreground(jobs) = {}
    BY <1>7 DEF AddJob
  <2>5. \A i, k \in Foreground(jobs') : i = k /\ jobs'[i].pid = pid /\ ~bg
    BY <1>a, <2>3, <2>4 DEF Foreground
  <2> QED
    BY <1>7, <2>5 DEF AddJob, AtMostOneForeground
<1>8. CASE SetState
  <2>1. Foreground(jobs) = {} /\ job_ptr \in Slots
    BY <1>8 DEF SetState, TypeInv, LocalsOK
  <2>2. \A i \in Foreground(jobs') : i = job_ptr /\ ~bg
    BY <1>8, <1>a, <2>1 DEF SetState, setstate, Foreground
  <2> QED
    BY <1>8, <2>2 DEF SetState, BackToPrompt, AtMostOneForeground
<1>9. CASE WaitArg
  BY <1>9 DEF WaitArg, listVars, AtMostOneForeground
<1>10. CASE WaitTest
  <2>1. CASE pid = fgpid(jobs)
    BY <1>10, <2>1 DEF WaitTest, BackToPrompt, listVars, AtMostOneForeground
  <2>2. CASE pid # fgpid(jobs)
    <3>1. Foreground(jobs) = {}
      BY <1>10, <2>2, FgpidType DEF WaitTest, TypeInv
    <3> QED
      BY <1>10, <2>2, <3>1 DEF WaitTest, BackToPrompt, listVars, AtMostOneForeground
  <2> QED
    BY <2>1, <2>2
<1>11. CASE Sigsuspend
  BY <1>11 DEF Sigsuspend, listVars, AtMostOneForeground
<1>12. ASSUME NEW s \in Caught, Deliver(s)
       PROVE  ForegroundInv'
  BY <1>12 DEF Deliver, Sleeping, listVars, AtMostOneForeground
<1>13. CASE Waitpid
  BY <1>1, <1>13 DEF Waitpid, listVars, mainVars
<1>14. CASE ChildExited \/ ChildSignaled
  <2>1. /\ Reaped \in PID /\ nextjid \in 1 .. JidBound + 1 /\ Delete
        /\ jobs \in JobLists(JidBound)
    BY <1>14 DEF ChildExited, ChildSignaled, Reaped, TypeInv, TypeOK, LocalsOK, JobLists
  <2>2. jobs' = jobs \/ \E k \in Slots : jobs' = [jobs EXCEPT ![k] = clearjob]
    BY <2>1, JidBoundAssumption, DeletejobEffect DEF Delete
  <2>3. \A i \in Foreground(jobs') : i \in Foreground(jobs) /\ jobs'[i] = jobs[i]
    BY <1>a, <2>2 DEF Foreground, clearjob
  <2> QED
    BY <1>b, <2>1, <2>3 DEF Delete, mainVars
<1>15. CASE ChildStopped
  <2>1. \A i \in Foreground(jobs') : i \in Foreground(jobs) /\ jobs'[i] = jobs[i]
    BY <1>15, <1>a DEF ChildStopped, setstate, Foreground
  <2> QED
    BY <1>15, <1>b, <2>1 DEF ChildStopped, mainVars
<1>16. ASSUME NEW s \in {"SIGINT", "SIGTSTP"}, KeyStep(s)
       PROVE  ForegroundInv'
  BY <1>1, <1>16 DEF KeyStep, FindForeground, NoForeground, Forward, KillError,
                     listVars, mainVars
<1>17. ASSUME NEW p \in PID,
              Setpgid(p) \/ Exec(p) \/ Exit(p) \/ Killed(p) \/ Stops(p)
       PROVE  ForegroundInv'
  BY <1>1, <1>17 DEF Setpgid, Exec, Exit, Killed, Stops, Advances, Reports,
                     listVars, mainVars
<1>18. ASSUME NEW s \in UserSignals, UserTypes(s)
       PROVE  ForegroundInv'
  BY <1>1, <1>18 DEF UserTypes, listVars, mainVars
<1> QED
  BY <1>2, <1>3, <1>4, <1>5, <1>6, <1>7, <1>8, <1>9, <1>10, <1>11, <1>12, <1>13,
     <1>14, <1>15, <1>16, <1>17, <1>18 DEF Next, MainStep, HandlerStep, ChldStep

(* Where the main flow is tells which slot can be FG, in every reachable   *)
(* state.                                                                  *)
THEOREM ForegroundInvariant == Spec => []ForegroundInv
<1>1. Init => ForegroundInv
  BY InitForegroundInv
<1>2. TypeInv /\ TypeInv' /\ ForegroundInv /\ [Next]_vars => ForegroundInv'
  BY ForegroundStep
<1> QED
  BY <1>1, <1>2, TypeInvariant, PTL DEF Spec

(* "At most 1 job can be in the FG state." (tsh.c, line 46)                *)
THEOREM OneForeground == Spec => []AtMostOneForeground
<1>1. ForegroundInv => AtMostOneForeground
  BY DEF ForegroundInv
<1> QED
  BY <1>1, ForegroundInvariant, PTL

(* The shell prompts, and starts commands, only with no foreground job and *)
(* nothing blocked.                                                        *)
THEOREM PromptIsClean == Spec => []PromptHasNoForeground
<1>1. ForegroundInv /\ MaskInv => PromptHasNoForeground
  BY DEF ForegroundInv, MaskInv, PromptHasNoForeground, NoForegroundPCs, Unprotected
<1> QED
  BY <1>1, ForegroundInvariant, MaskInvariant, PTL

(***************************************************************************)
(* The list against the processes.  The induction needs that no process is *)
(* listed twice, and that the process eval is about to list is alive and   *)
(* not listed: this is where SIGCHLD must have been blocked before fork.   *)
(***************************************************************************)
PidsUnique ==
    \A i, k \in Slots : jobs[i].pid = jobs[k].pid /\ jobs[i].pid # NoPid => i = k

ListInv ==
    /\ PidsUnique
    /\ JobsTrackChildren
    /\ main \in {"maskall", "addjob"} => child[pid] # "none" /\ ~InTable(pid)

(* There is no entry and no process at the start.                          *)
LEMMA InitListInv == Init => ListInv
<1> SUFFICES ASSUME Init PROVE ListInv
  OBVIOUS
<1>1. \A i \in Slots : jobs[i].pid = NoPid
  BY DEF Init, initjobs, clearjob
<1>2. PidsUnique /\ JobsTrackChildren
  BY <1>1, PidAssumption DEF PidsUnique, JobsTrackChildren, InTable, SlotsOfPid
<1> QED
  BY <1>2 DEF Init, ListInv

(* Every step keeps the pids of the list apart and their processes         *)
(* unreaped.                                                               *)
LEMMA ListStep ==
    ASSUME TypeInv, TypeInv', MaskInv, ListInv, [Next]_vars
    PROVE  ListInv'
<1> USE DEF ListInv, InTable
<1>a. /\ jobs \in [Slots -> [pid : PID \cup {NoPid}, jid : 0 .. JidBound, state : States]]
      /\ child \in [PID -> ChildStates]
      /\ "SIGCHLD" \in Caught
      /\ main \in {"maskall", "addjob"} => pid \in PID
  BY DEF TypeInv, TypeOK, LocalsOK, Caught
(* Neither the pids of the list nor the liveness of a process changes.     *)
<1>b. ASSUME \A i \in Slots : jobs'[i].pid = jobs[i].pid,
             \A p \in PID : child'[p] = "none" => child[p] = "none",
             \A p \in PID : BeingDeleted(p) => BeingDeleted(p)',
             main' \in {"maskall", "addjob"} =>
                main \in {"maskall", "addjob"} /\ pid' = pid
      PROVE  ListInv'
  <2>1. \A p : SlotsOfPid(jobs', p) = SlotsOfPid(jobs, p)
    BY <1>b DEF SlotsOfPid
  <2>2. PidsUnique'
    BY <1>b DEF PidsUnique
  <2>3. JobsTrackChildren'
    BY <1>b, <2>1 DEF JobsTrackChildren
  <2> QED
    BY <1>a, <1>b, <2>1, <2>2, <2>3
<1>c. ASSUME UNCHANGED <<jobs, child, handler>>,
             main' \in {"maskall", "addjob"} =>
                main \in {"maskall", "addjob"} /\ pid' = pid
      PROVE  ListInv'
  BY <1>b, <1>c DEF BeingDeleted
<1>1. ASSUME NEW background \in BOOLEAN, ReadCommand(background)
      PROVE  ListInv'
  BY <1>c, <1>1 DEF ReadCommand, listVars, childVars
<1>2. ASSUME NEW cmd \in Builtins, ReadBuiltin(cmd)
      PROVE  ListInv'
  BY <1>c, <1>2 DEF ReadBuiltin, listVars, childVars
<1>3. ASSUME NEW p \in PID, Fork(p)
      PROVE  ListInv'
  <2>1. ~ InTable(p)
    <3>1. ~ BeingDeleted(p)
      BY <1>3 DEF Fork, BeingDeleted, TypeInv, CriticalSection, Zombie
    <3> QED
      BY <1>3, <3>1 DEF Fork, JobsTrackChildren
  <2>2. jobs' = jobs /\ handler' = handler /\ pid' = p /\ child' = [child EXCEPT ![p] = "forked"]
    BY <1>3 DEF Fork, listVars
  <2>3. child'[p] = "forked" /\ \A q \in PID : child'[q] = "none" => child[q] = "none"
    BY <1>a, <2>2
  <2>4. PidsUnique' /\ JobsTrackChildren'
    BY <2>2, <2>3 DEF PidsUnique, JobsTrackChildren, BeingDeleted
  <2> QED
    BY <2>1, <2>2, <2>3, <2>4
<1>4. CASE AddJob
  <2>1. /\ pid \in PID /\ nextjid \in 1 .. JidBound /\ jobs \in JobLists(JidBound)
        /\ (IF bg THEN "BG" ELSE "FG") \in States
    BY <1>4 DEF AddJob, TypeInv, TypeOK, LocalsOK, CriticalSection, JobLists, States
  <2>2. ASSUME NEW k \in Slots, jobs[k].pid = NoPid, NEW job, job.pid = pid,
               jobs' = [jobs EXCEPT ![k] = job]
        PROVE  PidsUnique' /\ JobsTrackChildren'
    <3>1. \A i \in Slots : jobs'[i].pid = IF i = k THEN pid ELSE jobs[i].pid
      BY <1>a, <2>2
    <3>2. \A i \in Slots : jobs[i].pid # pid
      BY <1>4 DEF AddJob, SlotsOfPid
    <3>3. PidsUnique'
      BY <3>1, <3>2 DEF PidsUnique
    <3>4. \A p \in PID : InTable(p)' => InTable(p) \/ p = pid
      BY <3>1 DEF SlotsOfPid
    <3> QED
      BY <1>4, <3>3, <3>4 DEF AddJob, JobsTrackChildren, BeingDeleted, childVars
  <2>3. \/ jobs' = jobs
        \/ \E k \in Slots :
             /\ jobs[k].pid = NoPid
             /\ jobs' = [jobs EXCEPT ![k] = [pid |-> pid, jid |-> nextjid,
                           state |-> IF bg THEN "BG" ELSE "FG"]]
    BY <1>4, <2>1, JidBoundAssumption, AddjobEffect DEF AddJob
  <2>4. CASE jobs' = jobs
    BY <1>4, <1>c, <2>4 DEF AddJob, childVars
  <2>5. main' \notin {"maskall", "addjob"}
    BY <1>4 DEF AddJob
  <2> QED
    BY <2>2, <2>3, <2>4, <2>5
<1>5. CASE SetState
  <2>1. \A i \in Slots : jobs'[i].pid = jobs[i].pid
    BY <1>5, <1>a DEF SetState, setstate
  <2> QED
    BY <1>5, <1>b, <2>1 DEF SetState, BackToPrompt, BeingDeleted, childVars
<1>6. CASE ForkError \/ MaskAll \/ Announce \/ WaitArg \/ WaitTest \/ Sigsuspend
  BY <1>6, <1>c DEF ForkError, MaskAll, Announce, WaitArg, WaitTest, Sigsuspend,
                    BackToPrompt, listVars, mainVars, childVars
<1>7. CASE SendCont
  <2>1. \A p \in PID : child'[p] = "none" => child[p] = "none"
    BY <1>7, <1>a DEF SendCont, Continue, childVars
  <2> QED
    BY <1>7, <1>b, <2>1 DEF SendCont, BeingDeleted, listVars
<1>8. CASE Quit \/ DeliverQuit \/ NullJob \/ Ended \/ UNCHANGED vars
  BY <1>8, <1>c DEF Quit, DeliverQuit, NullJob, Ended, vars, listVars, mainVars, childVars
<1>9. ASSUME NEW s \in Caught, Deliver(s)
      PROVE  ListInv'
  <2>1. ASSUME s = "SIGCHLD", NEW p \in PID, BeingDeleted(p)
        PROVE  FALSE
    <3>1. s \in Active
      BY <1>a, <2>1 DEF BeingDeleted, Active, Zombie
    <3>2. s \in Blocked
      BY <3>1 DEF MaskInv, Blocked, Sleeping
    <3> QED
      BY <1>9, <3>2 DEF Deliver
  <2>2. s # "SIGCHLD" => handler'["SIGCHLD"] = handler["SIGCHLD"]
    BY <1>9, <1>a DEF Deliver, TypeInv, TypeOK
  <2>3. \A p \in PID : BeingDeleted(p) => BeingDeleted(p)'
    BY <2>1, <2>2 DEF BeingDeleted
  <2> QED
    BY <1>9, <1>b, <2>3 DEF Deliver, listVars, childVars
<1>10. CASE Waitpid
  <2> DEFINE frame == handler["SIGCHLD"]
  <2>1. \A p \in PID : ~ BeingDeleted(p)
    BY <1>10 DEF Waitpid, BeingDeleted, Zombie
  <2>2. ASSUME NEW p \in PID, child[p] \in Zombie,
               handler' = Goto("SIGCHLD", child[p], p),
               child' = [child EXCEPT ![p] = "none"]
        PROVE  ListInv'
    <3>1. child[p] \in HandlerPCs
      BY <2>2 DEF Zombie, HandlerPCs
    <3>2. BeingDeleted(p)'
      BY <1>a, <2>2, <3>1, FrameOps DEF TypeInv, BeingDeleted
    <3>3. \A q \in PID : child'[q] = IF q = p THEN "none" ELSE child[q]
      BY <1>a, <2>2
    <3>4. JobsTrackChildren'
      BY <1>10, <2>1, <3>2, <3>3 DEF Waitpid, JobsTrackChildren, listVars
    <3>5. main' \notin {"maskall", "addjob"}
      BY <1>10 DEF Waitpid, Runs, Active, TypeInv, CriticalSection, mainVars
    <3> QED
      BY <1>10, <3>4, <3>5 DEF Waitpid, PidsUnique, listVars
  <2>3. CASE \A p \in PID : child'[p] = "none" => child[p] = "none"
    BY <1>10, <1>b, <2>1, <2>3 DEF Waitpid, listVars, mainVars
  <2>4. ASSUME NEW p \in PID, child' = [child EXCEPT ![p] = "reported"]
        PROVE  ListInv'
    BY <1>a, <2>3, <2>4
  <2> QED
    BY <1>10, <2>2, <2>3, <2>4 DEF Waitpid
<1>11. CASE ChildExited \/ ChildSignaled
  <2>1. /\ Reaped \in PID /\ BeingDeleted(Reaped)
        /\ main \notin {"maskall", "addjob"}
        /\ Delete
    BY <1>11, ReapedIsDeleted
  <2>2. \/ jobs' = jobs /\ SlotsOfPid(jobs, Reaped) = {}
        \/ \E k \in Slots :
             jobs[k].pid = Reaped /\ jobs' = [jobs EXCEPT ![k] = clearjob]
    BY <1>11, ReapedIsDeleted
  <2>3. /\ \A i \in Slots : jobs'[i].pid \in {jobs[i].pid, NoPid}
        /\ \A i \in Slots : jobs'[i].pid # Reaped
    <3>1. CASE jobs' = jobs /\ SlotsOfPid(jobs, Reaped) = {}
      BY <3>1 DEF SlotsOfPid
    <3>2. ASSUME NEW k \in Slots, jobs[k].pid = Reaped,
                 jobs' = [jobs EXCEPT ![k] = clearjob]
          PROVE  <2>3!1 /\ <2>3!2
      <4>1. \A i \in Slots : jobs'[i].pid = IF i = k THEN NoPid ELSE jobs[i].pid
        BY <1>a, <3>2 DEF clearjob
      <4> QED
        BY <2>1, <3>2, <4>1, PidAssumption DEF PidsUnique
    <3> QED
      BY <2>2, <3>1, <3>2
  <2>4. PidsUnique'
    BY <2>3 DEF PidsUnique
  <2>5. JobsTrackChildren'
    <3> SUFFICES ASSUME NEW p \in PID, InTable(p)'
                 PROVE  child'[p] # "none"
      BY DEF JobsTrackChildren
    <3>1. InTable(p) /\ p # Reaped
      BY <2>3, PidAssumption DEF SlotsOfPid
    <3>2. ~ BeingDeleted(p)
      BY <3>1 DEF BeingDeleted, Reaped
    <3> QED
      BY <2>1, <3>1, <3>2 DEF JobsTrackChildren, Delete, childVars
  <2> QED
    BY <2>1, <2>4, <2>5 DEF Delete, mainVars
<1>12. CASE ChildStopped
  <2>1. \A i \in Slots : jobs'[i].pid = jobs[i].pid
    BY <1>12, <1>a DEF ChildStopped, setstate
  <2>2. \A p \in PID : ~ BeingDeleted(p)
    BY <1>12 DEF ChildStopped, BeingDeleted, Zombie
  <2> QED
    BY <1>12, <1>b, <2>1, <2>2 DEF ChildStopped, mainVars, childVars
<1>13. ASSUME NEW s \in {"SIGINT", "SIGTSTP"}, KeyStep(s)
       PROVE  ListInv'
  <2>1. handler'["SIGCHLD"] = handler["SIGCHLD"]
    <3>1. handler \in [Caught -> Frame]
      BY DEF TypeInv, TypeOK
    <3> QED
      BY <1>13, <1>a, <3>1 DEF KeyStep, FindForeground, NoForeground, Forward,
                               KillError, Goto, Return
  <2>2. \A p \in PID : child'[p] = "none" => child[p] = "none"
    <3>1. CASE FindForeground(s) \/ NoForeground(s) \/ KillError(s)
      BY <3>1 DEF FindForeground, NoForeground, KillError, childVars
    <3>2. CASE Forward(s)
      BY <3>2, <1>a DEF Forward, Interrupt, Suspend, childVars
    <3> QED
      BY <1>13, <3>1, <3>2 DEF KeyStep
  <2>3. UNCHANGED <<listVars, mainVars>>
    BY <1>13 DEF KeyStep, FindForeground, NoForeground, Forward, KillError
  <2> QED
    BY <1>b, <2>1, <2>2, <2>3 DEF BeingDeleted, listVars, mainVars
<1>14. ASSUME NEW p \in PID,
              Setpgid(p) \/ Exec(p) \/ Exit(p) \/ Killed(p) \/ Stops(p)
       PROVE  ListInv'
  <2>1. \A q \in PID : child'[q] = "none" => child[q] = "none"
    BY <1>14, <1>a DEF Setpgid, Exec, Exit, Killed, Stops, Advances, Reports
  <2>2. UNCHANGED <<listVars, mainVars, handler>>
    BY <1>14 DEF Setpgid, Exec, Exit, Killed, Stops, Advances, Reports
  <2> QED
    BY <1>b, <2>1, <2>2 DEF BeingDeleted, listVars, mainVars
<1>15. ASSUME NEW s \in UserSignals, UserTypes(s)
       PROVE  ListInv'
  BY <1>c, <1>15 DEF UserTypes, listVars, mainVars, childVars
<1> QED
  BY <1>1, <1>2, <1>3, <1>4, <1>5, <1>6, <1>7, <1>8, <1>9, <1>10, <1>11, <1>12,
     <1>13, <1>14, <1>15 DEF Next, MainStep, HandlerStep, ChldStep

(* The list names unreaped processes, each of them once, in every          *)
(* reachable state.                                                        *)
THEOREM ListInvariant == Spec => []ListInv
<1>1. Init => ListInv
  BY InitListInv
<1>2. TypeInv /\ TypeInv' /\ MaskInv /\ ListInv /\ [Next]_vars => ListInv'
  BY ListStep
<1> QED
  BY <1>1, <1>2, TypeInvariant, MaskInvariant, PTL DEF Spec

(* No entry of the job list outlives its process.                          *)
THEOREM ListTracksChildren == Spec => []JobsTrackChildren
<1>1. ListInv => JobsTrackChildren
  BY DEF ListInv
<1> QED
  BY <1>1, ListInvariant, PTL

(***************************************************************************)
(* Keys.  Once sigint_handler or sigtstp_handler has read fgpid, nothing   *)
(* makes that process a background job: the main flow does not run, and    *)
(* the handlers that may come in between write only ST or clear the slot.  *)
(***************************************************************************)
LEMMA KeysStep ==
    ASSUME TypeInv, ListInv, KeysSpareBackground, [Next]_vars
    PROVE  KeysSpareBackground'
<1> DEFINE Held(s) == handler[s].pc = "kill" /\ handler[s].pid # NoPid
           Keys    == {"SIGINT", "SIGTSTP"}
<1>a. /\ jobs \in [Slots -> [pid : PID \cup {NoPid}, jid : 0 .. JidBound, state : States]]
      /\ handler \in [Caught -> Frame]
      /\ Keys \subseteq Caught /\ "SIGCHLD" \in Caught \ Keys
  BY DEF TypeInv, TypeOK, Caught
(* The handlers keep what they hold, and the list gains no BG entry.       *)
<1>b. ASSUME \A s \in Keys : Held(s)' => Held(s) /\ handler'[s].pid = handler[s].pid,
             \A i \in Slots : jobs'[i].pid # NoPid /\ jobs'[i].state = "BG" =>
                jobs'[i].pid = jobs[i].pid /\ jobs[i].state = "BG"
      PROVE  KeysSpareBackground'
  <2> SUFFICES ASSUME NEW s \in Keys, Held(s)', NEW i \in Slots,
                      jobs'[i].pid = handler'[s].pid
               PROVE  jobs'[i].state # "BG"
    BY DEF KeysSpareBackground, SlotsOfPid
  <2>1. Held(s) /\ handler'[s].pid = handler[s].pid /\ jobs'[i].pid # NoPid
    BY <1>b
  <2> QED
    BY <1>b, <2>1 DEF KeysSpareBackground, SlotsOfPid
(* While the main flow runs no handler holds anything.                     *)
<1>c. MainRuns /\ UNCHANGED handler => KeysSpareBackground'
  BY <1>a DEF MainRuns, Active, KeysSpareBackground
<1>d. UNCHANGED <<jobs, handler>> => KeysSpareBackground'
  BY <1>b
<1>1. ASSUME NEW background \in BOOLEAN, ReadCommand(background)
      PROVE  KeysSpareBackground'
  BY <1>d, <1>1 DEF ReadCommand, listVars
<1>2. ASSUME NEW cmd \in Builtins, ReadBuiltin(cmd)
      PROVE  KeysSpareBackground'
  BY <1>d, <1>2 DEF ReadBuiltin, listVars
<1>3. CASE MainStep
  BY <1>c, <1>3 DEF MainStep, ForkError, Fork, MaskAll, AddJob, Announce, SendCont,
                    SetState, WaitArg, WaitTest, Sigsuspend
<1>4. CASE Quit \/ DeliverQuit \/ NullJob \/ Ended \/ UNCHANGED vars
  BY <1>4, <1>d DEF Quit, DeliverQuit, NullJob, Ended, vars, listVars
<1>5. ASSUME NEW s \in Caught, Deliver(s)
      PROVE  KeysSpareBackground'
  <2>1. \A k \in Keys : Held(k)' => handler'[k] = handler[k]
    BY <1>5, <1>a DEF Deliver, FirstPC
  <2> QED
    BY <1>5, <1>b, <2>1 DEF Deliver, listVars
<1>6. CASE Waitpid
  <2>1. \A s \in Keys : handler'[s] = handler[s]
    BY <1>6, <1>a DEF Waitpid, Goto, Return
  <2> QED
    BY <1>6, <1>b, <2>1 DEF Waitpid, listVars
<1>7. CASE ChildExited \/ ChildSignaled
  <2>1. /\ Reaped \in PID /\ nextjid \in 1 .. JidBound + 1 /\ Delete
        /\ jobs \in JobLists(JidBound)
    BY <1>7 DEF ChildExited, ChildSignaled, Reaped, TypeInv, TypeOK, LocalsOK, JobLists
  <2>2. \/ jobs' = jobs
        \/ \E k \in Slots : jobs' = [jobs EXCEPT ![k] = clearjob]
    BY <2>1, JidBoundAssumption, DeletejobEffect DEF Delete
  <2>3. \A i \in Slots : jobs'[i] = jobs[i] \/ jobs'[i] = clearjob
    BY <1>a, <2>2
  <2>4. \A s \in Keys : handler'[s] = handler[s]
    BY <1>a, <2>1 DEF Delete, Goto
  <2> QED
    BY <1>b, <2>3, <2>4 DEF clearjob
<1>8. CASE ChildStopped
  <2>1. \A i \in Slots : jobs'[i] = jobs[i] \/ jobs'[i].state = "ST"
    BY <1>8, <1>a DEF ChildStopped, setstate
  <2>2. \A s \in Keys : handler'[s] = handler[s]
    BY <1>8, <1>a DEF ChildStopped, Goto
  <2> QED
    BY <1>b, <2>1, <2>2
<1>9. ASSUME NEW s \in Keys, FindForeground(s)
      PROVE  KeysSpareBackground'
  <2>1. jobs' = jobs /\ handler' = Goto(s, "kill", fgpid(jobs))
    BY <1>9 DEF FindForeground, listVars
  <2>2. handler'[s].pid = fgpid(jobs) /\ \A k \in Keys \ {s} : handler'[k] = handler[k]
    BY <1>a, <2>1 DEF Goto, Frame
  (* The slot fgpid stops at is FG, and no other slot has its pid.         *)
  <2>3. ASSUME NEW i \in Slots, jobs[i].pid = fgpid(jobs), fgpid(jobs) # NoPid
        PROVE  jobs[i].state # "BG"
    <3>1. Foreground(jobs) \in SUBSET Slots /\ Foreground(jobs) # {}
      BY <2>3 DEF fgpid, Foreground
    <3>2. PICK k \in Foreground(jobs) : fgpid(jobs) = jobs[k].pid
      BY <3>1, FirstOfMatches DEF fgpid
    <3>3. k \in Slots /\ jobs[k].state = "FG"
      BY <3>2 DEF Foreground
    <3> QED
      BY <2>3, <3>2, <3>3 DEF ListInv, PidsUnique
  <2> QED
    BY <2>1, <2>2, <2>3 DEF KeysSpareBackground, SlotsOfPid
<1>10. ASSUME NEW s \in Keys, NoForeground(s) \/ Forward(s)
       PROVE  KeysSpareBackground'
  <2>1. \A k \in Keys : Held(k)' => handler'[k] = handler[k]
    BY <1>10, <1>a DEF NoForeground, Forward, Return, Idle
  <2> QED
    BY <1>10, <1>b, <2>1 DEF NoForeground, Forward, listVars
<1>11. ASSUME NEW s \in Keys, KillError(s)
       PROVE  KeysSpareBackground'
  BY <1>11, <1>d DEF KillError, listVars
<1>12. ASSUME NEW p \in PID,
              Setpgid(p) \/ Exec(p) \/ Exit(p) \/ Killed(p) \/ Stops(p)
       PROVE  KeysSpareBackground'
  BY <1>12, <1>d DEF Setpgid, Exec, Exit, Killed, Stops, Advances, Reports, listVars
<1>13. ASSUME NEW s \in UserSignals, UserTypes(s)
       PROVE  KeysSpareBackground'
  BY <1>13, <1>d DEF UserTypes, listVars
<1> QED
  BY <1>1, <1>2, <1>3, <1>4, <1>5, <1>6, <1>7, <1>8, <1>9, <1>10, <1>11, <1>12,
     <1>13 DEF Next, HandlerStep, ChldStep, KeyStep

(* A process a key handler is about to signal is never a background job.   *)
THEOREM KeysAvoidBackground == Spec => []KeysSpareBackground
<1>1. Init => KeysSpareBackground
  BY DEF Init, Idle, Caught, KeysSpareBackground
<1>2. TypeInv /\ ListInv /\ KeysSpareBackground /\ [Next]_vars => KeysSpareBackground'
  BY KeysStep
<1> QED
  BY <1>1, <1>2, TypeInvariant, ListInvariant, PTL DEF Spec

(***************************************************************************)
(* The other direction: every process is listed.  A process leaves the     *)
(* list only when it has been reaped, and the list has a free slot for a   *)
(* new one because every slot that is taken names another process.         *)
(***************************************************************************)
SlotsSuffice == IsFiniteSet(PID) /\ Cardinality(PID) <= MAXJOBS

TrackInv ==
    /\ ChildrenAreTracked
    /\ \A p \in PID : BeingDeleted(p) => child[p] = "none"

(* A process that is not listed leaves a slot free.                        *)
LEMMA SlotIsFree ==
    ASSUME SlotsSuffice, TypeInv, PidsUnique, NEW q \in PID, ~InTable(q)
    PROVE  ~Full(jobs)
<1> SUFFICES ASSUME Full(jobs) PROVE FALSE
  OBVIOUS
<1> DEFINE T == PID \ {q}
           f == [i \in Slots |-> jobs[i].pid]
<1>1. \A i \in Slots : jobs[i].pid \in PID \cup {NoPid}
  BY DEF TypeInv, TypeOK
<1>2. \A i \in Slots : jobs[i].pid \in T
  BY <1>1 DEF Full, InTable, SlotsOfPid
<1>3. /\ IsFiniteSet(T) /\ Cardinality(T) = Cardinality(PID) - 1 /\ Cardinality(PID) \in Nat
  BY FS_RemoveElement, FS_CardinalityType DEF SlotsSuffice
<1>4. IsFiniteSet(Slots) /\ Cardinality(Slots) = MAXJOBS
  <2> DEFINE n == MAXJOBS - 1
  <2>1. 0 \in Int /\ n \in Int /\ ~(0 > n)
    BY MaxJobsAssumption
  <2>2. n - 0 + 1 = MAXJOBS
    BY MaxJobsAssumption
  <2> HIDE DEF n
  <2>3. IsFiniteSet(0 .. n) /\ Cardinality(0 .. n) = IF 0 > n THEN 0 ELSE n - 0 + 1
    BY <2>1, FS_Interval, Zenon
  <2> QED
    BY <2>1, <2>2, <2>3 DEF Slots, n
<1>5. Cardinality(T) < Cardinality(Slots)
  <2> DEFINE c == Cardinality(T)
             d == Cardinality(PID)
  <2>1. c = d - 1 /\ d \in Nat /\ d <= MAXJOBS /\ MAXJOBS \in Nat
    BY <1>3, MaxJobsAssumption DEF SlotsSuffice
  <2> HIDE DEF c, d
  <2>2. c < MAXJOBS
    BY <2>1
  <2> QED
    BY <1>4, <2>2 DEF c
<1>6. f \in [Slots -> T]
  BY <1>2
<1>7. PICK x, y \in Slots : x # y /\ f[x] = f[y]
  <2> HIDE DEF f, T
  <2> QED
    BY <1>3, <1>4, <1>5, <1>6, FS_PigeonHole
<1>8. jobs[x].pid = jobs[y].pid /\ jobs[x].pid # NoPid
  BY <1>2, <1>7, PidAssumption
<1> QED
  BY <1>7, <1>8 DEF PidsUnique

(* No step loses a child, if there are slots enough.                       *)
LEMMA TrackStep ==
    ASSUME SlotsSuffice, TypeInv, MaskInv, ListInv, TrackInv, [Next]_vars
    PROVE  TrackInv'
<1> USE DEF TrackInv, InTable
<1>a. /\ jobs \in [Slots -> [pid : PID \cup {NoPid}, jid : 0 .. JidBound, state : States]]
      /\ child \in [PID -> ChildStates] /\ handler \in [Caught -> Frame]
      /\ "SIGCHLD" \in Caught
      /\ main \in {"maskall", "addjob"} => pid \in PID
  BY DEF TypeInv, TypeOK, LocalsOK, Caught
(* No process appears, none leaves the list, and the main flow is not in   *)
(* between.                                                                *)
<1>b. ASSUME \A i \in Slots : jobs'[i].pid = jobs[i].pid,
             \A p \in PID : child[p] = "none" => child'[p] = "none",
             \A p \in PID : BeingDeleted(p)' => BeingDeleted(p) \/ child'[p] = "none",
             main \in {"maskall", "addjob"} =>
                main' \in {"maskall", "addjob"} /\ pid' = pid
      PROVE  TrackInv'
  <2>1. \A p : SlotsOfPid(jobs', p) = SlotsOfPid(jobs, p)
    BY <1>b DEF SlotsOfPid
  <2> QED
    BY <1>b, <2>1 DEF ChildrenAreTracked
<1>c. ASSUME UNCHANGED <<jobs, child, handler>>,
             main \in {"maskall", "addjob"} =>
                main' \in {"maskall", "addjob"} /\ pid' = pid
      PROVE  TrackInv'
  BY <1>b, <1>c DEF BeingDeleted
<1>1. ASSUME NEW background \in BOOLEAN, ReadCommand(background)
      PROVE  TrackInv'
  BY <1>c, <1>1 DEF ReadCommand, listVars, childVars
<1>2. ASSUME NEW cmd \in Builtins, ReadBuiltin(cmd)
      PROVE  TrackInv'
  BY <1>c, <1>2 DEF ReadBuiltin, listVars, childVars
<1>3. ASSUME NEW p \in PID, Fork(p)
      PROVE  TrackInv'
  <2>1. jobs' = jobs /\ handler' = handler /\ pid' = p /\ main' = "maskall" /\ main = "fork"
    BY <1>3 DEF Fork, listVars
  <2>2. \A q \in PID : child'[q] = IF q = p THEN "forked" ELSE child[q]
    BY <1>3, <1>a DEF Fork
  <2>3. \A q \in PID : ~BeingDeleted(q)'
    BY <1>3, <2>1 DEF BeingDeleted, TypeInv, CriticalSection, Zombie
  <2>4. ChildrenAreTracked'
    BY <2>1, <2>2 DEF ChildrenAreTracked
  <2> QED
    BY <2>3, <2>4
<1>4. CASE AddJob
  <2>1. /\ pid \in PID /\ nextjid \in 1 .. JidBound /\ jobs \in JobLists(JidBound)
        /\ (IF bg THEN "BG" ELSE "FG") \in States
    BY <1>4 DEF AddJob, TypeInv, TypeOK, LocalsOK, CriticalSection, JobLists, States
  <2>2. ~Full(jobs)
    BY <1>4, <2>1, SlotIsFree DEF AddJob, ListInv
  <2>3. PICK k \in Slots :
             /\ jobs[k].pid = NoPid
             /\ jobs' = [jobs EXCEPT ![k] = [pid |-> pid, jid |-> nextjid,
                           state |-> IF bg THEN "BG" ELSE "FG"]]
    BY <1>4, <2>1, <2>2, JidBoundAssumption, AddjobEffect DEF AddJob
  <2>4. \A i \in Slots : jobs'[i].pid = IF i = k THEN pid ELSE jobs[i].pid
    BY <1>a, <2>3
  <2>5. \A p \in PID : InTable(p) \/ p = pid => InTable(p)'
    BY <2>3, <2>4, PidAssumption DEF SlotsOfPid
  <2>6. UNCHANGED <<child, handler>>
    BY <1>4 DEF AddJob, childVars
  <2>7. ChildrenAreTracked'
    BY <2>5, <2>6 DEF ChildrenAreTracked
  <2> QED
    BY <2>6, <2>7 DEF BeingDeleted
<1>5. CASE SetState
  <2>1. \A i \in Slots : jobs'[i].pid = jobs[i].pid
    BY <1>5, <1>a DEF SetState, setstate
  <2> QED
    BY <1>5, <1>b, <2>1 DEF SetState, BackToPrompt, BeingDeleted, childVars
<1>6. CASE ForkError \/ MaskAll \/ Announce \/ WaitArg \/ WaitTest \/ Sigsuspend
  BY <1>6, <1>c DEF ForkError, MaskAll, Announce, WaitArg, WaitTest, Sigsuspend,
                    BackToPrompt, listVars, mainVars, childVars
<1>7. CASE SendCont
  <2>1. \A p \in PID : child[p] = "none" => child'[p] = "none"
    BY <1>7, <1>a DEF SendCont, Continue, childVars
  <2> QED
    BY <1>7, <1>b, <2>1 DEF SendCont, BeingDeleted, listVars
<1>8. CASE Quit \/ DeliverQuit \/ NullJob \/ Ended \/ UNCHANGED vars
  BY <1>8, <1>c DEF Quit, DeliverQuit, NullJob, Ended, vars, listVars, mainVars, childVars
<1>9. ASSUME NEW s \in Caught, Deliver(s)
      PROVE  TrackInv'
  <2>1. \A p \in PID : BeingDeleted(p)' => BeingDeleted(p)
    BY <1>9, <1>a DEF Deliver, BeingDeleted, FirstPC, Zombie
  <2>2. main \in {"maskall", "addjob"} => main' = main
    BY <1>9 DEF Deliver, Sleeping
  <2> QED
    BY <1>9, <1>b, <2>1, <2>2 DEF Deliver, listVars, childVars
<1>10. CASE Waitpid
  <2>1. main \notin {"maskall", "addjob"} /\ jobs' = jobs /\ handler["SIGCHLD"].pc = "waitpid"
    BY <1>10 DEF Waitpid, Runs, Active, TypeInv, CriticalSection, listVars
  <2>2. ASSUME NEW p \in PID, child[p] \in Zombie,
               handler' = Goto("SIGCHLD", child[p], p),
               child' = [child EXCEPT ![p] = "none"]
        PROVE  TrackInv'
    <3>1. child[p] \in HandlerPCs
      BY <2>2 DEF Zombie, HandlerPCs
    <3>2. handler'["SIGCHLD"].pid = p
      BY <1>a, <2>2, <3>1, FrameOps DEF TypeInv
    <3>3. \A q \in PID : child'[q] = IF q = p THEN "none" ELSE child[q]
      BY <1>a, <2>2
    <3>4. \A q \in PID : BeingDeleted(q)' => child'[q] = "none"
      BY <3>2, <3>3 DEF BeingDeleted
    <3> QED
      BY <2>1, <3>3, <3>4 DEF ChildrenAreTracked
  <2>3. ASSUME NEW p \in PID, child[p] = "stopped",
               handler' = Goto("SIGCHLD", "stopped", p),
               child' = [child EXCEPT ![p] = "reported"]
        PROVE  TrackInv'
    <3>1. "stopped" \in HandlerPCs
      BY DEF HandlerPCs
    <3>2. handler'["SIGCHLD"].pc = "stopped"
      BY <1>a, <2>3, <3>1, FrameOps DEF TypeInv
    <3>3. \A q \in PID : child'[q] = IF q = p THEN "reported" ELSE child[q]
      BY <1>a, <2>3
    <3> QED
      BY <1>b, <2>1, <2>3, <3>2, <3>3 DEF BeingDeleted, Zombie
  <2>4. ASSUME Return("SIGCHLD"), child' = child
        PROVE  TrackInv'
    <3>1. handler'["SIGCHLD"].pc = "idle"
      BY <1>a, <2>4 DEF Return, Idle
    <3> QED
      BY <1>b, <2>1, <2>4, <3>1 DEF BeingDeleted, Zombie
  <2> QED
    BY <1>10, <2>2, <2>3, <2>4 DEF Waitpid
<1>11. CASE ChildExited \/ ChildSignaled
  <2>1. /\ Reaped \in PID /\ BeingDeleted(Reaped)
        /\ main \notin {"maskall", "addjob"}
        /\ Delete
    BY <1>11, ReapedIsDeleted
  <2>2. \/ jobs' = jobs /\ SlotsOfPid(jobs, Reaped) = {}
        \/ \E k \in Slots :
             jobs[k].pid = Reaped /\ jobs' = [jobs EXCEPT ![k] = clearjob]
    BY <1>11, ReapedIsDeleted
  <2>3. \A i \in Slots : jobs'[i].pid # jobs[i].pid => jobs[i].pid = Reaped
    BY <1>a, <2>2
  <2>4. \A p \in PID \ {Reaped} : InTable(p) => InTable(p)'
    BY <2>3 DEF SlotsOfPid
  <2>5. child' = child /\ child[Reaped] = "none"
    BY <2>1 DEF Delete, childVars
  <2>6. handler'["SIGCHLD"].pc = "waitpid"
    <3>1. "waitpid" \in HandlerPCs
      BY DEF HandlerPCs
    <3> QED
      BY <1>a, <2>1, <3>1, FrameOps DEF TypeInv, Delete
  <2>7. ChildrenAreTracked'
    BY <2>1, <2>4, <2>5 DEF ChildrenAreTracked
  <2> QED
    BY <2>6, <2>7 DEF BeingDeleted, Zombie
<1>12. CASE ChildStopped
  <2>1. \A i \in Slots : jobs'[i].pid = jobs[i].pid
    BY <1>12, <1>a DEF ChildStopped, setstate
  <2>2. handler'["SIGCHLD"].pc = "waitpid"
    <3>1. "waitpid" \in HandlerPCs
      BY DEF HandlerPCs
    <3> QED
      BY <1>12, <1>a, <3>1, FrameOps DEF TypeInv, ChildStopped
  <2> QED
    BY <1>12, <1>b, <2>1, <2>2 DEF ChildStopped, BeingDeleted, Zombie, mainVars, childVars
<1>13. ASSUME NEW s \in {"SIGINT", "SIGTSTP"}, KeyStep(s)
       PROVE  TrackInv'
  <2>1. handler'["SIGCHLD"] = handler["SIGCHLD"]
    BY <1>13, <1>a DEF KeyStep, FindForeground, NoForeground, Forward,
                       KillError, Goto, Return
  <2>2. \A p \in PID : child[p] = "none" => child'[p] = "none"
    <3>1. CASE FindForeground(s) \/ NoForeground(s) \/ KillError(s)
      BY <3>1 DEF FindForeground, NoForeground, KillError, childVars
    <3>2. CASE Forward(s)
      BY <3>2, <1>a DEF Forward, Interrupt, Suspend, childVars
    <3> QED
      BY <1>13, <3>1, <3>2 DEF KeyStep
  <2>3. UNCHANGED <<listVars, mainVars>>
    BY <1>13 DEF KeyStep, FindForeground, NoForeground, Forward, KillError
  <2> QED
    BY <1>b, <2>1, <2>2, <2>3 DEF BeingDeleted, listVars, mainVars
<1>14. ASSUME NEW p \in PID,
              Setpgid(p) \/ Exec(p) \/ Exit(p) \/ Killed(p) \/ Stops(p)
       PROVE  TrackInv'
  <2>1. \A q \in PID : child[q] = "none" => child'[q] = "none"
    BY <1>14, <1>a DEF Setpgid, Exec, Exit, Killed, Stops, Advances, Reports
  <2>2. UNCHANGED <<listVars, mainVars, handler>>
    BY <1>14 DEF Setpgid, Exec, Exit, Killed, Stops, Advances, Reports
  <2> QED
    BY <1>b, <2>1, <2>2 DEF BeingDeleted, listVars, mainVars
<1>15. ASSUME NEW s \in UserSignals, UserTypes(s)
       PROVE  TrackInv'
  BY <1>c, <1>15 DEF UserTypes, listVars, mainVars, childVars
<1> QED
  BY <1>1, <1>2, <1>3, <1>4, <1>5, <1>6, <1>7, <1>8, <1>9, <1>10, <1>11, <1>12,
     <1>13, <1>14, <1>15 DEF Next, MainStep, HandlerStep, ChldStep

(* No child is lost: with a slot for each process, every child is on the   *)
(* list as soon as eval has left its critical section.                     *)
THEOREM NoChildIsLost == ASSUME SlotsSuffice PROVE Spec => []ChildrenAreTracked
<1>1. Init => TrackInv
  BY DEF Init, TrackInv, ChildrenAreTracked, BeingDeleted, Idle, Caught, Zombie
<1>2. TypeInv /\ MaskInv /\ ListInv /\ TrackInv /\ [Next]_vars => TrackInv'
  BY TrackStep
<1>3. TrackInv => ChildrenAreTracked
  BY DEF TrackInv
<1> QED
  BY <1>1, <1>2, <1>3, TypeInvariant, MaskInvariant, ListInvariant, PTL DEF Spec

(***************************************************************************)
(* What holds only while the user types neither fg nor bg, because do_bgfg *)
(* writes the list with every signal unblocked.  A stopped job is then     *)
(* listed as stopped: the induction needs that no pid is listed twice, so  *)
(* that the slot the handler marks is the only one, and that eval does not *)
(* list a process that has been reported as stopped before.                *)
(***************************************************************************)
NoBuiltins == Builtins = {}

NotInBgfg == main \notin {"sendcont", "setstate", "waitarg"}

StopInv ==
    /\ StoppedIsRecorded
    /\ main \in {"maskall", "addjob"} => child[pid] # "reported"

(* Without the commands no step leads into do_bgfg.                        *)
LEMMA NotInBgfgStep ==
    ASSUME NoBuiltins, NotInBgfg, [Next]_vars
    PROVE  NotInBgfg'
<1>1. CASE \E background \in BOOLEAN : ReadCommand(background)
  BY <1>1 DEF ReadCommand, NotInBgfg
<1>2. CASE MainStep
  BY <1>2 DEF MainStep, ForkError, Fork, MaskAll, AddJob, Announce, SendCont, SetState,
              WaitArg, WaitTest, Sigsuspend, BackToPrompt, NotInBgfg, mainVars
<1>3. CASE \E s \in Caught : Deliver(s)
  BY <1>3 DEF Deliver, NotInBgfg
<1>4. CASE HandlerStep
  BY <1>4 DEF HandlerStep, ChldStep, Waitpid, ChildExited, ChildSignaled, Delete,
              ChildStopped, NullJob, KeyStep, FindForeground, NoForeground, Forward,
              KillError, NotInBgfg, mainVars
<1>5. CASE \E p \in PID : Setpgid(p) \/ Exec(p) \/ Exit(p) \/ Killed(p) \/ Stops(p)
  BY <1>5 DEF Setpgid, Exec, Exit, Killed, Stops, Advances, Reports, NotInBgfg, mainVars
<1>6. CASE \/ Quit \/ DeliverQuit \/ Ended \/ UNCHANGED vars
           \/ \E s \in UserSignals : UserTypes(s)
  BY <1>6 DEF Quit, DeliverQuit, Ended, UserTypes, NotInBgfg, vars, mainVars
<1> QED
  BY <1>1, <1>2, <1>3, <1>4, <1>5, <1>6 DEF Next, NoBuiltins

(* Then do_bgfg is never entered.                                          *)
THEOREM NeverInBgfg == ASSUME NoBuiltins PROVE Spec => []NotInBgfg
<1>1. Init => NotInBgfg
  BY DEF Init, NotInBgfg
<1>2. NotInBgfg /\ [Next]_vars => NotInBgfg'
  BY NotInBgfgStep
<1> QED
  BY <1>1, <1>2, PTL DEF Spec

(* Outside do_bgfg every step keeps the stops that waitpid reported on the *)
(* list.                                                                   *)
LEMMA StopStep ==
    ASSUME NotInBgfg, TypeInv, MaskInv, ListInv, StopInv, [Next]_vars
    PROVE  StopInv'
<1> DEFINE Marking(p) == handler["SIGCHLD"].pc = "stopped" /\ handler["SIGCHLD"].pid = p
           Recorded(p) == \A i \in Slots : jobs[i].pid = p => jobs[i].state = "ST"
<1>a. /\ jobs \in [Slots -> [pid : PID \cup {NoPid}, jid : 0 .. JidBound, state : States]]
      /\ child \in [PID -> ChildStates] /\ handler \in [Caught -> Frame]
      /\ "SIGCHLD" \in Caught
      /\ main \in {"maskall", "addjob"} => pid \in PID
  BY DEF TypeInv, TypeOK, LocalsOK, Caught
<1>b. StoppedIsRecorded <=> \A p \in PID : child[p] = "reported" => Recorded(p) \/ Marking(p)
  BY DEF StoppedIsRecorded, SlotsOfPid
<1>c. StoppedIsRecorded' <=>
        \A p \in PID : child'[p] = "reported" => Recorded(p)' \/ Marking(p)'
  BY DEF StoppedIsRecorded, SlotsOfPid
(* Neither the list nor the reaping changes, and no stop is reported.      *)
<1>d. ASSUME jobs' = jobs,
             \A p \in PID : child'[p] = "reported" => child[p] = "reported",
             \A p \in PID : Marking(p) => Marking(p)',
             main' \in {"maskall", "addjob"} =>
                main \in {"maskall", "addjob"} /\ pid' = pid
      PROVE  StopInv'
  <2>1. StoppedIsRecorded'
    BY <1>b, <1>c, <1>d DEF StopInv
  <2> QED
    BY <1>a, <1>d, <2>1 DEF StopInv
<1>e. ASSUME UNCHANGED <<jobs, child, handler>>,
             main' \in {"maskall", "addjob"} =>
                main \in {"maskall", "addjob"} /\ pid' = pid
      PROVE  StopInv'
  BY <1>d, <1>e
<1> HIDE DEF Marking, Recorded
<1>1. ASSUME NEW background \in BOOLEAN, ReadCommand(background)
      PROVE  StopInv'
  BY <1>e, <1>1 DEF ReadCommand, listVars, childVars
<1>2. ASSUME NEW cmd \in Builtins, ReadBuiltin(cmd)
      PROVE  StopInv'
  BY <1>e, <1>2 DEF ReadBuiltin, listVars, childVars
<1>3. ASSUME NEW p \in PID, Fork(p)
      PROVE  StopInv'
  <2>1. \A q \in PID : child'[q] = IF q = p THEN "forked" ELSE child[q]
    BY <1>3, <1>a DEF Fork
  <2>2. jobs' = jobs /\ handler' = handler /\ pid' = p
    BY <1>3 DEF Fork, listVars
  <2>3. StoppedIsRecorded'
    BY <1>b, <1>c, <2>1, <2>2 DEF StopInv, Marking, Recorded
  <2> QED
    BY <2>1, <2>2, <2>3 DEF StopInv
<1>4. CASE AddJob
  <2>1. /\ pid \in PID /\ nextjid \in 1 .. JidBound /\ jobs \in JobLists(JidBound)
        /\ (IF bg THEN "BG" ELSE "FG") \in States
    BY <1>4 DEF AddJob, TypeInv, TypeOK, LocalsOK, CriticalSection, JobLists, States
  <2>2. \A p \in PID : child'[p] = "reported" => p # pid /\ (Recorded(p) \/ Marking(p))
    BY <1>4, <1>b DEF AddJob, StopInv, childVars
  <2>3. \/ jobs' = jobs
        \/ \E k \in Slots :
             /\ jobs[k].pid = NoPid
             /\ jobs' = [jobs EXCEPT ![k] = [pid |-> pid, jid |-> nextjid,
                           state |-> IF bg THEN "BG" ELSE "FG"]]
    BY <1>4, <2>1, JidBoundAssumption, AddjobEffect DEF AddJob
  <2>4. \A i \in Slots : jobs'[i] = jobs[i] \/ jobs'[i].pid = pid
    BY <1>a, <2>3
  <2>5. \A p \in PID : p # pid /\ Recorded(p) => Recorded(p)'
    BY <2>4 DEF Recorded
  <2>6. \A p \in PID : Marking(p) => Marking(p)'
    BY <1>4 DEF AddJob, Marking
  <2>7. StoppedIsRecorded'
    BY <1>c, <2>2, <2>5, <2>6
  <2> QED
    BY <1>4, <2>7 DEF AddJob, StopInv
<1>5. CASE ForkError \/ MaskAll \/ Announce \/ WaitTest \/ Sigsuspend
  BY <1>5, <1>e DEF ForkError, MaskAll, Announce, WaitTest, Sigsuspend,
                    BackToPrompt, listVars, mainVars, childVars
<1>6. ~ (SendCont \/ SetState \/ WaitArg)
  BY DEF NotInBgfg, SendCont, SetState, WaitArg
<1>7. CASE Quit \/ DeliverQuit \/ NullJob \/ Ended \/ UNCHANGED vars
  BY <1>7, <1>e DEF Quit, DeliverQuit, NullJob, Ended, vars, listVars, mainVars, childVars
<1>8. ASSUME NEW s \in Caught, Deliver(s)
      PROVE  StopInv'
  <2>1. ASSUME s = "SIGCHLD", NEW p \in PID, Marking(p)
        PROVE  FALSE
    <3>1. s \in Active
      BY <1>a, <2>1 DEF Marking, Active
    <3>2. s \in Blocked
      BY <3>1 DEF MaskInv, Blocked, Sleeping
    <3> QED
      BY <1>8, <3>2 DEF Deliver
  <2>2. s # "SIGCHLD" => handler'["SIGCHLD"] = handler["SIGCHLD"]
    BY <1>8, <1>a DEF Deliver
  <2>3. \A p \in PID : Marking(p) => Marking(p)'
    BY <2>1, <2>2 DEF Marking
  <2> QED
    BY <1>8, <1>d, <2>3 DEF Deliver, listVars, childVars
<1>9. CASE Waitpid
  <2>1. /\ main \notin {"maskall", "addjob"} /\ main' = main /\ jobs' = jobs
        /\ \A p \in PID : ~Marking(p)
    BY <1>9 DEF Waitpid, Runs, Active, TypeInv, CriticalSection, listVars, mainVars, Marking
  <2>2. CASE \A p \in PID : child'[p] = "reported" => child[p] = "reported"
    BY <1>d, <2>1, <2>2
  <2>3. ASSUME NEW p \in PID, child' = [child EXCEPT ![p] = "none"]
        PROVE  StopInv'
    BY <1>a, <2>2, <2>3
  <2>4. ASSUME NEW p \in PID, handler' = Goto("SIGCHLD", "stopped", p),
               child' = [child EXCEPT ![p] = "reported"]
        PROVE  StopInv'
    <3>1. "stopped" \in HandlerPCs
      BY DEF HandlerPCs
    <3>2. Marking(p)'
      BY <1>a, <2>4, <3>1, FrameOps DEF TypeInv, Marking
    <3>3. \A q \in PID : child'[q] = IF q = p THEN "reported" ELSE child[q]
      BY <1>a, <2>4
    <3>4. \A q \in PID \ {p} : child'[q] = "reported" => Recorded(q)'
      BY <1>b, <2>1, <3>3 DEF StopInv, Recorded
    <3>5. StoppedIsRecorded'
      BY <1>c, <3>2, <3>4
    <3> QED
      BY <2>1, <3>5 DEF StopInv
  <2> QED
    BY <1>9, <2>2, <2>3, <2>4 DEF Waitpid
<1>10. CASE ChildExited \/ ChildSignaled
  <2>1. /\ main \notin {"maskall", "addjob"}
        /\ Delete
        /\ \/ jobs' = jobs
           \/ \E k \in Slots : jobs' = [jobs EXCEPT ![k] = clearjob]
    BY <1>10, ReapedIsDeleted
  <2>2. \A p \in PID : ~Marking(p)
    BY <1>10 DEF ChildExited, ChildSignaled, Marking
  <2>3. \A i \in Slots : jobs'[i] = jobs[i] \/ jobs'[i].pid = NoPid
    BY <1>a, <2>1 DEF clearjob
  <2>4. \A p \in PID : Recorded(p) => Recorded(p)'
    BY <2>3, PidAssumption DEF Recorded
  <2>5. main' = main /\ child' = child
    BY <2>1 DEF Delete, mainVars, childVars
  <2>6. StoppedIsRecorded'
    BY <1>b, <1>c, <2>2, <2>4, <2>5 DEF StopInv
  <2> QED
    BY <2>1, <2>5, <2>6 DEF StopInv
<1>11. CASE ChildStopped
  <2> DEFINE k == getjobpid(jobs, Reaped)
  <2>1. main \notin {"maskall", "addjob"} /\ main' = main /\ child' = child /\ k # NULL
    BY <1>11 DEF ChildStopped, Runs, Active, TypeInv, CriticalSection, mainVars, childVars
  <2>2. k \in Slots /\ jobs[k].pid = Reaped
    <3>1. SlotsOfPid(jobs, Reaped) # {}
      BY <2>1 DEF getjobpid, FirstOf
    <3>2. SlotsOfPid(jobs, Reaped) \in SUBSET Slots
      BY DEF SlotsOfPid
    <3>3. k \in SlotsOfPid(jobs, Reaped)
      BY <3>1, <3>2, FirstOfMatches DEF getjobpid
    <3> QED
      BY <3>3 DEF SlotsOfPid
  <2>3. jobs' = [jobs EXCEPT ![k].state = "ST"]
    BY <1>11 DEF ChildStopped, setstate
  <2> HIDE DEF k
  <2>4. /\ \A i \in Slots : jobs'[i].pid = jobs[i].pid
        /\ \A i \in Slots : jobs'[i].state = IF i = k THEN "ST" ELSE jobs[i].state
    BY <1>a, <2>2, <2>3
  <2>5. \A p \in PID : Recorded(p) => Recorded(p)'
    BY <2>4 DEF Recorded
  <2>6. \A p \in PID : Marking(p) => Recorded(p)'
    <3> SUFFICES ASSUME NEW p \in PID, Marking(p), NEW i \in Slots, jobs'[i].pid = p
                 PROVE  jobs'[i].state = "ST"
      BY DEF Recorded
    <3>1. jobs[i].pid = jobs[k].pid /\ jobs[i].pid # NoPid
      BY <2>2, <2>4, PidAssumption DEF Marking, Reaped
    <3>2. i = k
      BY <2>2, <3>1 DEF ListInv, PidsUnique
    <3> QED
      BY <2>4, <3>2
  <2>7. StoppedIsRecorded'
    BY <1>b, <1>c, <2>1, <2>5, <2>6 DEF StopInv
  <2> QED
    BY <2>1, <2>7 DEF StopInv
<1>12. ASSUME NEW s \in {"SIGINT", "SIGTSTP"}, KeyStep(s)
       PROVE  StopInv'
  <2>1. handler'["SIGCHLD"] = handler["SIGCHLD"]
    BY <1>12, <1>a DEF KeyStep, FindForeground, NoForeground, Forward,
                       KillError, Goto, Return
  <2>2. \A p \in PID : child'[p] = "reported" => child[p] = "reported"
    <3>1. CASE FindForeground(s) \/ NoForeground(s) \/ KillError(s)
      BY <3>1 DEF FindForeground, NoForeground, KillError, childVars
    <3>2. CASE Forward(s)
      BY <3>2, <1>a DEF Forward, Interrupt, Suspend, childVars
    <3> QED
      BY <1>12, <3>1, <3>2 DEF KeyStep
  <2>3. UNCHANGED <<listVars, mainVars>>
    BY <1>12 DEF KeyStep, FindForeground, NoForeground, Forward, KillError
  <2> QED
    BY <1>d, <2>1, <2>2, <2>3 DEF Marking, listVars, mainVars
<1>13. ASSUME NEW p \in PID,
              Setpgid(p) \/ Exec(p) \/ Exit(p) \/ Killed(p) \/ Stops(p)
       PROVE  StopInv'
  <2>1. \A q \in PID : child'[q] = "reported" => child[q] = "reported"
    BY <1>13, <1>a DEF Setpgid, Exec, Exit, Killed, Stops, Advances, Reports
  <2>2. UNCHANGED <<listVars, mainVars, handler>>
    BY <1>13 DEF Setpgid, Exec, Exit, Killed, Stops, Advances, Reports
  <2> QED
    BY <1>d, <2>1, <2>2 DEF Marking, listVars, mainVars
<1>14. ASSUME NEW s \in UserSignals, UserTypes(s)
       PROVE  StopInv'
  BY <1>e, <1>14 DEF UserTypes, listVars, mainVars, childVars
<1> QED
  BY <1>1, <1>2, <1>3, <1>4, <1>5, <1>6, <1>7, <1>8, <1>9, <1>10, <1>11, <1>12,
     <1>13, <1>14 DEF Next, MainStep, HandlerStep, ChldStep

(* The list calls a job stopped as soon as waitpid has said so, as long as *)
(* neither fg nor bg writes the list at the same time.                     *)
THEOREM StopsAreRecorded == ASSUME NoBuiltins PROVE Spec => []StoppedIsRecorded
<1>1. Init => StopInv
  BY DEF Init, StopInv, StoppedIsRecorded
<1>2. NotInBgfg /\ TypeInv /\ MaskInv /\ ListInv /\ StopInv /\ [Next]_vars => StopInv'
  BY StopStep
<1>3. StopInv => StoppedIsRecorded
  BY DEF StopInv
<1> QED
  BY <1>1, <1>2, <1>3, NeverInBgfg, TypeInvariant, MaskInvariant, ListInvariant,
     PTL DEF Spec

(***************************************************************************)
(* No wakeup is lost.  From addjob on everything is blocked while waitfg's *)
(* own code runs, because the mask the last handler restores is the one it *)
(* was called with; so nothing changes the list between the test of the    *)
(* loop and the delivery that ends sigsuspend.  After fg the mask is empty *)
(* instead, and the property fails; bg never gets to waitfg.               *)
(***************************************************************************)
NoFg == "fg" \notin Builtins

OnlyBg ==
    /\ main \in {"sendcont", "setstate"} => bg
    /\ main # "waitarg"

(* Without fg, do_bgfg runs for bg only and does not get to waitfg.        *)
LEMMA OnlyBgStep ==
    ASSUME NoFg, OnlyBg, [Next]_vars
    PROVE  OnlyBg'
<1>1. CASE \E background \in BOOLEAN : ReadCommand(background)
  BY <1>1 DEF ReadCommand, OnlyBg
<1>2. CASE \E cmd \in Builtins : ReadBuiltin(cmd)
  BY <1>2, BuiltinsAssumption DEF ReadBuiltin, OnlyBg, NoFg
<1>3. CASE SendCont \/ SetState
  BY <1>3 DEF SendCont, SetState, BackToPrompt, OnlyBg
<1>4. CASE MainStep /\ ~SendCont /\ ~SetState
  BY <1>4 DEF MainStep, ForkError, Fork, MaskAll, AddJob, Announce,
              WaitArg, WaitTest, Sigsuspend, BackToPrompt, OnlyBg, mainVars
<1>5. CASE \E s \in Caught : Deliver(s)
  BY <1>5 DEF Deliver, OnlyBg
<1>6. CASE HandlerStep
  BY <1>6 DEF HandlerStep, ChldStep, Waitpid, ChildExited, ChildSignaled, Delete,
              ChildStopped, NullJob, KeyStep, FindForeground, NoForeground, Forward,
              KillError, OnlyBg, mainVars
<1>7. CASE \E p \in PID : Setpgid(p) \/ Exec(p) \/ Exit(p) \/ Killed(p) \/ Stops(p)
  BY <1>7 DEF Setpgid, Exec, Exit, Killed, Stops, Advances, Reports, OnlyBg, mainVars
<1>8. CASE \/ Quit \/ DeliverQuit \/ Ended \/ UNCHANGED vars
           \/ \E s \in UserSignals : UserTypes(s)
  BY <1>8 DEF Quit, DeliverQuit, Ended, UserTypes, OnlyBg, vars, mainVars
<1> QED
  BY <1>1, <1>2, <1>3, <1>4, <1>5, <1>6, <1>7, <1>8 DEF Next

WaitInv ==
    /\ main = "addjob" => mask = Signals /\ Active = {}
    /\ main = "waitfg" =>
         /\ Active = {} => mask = Signals
         /\ \A s \in Active : handler[s].beneath = {} => handler[s].mask = Signals
    /\ main \in {"sigsuspend", "suspended"} =>
         mask = Signals /\ Active = {} /\ fgpid(jobs) = pid

(* Outside fg every step keeps waitfg protected.                           *)
LEMMA WaitStep ==
    ASSUME OnlyBg, TypeInv, WaitInv, [Next]_vars
    PROVE  WaitInv'
<1>a. "SIGCHLD" \in Caught /\ handler \in [Caught -> Frame] /\ Caught \subseteq Signals
  BY DEF Caught, Signals, TypeInv, TypeOK
<1>b. ASSUME UNCHANGED <<main, pid, mask, handler, jobs>>
      PROVE  WaitInv'
  BY <1>b DEF WaitInv, Active
<1>1. ASSUME NEW background \in BOOLEAN, ReadCommand(background)
      PROVE  WaitInv'
  BY <1>1 DEF ReadCommand, WaitInv
<1>2. ASSUME NEW cmd \in Builtins, ReadBuiltin(cmd)
      PROVE  WaitInv'
  BY <1>2 DEF ReadBuiltin, WaitInv
<1>3. CASE ForkError \/ (\E p \in PID : Fork(p)) \/ Announce
  BY <1>3, <1>b DEF ForkError, Fork, Announce, BackToPrompt, WaitInv, listVars, mainVars
<1>4. CASE MaskAll
  BY <1>4 DEF MaskAll, MainRuns, WaitInv, Active
<1>5. CASE AddJob
  BY <1>5 DEF AddJob, MainRuns, WaitInv, Active
<1>6. CASE SendCont \/ SetState \/ WaitArg
  BY <1>6 DEF OnlyBg, SendCont, SetState, WaitArg, BackToPrompt, WaitInv
<1>7. CASE WaitTest
  BY <1>7 DEF WaitTest, MainRuns, BackToPrompt, WaitInv, Active, listVars
<1>8. CASE Sigsuspend
  BY <1>8 DEF Sigsuspend, MainRuns, WaitInv, Active, listVars
<1>9. CASE Quit \/ DeliverQuit \/ NullJob \/ Ended \/ UNCHANGED vars
  BY <1>9, <1>b DEF Quit, DeliverQuit, NullJob, Ended, vars, listVars, mainVars
<1>10. ASSUME NEW s \in Caught, Deliver(s)
       PROVE  WaitInv'
  <2> DEFINE frame == [pc |-> FirstPC(s), beneath |-> Active, mask |-> mask,
                       pid |-> NoPid]
  <2>1. \A t \in Caught : handler'[t] = IF t = s THEN frame ELSE handler[t]
    BY <1>10, <1>a DEF Deliver
  <2>2. handler'[s].pc # "idle" /\ handler'[s].beneath = Active /\ handler'[s].mask = mask
    BY <2>1 DEF FirstPC
  <2>3. /\ Active' = Active \cup {s}
        /\ \A t \in Active : t # s => handler'[t] = handler[t]
    <3> HIDE DEF frame
    <3> QED
      BY <2>1, <2>2 DEF Active
  <2>4. main' = IF Sleeping THEN "waitfg" ELSE main
    BY <1>10 DEF Deliver
  <2>5. s \in Signals /\ s \notin Blocked
    BY <1>10, <1>a DEF Deliver
  <2>6. main # "addjob" /\ main # "sigsuspend"
    BY <2>5 DEF WaitInv, Blocked, Sleeping
  <2>7. main = "suspended" => Sleeping /\ mask = Signals
    BY DEF WaitInv, Sleeping
  <2>8. main = "waitfg" =>
          /\ ~Sleeping
          /\ \A t \in Active' : handler'[t].beneath = {} => handler'[t].mask = Signals
    BY <2>2, <2>3 DEF WaitInv, Sleeping
  <2>9. CASE Sleeping
    <3>1. main' = "waitfg" /\ mask = Signals /\ Active' = {s}
      BY <2>3, <2>4, <2>9 DEF Sleeping, WaitInv
    <3> QED
      BY <2>2, <3>1 DEF WaitInv
  <2>10. CASE ~Sleeping
    <3>1. main' = main /\ main # "suspended" /\ Active' # {}
      BY <2>3, <2>4, <2>7, <2>10
    <3> QED
      BY <2>6, <2>8, <3>1 DEF WaitInv
  <2> QED
    BY <2>9, <2>10
(* A handler returns: the last one gives the caller's mask back.           *)
<1>c. ASSUME NEW s \in Caught, Runs(s), Return(s), UNCHANGED mainVars
      PROVE  WaitInv'
  <2>1. \A t \in Caught : handler'[t] = IF t = s THEN Idle ELSE handler[t]
    BY <1>a, <1>c DEF Return
  <2>2. Active' = Active \ {s} /\ \A t \in Active' : handler'[t] = handler[t]
    BY <2>1 DEF Active, Idle
  <2>3. s \in Active /\ handler[s].beneath = Active' /\ mask' = handler[s].mask
    BY <1>c, <2>2 DEF Runs, Return
  <2> QED
    BY <1>c, <2>2, <2>3 DEF WaitInv, mainVars
(* A handler goes on: its frame is what it was.                            *)
<1>d. ASSUME NEW s \in Caught, s \in Active, UNCHANGED <<mainVars, mask>>,
             NEW pc \in HandlerPCs \ {"idle"}, NEW p \in PID \cup {NoPid},
             handler' = Goto(s, pc, p)
      PROVE  WaitInv'
  <2>1. /\ handler'[s].pc = pc
        /\ handler'[s].beneath = handler[s].beneath
        /\ handler'[s].mask = handler[s].mask
        /\ \A t \in Caught \ {s} : handler'[t] = handler[t]
    BY <1>d, FrameOps DEF TypeInv
  <2>2. Active' = Active
    BY <1>d, <2>1 DEF Active
  <2>3. \A t \in Active : /\ handler'[t].beneath = handler[t].beneath
                         /\ handler'[t].mask = handler[t].mask
    BY <2>1 DEF Active
  <2> QED
    BY <1>d, <2>2, <2>3 DEF WaitInv, mainVars
<1>11. CASE Waitpid
  <2>1. CASE Return("SIGCHLD")
    BY <1>11, <1>a, <1>c, <2>1 DEF Waitpid
  <2>2. ASSUME NEW p \in PID, child[p] \in Zombie, UNCHANGED mask,
               handler' = Goto("SIGCHLD", child[p], p)
        PROVE  WaitInv'
    <3>1. child[p] \in HandlerPCs \ {"idle"}
      BY <2>2 DEF Zombie, HandlerPCs
    <3> QED
      BY <1>11, <1>a, <1>d, <2>2, <3>1 DEF Waitpid, Runs
  <2>3. ASSUME NEW p \in PID, handler' = Goto("SIGCHLD", "stopped", p), UNCHANGED mask
        PROVE  WaitInv'
    <3>1. "stopped" \in HandlerPCs \ {"idle"}
      BY DEF HandlerPCs
    <3> QED
      BY <1>11, <1>a, <1>d, <2>3, <3>1 DEF Waitpid, Runs
  <2> QED
    BY <1>11, <2>1, <2>2, <2>3 DEF Waitpid
<1>12. CASE ChildExited \/ ChildSignaled \/ ChildStopped
  <2>1. "waitpid" \in HandlerPCs \ {"idle"}
    BY DEF HandlerPCs
  <2> QED
    BY <1>12, <1>a, <1>d, <2>1 DEF ChildExited, ChildSignaled, ChildStopped, Delete, Runs
<1>13. ASSUME NEW s \in {"SIGINT", "SIGTSTP"}, KeyStep(s)
       PROVE  WaitInv'
  <2>1. s \in Caught /\ "kill" \in HandlerPCs \ {"idle"}
    BY DEF Caught, HandlerPCs
  <2>2. CASE FindForeground(s)
    <3>1. fgpid(jobs) \in PID \cup {NoPid}
      BY FgpidType DEF TypeInv
    <3> QED
      BY <1>d, <2>1, <2>2, <3>1 DEF FindForeground, Runs
  <2>3. CASE NoForeground(s) \/ Forward(s)
    BY <1>c, <2>1, <2>3 DEF NoForeground, Forward
  <2>4. CASE KillError(s)
    BY <1>b, <2>4 DEF KillError, listVars, mainVars
  <2> QED
    BY <1>13, <2>2, <2>3, <2>4 DEF KeyStep
<1>14. ASSUME NEW p \in PID,
              Setpgid(p) \/ Exec(p) \/ Exit(p) \/ Killed(p) \/ Stops(p)
       PROVE  WaitInv'
  BY <1>b, <1>14 DEF Setpgid, Exec, Exit, Killed, Stops, Advances, Reports,
                     listVars, mainVars
<1>15. ASSUME NEW s \in UserSignals, UserTypes(s)
       PROVE  WaitInv'
  BY <1>b, <1>15 DEF UserTypes, listVars, mainVars
<1> QED
  BY <1>1, <1>2, <1>3, <1>4, <1>5, <1>6, <1>7, <1>8, <1>9, <1>10, <1>11, <1>12,
     <1>13, <1>14, <1>15 DEF Next, MainStep, HandlerStep, ChldStep

(* The shell never sleeps for a job that has left the foreground already,  *)
(* whether or not a signal is pending, as long as no job is brought        *)
(* forward by fg.                                                          *)
THEOREM NoWakeupIsLost == ASSUME NoFg PROVE Spec => []SleepsOnlyForForeground
<1>1. Init => OnlyBg /\ WaitInv
  BY DEF Init, OnlyBg, WaitInv
<1>2. OnlyBg /\ [Next]_vars => OnlyBg'
  BY OnlyBgStep
<1>3. OnlyBg /\ TypeInv /\ WaitInv /\ [Next]_vars => WaitInv'
  BY WaitStep
<1>4. WaitInv => SleepsOnlyForForeground
  BY DEF WaitInv, SleepsOnlyForForeground, Sleeping
<1> QED
  BY <1>1, <1>2, <1>3, <1>4, TypeInvariant, PTL DEF Spec

(***************************************************************************)
(* Job control.  The list shows each process in one entry at most (the     *)
(* pids differ), so that a step which writes one slot changes what is said *)
(* of the processes in that slot before and after, and of no other.        *)
(***************************************************************************)
ListedOK ==
    \A p \in PID :
        /\ \A i \in Slots : jobs[i].pid = p => Listed(p) = jobs[i].state
        /\ Listed(p) = "none" <=> \A i \in Slots : jobs[i].pid # p

(* What the list says of a process, in terms of its slots.                 *)
LEMMA ListedIs == TypeInv /\ ListInv => ListedOK
<1> SUFFICES ASSUME TypeInv, ListInv, NEW p \in PID
             PROVE  /\ \A i \in Slots : jobs[i].pid = p => Listed(p) = jobs[i].state
                    /\ Listed(p) = "none" <=> \A i \in Slots : jobs[i].pid # p
  BY DEF ListedOK
<1> DEFINE s == CHOOSE i \in SlotsOfPid(jobs, p) : TRUE
<1>1. InTable(p) <=> \E i \in Slots : jobs[i].pid = p
  BY DEF InTable, SlotsOfPid
<1>2. ASSUME NEW i \in Slots, jobs[i].pid = p PROVE Listed(p) = jobs[i].state
  <2>1. s \in Slots /\ jobs[s].pid = p
    BY <1>2 DEF SlotsOfPid
  <2>2. s = i
    <3> HIDE DEF s
    <3> QED
      BY <1>2, <2>1, PidAssumption DEF ListInv, PidsUnique
  <2>3. Listed(p) = jobs[s].state
    BY <1>1, <1>2 DEF Listed
  <2> QED
    BY <2>2, <2>3
<1>3. \A i \in Slots : jobs[i].state # "none"
  BY DEF TypeInv, TypeOK, States
<1>4. (\A i \in Slots : jobs[i].pid # p) => Listed(p) = "none"
  BY <1>1 DEF Listed
<1> QED
  BY <1>2, <1>3, <1>4

(* Writing slot k concerns only the processes it names before and after.   *)
LEMMA SlotChange ==
    ASSUME ListedOK, ListedOK', NEW k \in Slots,
           \A i \in Slots \ {k} : jobs'[i] = jobs[i]
    PROVE  \A p \in PID : p # jobs[k].pid /\ p # jobs'[k].pid => Listed(p)' = Listed(p)
<1> SUFFICES ASSUME NEW p \in PID, p # jobs[k].pid, p # jobs'[k].pid
             PROVE  Listed(p)' = Listed(p)
  OBVIOUS
<1>1. CASE \E i \in Slots : jobs[i].pid = p
  <2>1. PICK i \in Slots : jobs[i].pid = p
    BY <1>1
  <2>2. jobs'[i] = jobs[i]
    BY <2>1
  <2>3. Listed(p) = jobs[i].state /\ Listed(p)' = jobs'[i].state
    BY <2>1, <2>2 DEF ListedOK
  <2> QED
    BY <2>2, <2>3
<1>2. CASE \A i \in Slots : jobs[i].pid # p
  <2>1. \A i \in Slots : jobs'[i].pid # p
    BY <1>2
  <2> QED
    BY <1>2, <2>1 DEF ListedOK
<1> QED
  BY <1>1, <1>2

(* With no FG slot nobody is said to be in the foreground.                 *)
LEMMA NobodyInForeground ==
    ASSUME ListedOK, Foreground(jobs) = {}
    PROVE  \A p \in PID : Listed(p) # "FG"
<1> SUFFICES ASSUME NEW p \in PID PROVE Listed(p) # "FG"
  OBVIOUS
<1>1. \A i \in Slots : jobs[i].state # "FG"
  BY DEF Foreground
<1> QED
  BY <1>1 DEF ListedOK

(* The view of the shell that JobControl gives.                            *)
ProcessView == [p \in PID |-> Process(p)]
JobView     == [p \in PID |-> Listed(p)]
NewsView    == [p \in PID |-> News(p)]

(* At the start there is no process, no job and no news.                   *)
LEMMA ViewInit == Init => Control!Init
<1> SUFFICES ASSUME Init PROVE Control!Init
  OBVIOUS
<1>1. \A p \in PID : Process(p) = "none"
  BY DEF Init, Process, Zombie
<1>2. \A p \in PID : Listed(p) = "none"
  BY PidAssumption DEF Init, initjobs, clearjob, Listed, InTable, SlotsOfPid
<1>3. \A p \in PID : News(p) = "none"
  BY DEF Init, News, Idle, Caught, Zombie
<1> QED
  BY <1>1, <1>2, <1>3 DEF Control!Init, Init

(* What a step leaves alone the user does not see change: the processes ... *)
LEMMA SameProcesses == child' = child => ProcessView' = ProcessView
  BY DEF ProcessView, Process, Zombie

(* ... the list ...                                                        *)
LEMMA SameJobs == jobs' = jobs => JobView' = JobView
  BY DEF JobView, Listed, InTable, SlotsOfPid

(* ... and what sigchld_handler has in hand.                               *)
LEMMA SameNews ==
    /\ handler'["SIGCHLD"].pc = handler["SIGCHLD"].pc
    /\ handler'["SIGCHLD"].pid = handler["SIGCHLD"].pid
    => NewsView' = NewsView
  BY DEF NewsView, News, Zombie

(* A step that leaves the whole view as it is.                             *)
LEMMA UnseenStep ==
    ASSUME ProcessView' = ProcessView, JobView' = JobView, NewsView' = NewsView,
           main' = "read" <=> main = "read"
    PROVE  Control!Next
<1>1. Control!Unseen
  BY DEF Control!Unseen, Control!vars, ProcessView, JobView, NewsView
<1> QED
  BY <1>1 DEF Control!Next

(* Between two calls of waitpid the handler holds no news.                 *)
LEMMA NoNewsYet ==
    ASSUME handler["SIGCHLD"].pc \in {"idle", "waitpid"}
    PROVE  \A p \in PID : News(p) = "none"
  BY DEF News, Zombie

(* A change of one process changes the view at that process.               *)
LEMMA OneProcess ==
    ASSUME NEW p \in PID, \A q \in PID \ {p} : child'[q] = child[q]
    PROVE  ProcessView' = [ProcessView EXCEPT ![p] = Process(p)']
<1>1. \A q \in PID \ {p} : Process(q)' = Process(q)
  BY DEF Process, Zombie
<1> QED
  BY <1>1 DEF ProcessView

(* So does a change of one slot ...                                        *)
LEMMA OneJob ==
    ASSUME ListedOK, ListedOK', NEW k \in Slots, NEW p \in PID,
           \A i \in Slots \ {k} : jobs'[i] = jobs[i],
           jobs[k].pid \in {p, NoPid}, jobs'[k].pid \in {p, NoPid}
    PROVE  JobView' = [JobView EXCEPT ![p] = Listed(p)']
<1>1. \A q \in PID \ {p} : Listed(q)' = Listed(q)
  BY SlotChange, PidAssumption
<1> QED
  BY <1>1 DEF JobView

(* ... and what sigchld_handler learns or writes down.                     *)
LEMMA OnePieceOfNews ==
    ASSUME NEW p \in PID,
           handler["SIGCHLD"].pid = p \/ handler["SIGCHLD"].pc \in {"idle", "waitpid"},
           handler'["SIGCHLD"].pid = p \/ handler'["SIGCHLD"].pc \in {"idle", "waitpid"}
    PROVE  NewsView' = [NewsView EXCEPT ![p] = News(p)']
<1>1. \A q \in PID \ {p} : News(q) = "none" /\ News(q)' = "none"
  BY DEF News, Zombie
<1> QED
  BY <1>1 DEF NewsView

(* The steps of JobControl, said of the views.  A command is read.         *)
LEMMA CommandStep ==
    ASSUME main = "read", main' # "read",
           ProcessView' = ProcessView, JobView' = JobView, NewsView' = NewsView
    PROVE  Control!Next
<1>1. Control!Command
  BY DEF Control!Command, ProcessView, JobView, NewsView
<1> QED
  BY <1>1 DEF Control!Next

(* eval, do_bgfg and waitfg return to the prompt.                          *)
LEMMA PromptStep ==
    ASSUME main # "read", main' = "read", \A p \in PID : Listed(p) # "FG",
           ProcessView' = ProcessView, JobView' = JobView, NewsView' = NewsView
    PROVE  Control!Next
<1>1. Control!BackToPrompt
  BY DEF Control!BackToPrompt, Control!NoForeground, ProcessView, JobView, NewsView
<1> QED
  BY <1>1 DEF Control!Next

(* A new process.                                                          *)
LEMMA ForkStep ==
    ASSUME main # "read", main' # "read", NEW p \in PID,
           \A q \in PID : News(q) = "none",
           Process(p) = "none", Listed(p) = "none",
           ProcessView' = [ProcessView EXCEPT ![p] = "alive"],
           JobView' = JobView, NewsView' = NewsView
    PROVE  Control!Next
<1>1. Control!Fork(p)
  BY DEF Control!Fork, Control!NoNews, ProcessView, JobView, NewsView
<1> QED
  BY <1>1 DEF Control!Next

(* addjob lists it.                                                        *)
LEMMA LaunchStep ==
    ASSUME main # "read", main' # "read", NEW p \in PID, NEW state \in {"FG", "BG"},
           \A q \in PID : Listed(q) # "FG",
           Process(p) # "none", Listed(p) = "none",
           JobView' = [JobView EXCEPT ![p] = state],
           ProcessView' = ProcessView, NewsView' = NewsView
    PROVE  Control!Next
<1>1. Control!Launch(p, state)
  BY DEF Control!Launch, Control!NoForeground, ProcessView, JobView, NewsView
<1> QED
  BY <1>1 DEF Control!Next

(* fg or bg sends SIGCONT.                                                 *)
LEMMA ContinueStep ==
    ASSUME main # "read", main' # "read", NEW p \in PID,
           \A q \in PID : Listed(q) # "FG",
           Process(p) = "stopped", Listed(p) # "none",
           \/ ProcessView' = [ProcessView EXCEPT ![p] = "alive"]
           \/ ProcessView' = [ProcessView EXCEPT ![p] = "ended"],
           JobView' = JobView, NewsView' = NewsView
    PROVE  Control!Next
<1>1. Control!Continue(p)
  BY DEF Control!Continue, Control!NoForeground, ProcessView, JobView, NewsView
<1> QED
  BY <1>1 DEF Control!Next

(* fg or bg writes the state.                                              *)
LEMMA ResumeStep ==
    ASSUME main # "read", NEW p \in PID, NEW state \in {"FG", "BG"},
           main' = "read" <=> state = "BG",
           \A q \in PID : Listed(q) # "FG", Listed(p) # "none",
           JobView' = [JobView EXCEPT ![p] = state],
           ProcessView' = ProcessView, NewsView' = NewsView
    PROVE  Control!Next
<1>1. Control!Resume(p, state)
  BY DEF Control!Resume, Control!NoForeground, ProcessView, JobView, NewsView
<1> QED
  BY <1>1 DEF Control!Next

(* A process stops or ends.                                                *)
LEMMA EndOrStopStep ==
    ASSUME main' = "read" <=> main = "read", NEW p \in PID,
           \/ /\ Process(p) = "alive"
              /\ ProcessView' = [ProcessView EXCEPT ![p] = "stopped"]
           \/ /\ Process(p) \in {"alive", "stopped"}
              /\ ProcessView' = [ProcessView EXCEPT ![p] = "ended"],
           JobView' = JobView, NewsView' = NewsView
    PROVE  Control!Next
<1>1. Control!Stop(p) \/ Control!End(p)
  BY DEF Control!Stop, Control!End, ProcessView, JobView, NewsView
<1> QED
  BY <1>1 DEF Control!Next

(* waitpid returns its pid.                                                *)
LEMMA HearStep ==
    ASSUME main' = "read" <=> main = "read", NEW p \in PID,
           \A q \in PID : News(q) = "none",
           Process(p) \in {"stopped", "ended"},
           NewsView' = [NewsView EXCEPT ![p] = Process(p)],
           ProcessView' = [ProcessView EXCEPT ![p] =
                             IF Process(p) = "ended" THEN "none" ELSE Process(p)],
           JobView' = JobView
    PROVE  Control!Next
<1>1. Control!Hear(p)
  BY DEF Control!Hear, Control!NoNews, ProcessView, JobView, NewsView
<1> QED
  BY <1>1 DEF Control!Next

(* sigchld_handler brings the list up to date.                             *)
LEMMA ActStep ==
    ASSUME main' = "read" <=> main = "read", NEW p \in PID,
           \/ /\ News(p) = "stopped" /\ Listed(p) # "none"
              /\ JobView' = [JobView EXCEPT ![p] = "ST"]
           \/ /\ News(p) = "ended"
              /\ JobView' = [JobView EXCEPT ![p] = "none"],
           NewsView' = [NewsView EXCEPT ![p] = "none"],
           ProcessView' = ProcessView
    PROVE  Control!Next
<1>1. Control!Act(p)
  BY DEF Control!Act, ProcessView, JobView, NewsView
<1> QED
  BY <1>1 DEF Control!Next

(* Every step of the shell is a step of job control, or unseen.            *)
LEMMA ControlStep ==
    ASSUME TypeInv, TypeInv', MaskInv, ForegroundInv, ListInv, ListInv', [Next]_vars
    PROVE  Control!Next
<1>a. /\ jobs \in [Slots -> [pid : PID \cup {NoPid}, jid : 0 .. JidBound, state : States]]
      /\ child \in [PID -> ChildStates] /\ handler \in [Caught -> Frame]
      /\ "SIGCHLD" \in Caught
  BY DEF TypeInv, TypeOK, Caught
<1>b. ListedOK /\ ListedOK'
  <2>1. (TypeInv /\ ListInv => ListedOK)'
    BY ListedIs, PTL
  <2> QED
    BY <2>1, ListedIs
<1>c. main \in NoForegroundPCs => \A p \in PID : Listed(p) # "FG"
  BY <1>b, NobodyInForeground DEF ForegroundInv
(* Steps that leave processes, list and sigchld_handler alone.             *)
<1>d. ASSUME child' = child, jobs' = jobs,
             handler'["SIGCHLD"] = handler["SIGCHLD"]
      PROVE  ProcessView' = ProcessView /\ JobView' = JobView /\ NewsView' = NewsView
  BY <1>d, SameProcesses, SameJobs, SameNews
<1>e. ASSUME child' = child, jobs' = jobs,
             handler'["SIGCHLD"] = handler["SIGCHLD"],
             main' = "read" <=> main = "read"
      PROVE  Control!Next
  BY <1>d, <1>e, UnseenStep
(* One process changes and nothing else does: it stops, ends, or neither.  *)
<1>f. ASSUME NEW p \in PID, \A q \in PID \ {p} : child'[q] = child[q],
             \/ Process(p)' = Process(p)
             \/ Process(p) = "alive" /\ Process(p)' = "stopped"
             \/ Process(p) \in {"alive", "stopped"} /\ Process(p)' = "ended",
             jobs' = jobs, handler'["SIGCHLD"] = handler["SIGCHLD"], main' = main
      PROVE  Control!Next
  <2>1. ProcessView' = [ProcessView EXCEPT ![p] = Process(p)']
    BY <1>f, OneProcess
  <2>2. JobView' = JobView /\ NewsView' = NewsView
    BY <1>f, SameJobs, SameNews
  <2>3. CASE Process(p)' = Process(p)
    <3>1. ProcessView' = ProcessView
      BY <2>1, <2>3 DEF ProcessView
    <3> QED
      BY <1>f, <2>2, <3>1, UnseenStep
  <2>4. CASE Process(p) = "alive" /\ Process(p)' = "stopped"
    BY <1>f, <2>1, <2>2, <2>4, EndOrStopStep
  <2>5. CASE Process(p) \in {"alive", "stopped"} /\ Process(p)' = "ended"
    BY <1>f, <2>1, <2>2, <2>5, EndOrStopStep
  <2> QED
    BY <1>f, <2>3, <2>4, <2>5
<1>1. ASSUME NEW background \in BOOLEAN, ReadCommand(background)
      PROVE  Control!Next
  BY <1>1, <1>d, CommandStep DEF ReadCommand, listVars, childVars
<1>2. ASSUME NEW cmd \in Builtins, ReadBuiltin(cmd)
      PROVE  Control!Next
  BY <1>2, <1>d, CommandStep DEF ReadBuiltin, listVars, childVars
<1>3. CASE Quit \/ ForkError \/ DeliverQuit \/ NullJob \/ Ended \/ UNCHANGED vars
  BY <1>3, <1>e DEF Quit, ForkError, DeliverQuit, NullJob, Ended, vars, listVars,
                    mainVars, childVars
<1>4. CASE MaskAll \/ WaitArg \/ Sigsuspend
  BY <1>4, <1>e DEF MaskAll, WaitArg, Sigsuspend, listVars, childVars
<1>5. ASSUME NEW p \in PID, Fork(p)
      PROVE  Control!Next
  <2>1. handler["SIGCHLD"].pc = "idle" /\ main = "fork"
    BY <1>5 DEF Fork, TypeInv, CriticalSection
  <2>2. \A q \in PID : News(q) = "none"
    BY <2>1, NoNewsYet
  <2>3. Process(p) = "none"
    BY <1>5 DEF Fork, Process, Zombie
  <2>4. Listed(p) = "none"
    <3>1. ~InTable(p)
      BY <1>5, <2>1 DEF Fork, ListInv, JobsTrackChildren, BeingDeleted, Zombie
    <3> QED
      BY <3>1 DEF Listed
  <2>5. ProcessView' = [ProcessView EXCEPT ![p] = "alive"]
    <3>1. Process(p)' = "alive"
      BY <1>5, <1>a DEF Fork, Process, Zombie
    <3>2. \A q \in PID \ {p} : child'[q] = child[q]
      BY <1>5, <1>a DEF Fork
    <3> QED
      BY <3>1, <3>2, OneProcess
  <2>6. JobView' = JobView /\ NewsView' = NewsView /\ main' # "read"
    BY <1>5, SameJobs, SameNews DEF Fork, listVars
  <2> QED
    BY <2>1, <2>2, <2>3, <2>4, <2>5, <2>6, ForkStep
<1>6. CASE AddJob
  <2>0. PICK p \in PID, state \in {"FG", "BG"} :
          p = pid /\ state = IF bg THEN "BG" ELSE "FG"
    BY <1>6 DEF AddJob, TypeInv, LocalsOK
  <2>1. /\ nextjid \in 1 .. JidBound /\ jobs \in JobLists(JidBound)
        /\ state \in States /\ main = "addjob" /\ main' # "read"
    BY <1>6 DEF AddJob, TypeInv, TypeOK, LocalsOK, CriticalSection, JobLists, States
  <2>2. \/ jobs' = jobs
        \/ \E k \in Slots :
             /\ jobs[k].pid = NoPid
             /\ jobs' = [jobs EXCEPT ![k] =
                           [pid |-> p, jid |-> nextjid, state |-> state]]
    BY <1>6, <2>0, <2>1, JidBoundAssumption, AddjobEffect DEF AddJob
  <2>3. child' = child /\ handler' = handler
    BY <1>6 DEF AddJob, childVars
  <2>4. CASE jobs' = jobs
    BY <2>1, <2>3, <2>4, <1>e
  <2>5. ASSUME NEW k \in Slots, jobs[k].pid = NoPid,
               jobs' = [jobs EXCEPT ![k] = [pid |-> p, jid |-> nextjid, state |-> state]]
        PROVE  Control!Next
    <3>1. /\ \A i \in Slots \ {k} : jobs'[i] = jobs[i]
          /\ jobs'[k].pid = p /\ jobs'[k].state = state
      BY <1>a, <2>5
    <3>2. Listed(p)' = state
      BY <1>b, <3>1 DEF ListedOK
    <3>3. JobView' = [JobView EXCEPT ![p] = state]
      BY <1>b, <2>5, <3>1, <3>2, OneJob
    <3>4. Process(p) # "none" /\ Listed(p) = "none"
      BY <2>0, <2>1 DEF ListInv, Process, Listed, Zombie
    <3>5. \A q \in PID : Listed(q) # "FG"
      BY <1>c, <2>1 DEF NoForegroundPCs
    <3>6. ProcessView' = ProcessView /\ NewsView' = NewsView
      BY <2>3, SameProcesses, SameNews
    <3> QED
      BY <2>1, <3>3, <3>4, <3>5, <3>6, LaunchStep
  <2> QED
    BY <2>2, <2>4, <2>5
<1>7. CASE Announce
  <2>1. /\ main # "read" /\ main' = "read" /\ \A p \in PID : Listed(p) # "FG"
        /\ child' = child /\ jobs' = jobs /\ handler' = handler
    BY <1>7, <1>c DEF Announce, BackToPrompt, NoForegroundPCs, listVars, childVars
  <2> QED
    BY <2>1, <1>d, PromptStep
<1>8. CASE SendCont
  <2>0. PICK p : p = jobs[job_ptr].pid
    OBVIOUS
  <2>1. /\ main = "sendcont" /\ main' # "read" /\ job_ptr \in Slots
        /\ jobs' = jobs /\ handler' = handler /\ Continue(p)
    BY <1>8, <2>0 DEF SendCont, TypeInv, LocalsOK, listVars
  <2>2. CASE p \in PID /\ child[p] \in {"stopped", "reported"}
    <3>1. /\ \A q \in PID \ {p} : child'[q] = child[q]
          /\ child'[p] \in {"signaled", "running"}
      BY <1>a, <2>1, <2>2 DEF Continue
    <3>2. Process(p) = "stopped" /\ Process(p)' \in {"ended", "alive"}
      BY <2>2, <3>1 DEF Process, Zombie
    <3>3. ProcessView' = [ProcessView EXCEPT ![p] = Process(p)']
      BY <2>2, <3>1, OneProcess
    <3>4. JobView' = JobView /\ NewsView' = NewsView
      BY <2>1, SameJobs, SameNews
    <3>5. Listed(p) # "none"
      BY <1>b, <2>0, <2>1, <2>2 DEF ListedOK
    <3>6. \A q \in PID : Listed(q) # "FG"
      BY <1>c, <2>1 DEF NoForegroundPCs
    <3> QED
      BY <2>1, <2>2, <3>2, <3>3, <3>4, <3>5, <3>6, ContinueStep
  <2>3. CASE ~(p \in PID /\ child[p] \in {"stopped", "reported"})
    BY <2>1, <2>3, <1>e DEF Continue, childVars
  <2> QED
    BY <2>2, <2>3
<1>9. CASE SetState
  <2>0. PICK p \in PID \cup {NoPid}, k \in Slots, state \in {"FG", "BG"} :
          p = jobs[k].pid /\ k = job_ptr /\ state = IF bg THEN "BG" ELSE "FG"
    BY <1>9, <1>a DEF SetState, TypeInv, LocalsOK
  <2>1. /\ main = "setstate" /\ child' = child /\ handler' = handler
        /\ main' = "read" <=> bg
        /\ jobs' = setstate(jobs, k, state)
    BY <1>9, <2>0 DEF SetState, BackToPrompt, childVars
  <2>2. \A q \in PID : Listed(q) # "FG"
    BY <1>c, <2>1 DEF NoForegroundPCs
  <2>3. /\ \A i \in Slots \ {k} : jobs'[i] = jobs[i]
        /\ jobs'[k].pid = p /\ jobs'[k].state = state
    BY <1>a, <2>0, <2>1 DEF setstate
  <2>4. ProcessView' = ProcessView /\ NewsView' = NewsView
    BY <2>1, SameProcesses, SameNews
  <2>5. CASE p \in PID
    <3>1. Listed(p) # "none" /\ Listed(p)' = state
      BY <1>b, <2>0, <2>3, <2>5 DEF ListedOK
    <3>2. JobView' = [JobView EXCEPT ![p] = state]
      BY <1>b, <2>0, <2>3, <2>5, <3>1, OneJob
    <3>3. main' = "read" <=> state = "BG"
      BY <2>0, <2>1
    <3> QED
      BY <2>1, <2>2, <2>4, <2>5, <3>1, <3>2, <3>3, ResumeStep
  <2>6. CASE p = NoPid
    <3>1. \A q \in PID : Listed(q)' = Listed(q)
      BY <1>b, <2>0, <2>3, <2>6, PidAssumption, SlotChange
    <3>2. JobView' = JobView
      BY <3>1 DEF JobView
    <3>3. CASE bg
      BY <2>1, <2>2, <2>4, <3>2, <3>3, PromptStep
    <3>4. CASE ~bg
      BY <2>1, <2>4, <3>2, <3>4, UnseenStep
    <3> QED
      BY <3>3, <3>4
  <2> QED
    BY <2>5, <2>6
<1>10. CASE WaitTest
  <2>1. main = "waitfg" /\ child' = child /\ jobs' = jobs /\ handler' = handler
    BY <1>10 DEF WaitTest, listVars, childVars
  <2>2. CASE main' = "sigsuspend"
    BY <2>1, <2>2, <1>e
  <2>3. CASE pid # fgpid(jobs) /\ main' = "read"
    <3>1. Foreground(jobs) = {}
      BY <2>1, <2>3, FgpidType DEF ForegroundInv, TypeInv
    <3>2. \A p \in PID : Listed(p) # "FG"
      BY <3>1, <1>b, NobodyInForeground
    <3> QED
      BY <2>1, <2>3, <3>2, <1>d, PromptStep
  <2> QED
    BY <1>10, <2>2, <2>3 DEF WaitTest, BackToPrompt
<1>11. ASSUME NEW s \in Caught, Deliver(s)
       PROVE  Control!Next
  <2>1. child' = child /\ jobs' = jobs /\ (main' = "read" <=> main = "read")
    BY <1>11 DEF Deliver, Sleeping, listVars, childVars
  <2>2. CASE s # "SIGCHLD"
    <3>1. handler'["SIGCHLD"] = handler["SIGCHLD"]
      BY <1>a, <1>11, <2>2 DEF Deliver
    <3> QED
      BY <2>1, <3>1, <1>e
  <2>3. CASE s = "SIGCHLD"
    <3>1. handler["SIGCHLD"].pc = "idle"
      BY <1>a, <1>11, <2>3 DEF Deliver, Blocked, Sleeping, Active, MaskInv
    <3>2. handler'["SIGCHLD"].pc = "waitpid"
      BY <1>a, <1>11, <2>3 DEF Deliver, FirstPC
    <3>3. \A p \in PID : News(p) = "none" /\ News(p)' = "none"
      BY <3>1, <3>2 DEF News, Zombie
    <3>4. NewsView' = NewsView
      BY <3>3 DEF NewsView
    <3> QED
      BY <2>1, <3>4, SameProcesses, SameJobs, UnseenStep
  <2> QED
    BY <2>2, <2>3
<1>12. CASE Waitpid
  <2>1. /\ handler["SIGCHLD"].pc = "waitpid" /\ jobs' = jobs /\ main' = main
        /\ \A q \in PID : News(q) = "none"
    BY <1>12, NoNewsYet DEF Waitpid, listVars, mainVars
  <2>2. JobView' = JobView
    BY <2>1, SameJobs
  <2>3. ASSUME NEW p \in PID, NEW pc \in {"exited", "signaled", "stopped"},
               NEW to \in {"none", "reported"}, child[p] = pc,
               to = "none" <=> pc \in Zombie,
               handler' = Goto("SIGCHLD", pc, p), child' = [child EXCEPT ![p] = to]
        PROVE  Control!Next
    <3>1. handler'["SIGCHLD"].pc = pc /\ handler'["SIGCHLD"].pid = p
      <4>1. pc \in HandlerPCs /\ p \in PID \cup {NoPid}
        BY <2>3 DEF HandlerPCs
      <4> QED
        BY <1>a, <2>3, <4>1, FrameOps DEF TypeInv
    <3>2. Process(p) \in {"stopped", "ended"} /\ News(p)' = Process(p)
      BY <2>3, <3>1 DEF Process, News, Zombie
    <3>3. NewsView' = [NewsView EXCEPT ![p] = Process(p)]
      BY <2>1, <3>1, <3>2, OnePieceOfNews
    <3>4. /\ \A q \in PID \ {p} : child'[q] = child[q]
          /\ Process(p)' = IF Process(p) = "ended" THEN "none" ELSE Process(p)
      BY <1>a, <2>3 DEF Process, Zombie
    <3>5. ProcessView' = [ProcessView EXCEPT ![p] =
                            IF Process(p) = "ended" THEN "none" ELSE Process(p)]
      BY <3>4, OneProcess
    <3> QED
      BY <2>1, <2>2, <3>2, <3>3, <3>5, HearStep
  <2>4. ASSUME Return("SIGCHLD"), child' = child
        PROVE  Control!Next
    <3>1. handler'["SIGCHLD"].pc = "idle"
      BY <1>a, <2>4 DEF Return, Idle
    <3>2. \A p \in PID : News(p)' = "none"
      BY <3>1 DEF News, Zombie
    <3>3. NewsView' = NewsView
      BY <2>1, <3>2 DEF NewsView
    <3> QED
      BY <2>1, <2>2, <2>4, <3>3, SameProcesses, UnseenStep
  <2>5. \/ \E p \in PID : /\ child[p] \in Zombie
                          /\ handler' = Goto("SIGCHLD", child[p], p)
                          /\ child' = [child EXCEPT ![p] = "none"]
        \/ \E p \in PID : /\ child[p] = "stopped"
                          /\ handler' = Goto("SIGCHLD", "stopped", p)
                          /\ child' = [child EXCEPT ![p] = "reported"]
        \/ Return("SIGCHLD") /\ child' = child
    BY <1>12 DEF Waitpid
  <2> QED
    BY <2>3, <2>4, <2>5 DEF Zombie
<1>13. CASE ChildExited \/ ChildSignaled
  <2>0. PICK p \in PID : p = Reaped
    BY <1>13, ReapedIsDeleted
  <2>1. /\ handler["SIGCHLD"].pc \in Zombie /\ handler["SIGCHLD"].pid = p
        /\ child' = child /\ main' = main /\ handler' = Goto("SIGCHLD", "waitpid", NoPid)
        /\ \/ jobs' = jobs /\ SlotsOfPid(jobs, p) = {}
           \/ \E k \in Slots : jobs[k].pid = p /\ jobs' = [jobs EXCEPT ![k] = clearjob]
    BY <1>13, <2>0, ReapedIsDeleted DEF Delete, BeingDeleted, mainVars, childVars
  <2>2. News(p) = "ended"
    BY <2>1 DEF News
  <2>3. NewsView' = [NewsView EXCEPT ![p] = "none"]
    <3>1. handler'["SIGCHLD"].pc = "waitpid"
      BY <1>a, <2>1, FrameOps DEF TypeInv, HandlerPCs
    <3>2. News(p)' = "none"
      BY <3>1 DEF News, Zombie
    <3> QED
      BY <2>1, <3>1, <3>2, OnePieceOfNews
  <2>4. JobView' = [JobView EXCEPT ![p] = "none"]
    <3>1. CASE jobs' = jobs /\ SlotsOfPid(jobs, p) = {}
      <4>1. Listed(p) = "none"
        BY <3>1 DEF Listed, InTable
      <4>2. JobView' = JobView
        BY <3>1, SameJobs
      <4> QED
        BY <4>1, <4>2, <2>1 DEF JobView
    <3>2. ASSUME NEW k \in Slots, jobs[k].pid = p, jobs' = [jobs EXCEPT ![k] = clearjob]
          PROVE  JobView' = [JobView EXCEPT ![p] = "none"]
      <4>1. (\A i \in Slots \ {k} : jobs'[i] = jobs[i]) /\ jobs'[k].pid = NoPid
        BY <1>a, <3>2 DEF clearjob
      <4>2. \A i \in Slots : jobs'[i].pid # p
        BY <2>1, <3>2, <4>1, PidAssumption DEF ListInv, PidsUnique
      <4>3. Listed(p)' = "none"
        BY <1>b, <2>1, <4>2 DEF ListedOK
      <4> QED
        BY <1>b, <2>1, <3>2, <4>1, <4>3, OneJob
    <3> QED
      BY <2>1, <3>1, <3>2
  <2> QED
    BY <2>1, <2>2, <2>3, <2>4, SameProcesses, ActStep
<1>14. CASE ChildStopped
  <2>0. PICK p, k : p = Reaped /\ k = getjobpid(jobs, Reaped)
    OBVIOUS
  <2>1. /\ p \in PID /\ handler["SIGCHLD"].pc = "stopped" /\ handler["SIGCHLD"].pid = p
        /\ child' = child /\ main' = main /\ handler' = Goto("SIGCHLD", "waitpid", NoPid)
        /\ k # NULL /\ jobs' = setstate(jobs, k, "ST")
    BY <1>14, <2>0 DEF ChildStopped, Reaped, TypeInv, LocalsOK, mainVars, childVars
  <2>2. k \in Slots /\ jobs[k].pid = p
    <3>1. SlotsOfPid(jobs, Reaped) \in SUBSET Slots
      BY DEF SlotsOfPid
    <3>2. k \in SlotsOfPid(jobs, Reaped)
      BY <2>0, <2>1, <3>1, FirstOfType, FirstOfMatches DEF getjobpid
    <3> QED
      BY <2>0, <3>2 DEF SlotsOfPid
  <2>3. News(p) = "stopped"
    BY <2>1 DEF News, Zombie
  <2>4. NewsView' = [NewsView EXCEPT ![p] = "none"]
    <3>1. handler'["SIGCHLD"].pc = "waitpid"
      BY <1>a, <2>1, FrameOps DEF TypeInv, HandlerPCs
    <3>2. News(p)' = "none"
      BY <3>1 DEF News, Zombie
    <3> QED
      BY <2>1, <3>1, <3>2, OnePieceOfNews
  <2>5. /\ \A i \in Slots \ {k} : jobs'[i] = jobs[i]
        /\ jobs'[k].pid = p /\ jobs'[k].state = "ST"
    BY <1>a, <2>1, <2>2 DEF setstate
  <2>6. Listed(p) # "none" /\ Listed(p)' = "ST"
    BY <1>b, <2>1, <2>2, <2>5 DEF ListedOK
  <2>7. JobView' = [JobView EXCEPT ![p] = "ST"]
    BY <1>b, <2>1, <2>2, <2>5, <2>6, OneJob
  <2> QED
    BY <2>1, <2>3, <2>4, <2>6, <2>7, SameProcesses, ActStep
<1>15. ASSUME NEW s \in {"SIGINT", "SIGTSTP"}, KeyStep(s)
       PROVE  Control!Next
  <2>1. jobs' = jobs /\ main' = main
    BY <1>15 DEF KeyStep, FindForeground, NoForeground, Forward, KillError, listVars, mainVars
  <2>2. handler'["SIGCHLD"] = handler["SIGCHLD"]
    BY <1>15, <1>a DEF KeyStep, FindForeground, NoForeground, Forward, KillError, Goto, Return
  <2>3. CASE child' = child
    BY <2>1, <2>2, <2>3, <1>e
  <2>4. CASE Forward(s)
    <3>0. PICK p \in PID : p = handler[s].pid
      BY <2>4, <1>a DEF Forward, Caught, Frame
    <3>1. Interrupt(p) \/ Suspend(p)
      BY <2>4, <3>0 DEF Forward
    <3>2. \/ child' = child
          \/ child[p] = "running" /\ child' = [child EXCEPT ![p] = "signaled"]
          \/ child[p] = "running" /\ child' = [child EXCEPT ![p] = "stopped"]
      BY <3>1 DEF Interrupt, Suspend, childVars
    <3>3. CASE child[p] = "running" /\ child' = [child EXCEPT ![p] = "signaled"]
      <4>1. Process(p) = "alive" /\ Process(p)' = "ended"
        BY <1>a, <3>1, <3>3 DEF Process, Zombie
      <4> QED
        BY <1>a, <1>f, <2>1, <2>2, <3>1, <3>3, <4>1
    <3>4. CASE child[p] = "running" /\ child' = [child EXCEPT ![p] = "stopped"]
      <4>1. Process(p) = "alive" /\ Process(p)' = "stopped"
        BY <1>a, <3>1, <3>4 DEF Process, Zombie
      <4> QED
        BY <1>a, <1>f, <2>1, <2>2, <3>1, <3>4, <4>1
    <3> QED
      BY <2>3, <3>2, <3>3, <3>4
  <2> QED
    BY <1>15, <2>3, <2>4 DEF KeyStep, FindForeground, NoForeground, KillError, childVars
<1>16. ASSUME NEW p \in PID,
              Setpgid(p) \/ Exec(p) \/ Exit(p) \/ Killed(p) \/ Stops(p)
       PROVE  Control!Next
  <2>1. jobs' = jobs /\ main' = main /\ handler' = handler
    BY <1>16 DEF Setpgid, Exec, Exit, Killed, Stops, Advances, Reports, listVars, mainVars
  <2>2. \A q \in PID \ {p} : child'[q] = child[q]
    BY <1>16, <1>a DEF Setpgid, Exec, Exit, Killed, Stops, Advances, Reports
  <2>3. CASE Setpgid(p) \/ Exec(p)
    <3>1. Process(p)' = Process(p)
      BY <2>3, <1>a DEF Setpgid, Exec, Advances, Process, Zombie
    <3> QED
      BY <1>f, <2>1, <2>2, <3>1
  <2>4. CASE Exit(p) \/ Killed(p)
    <3>1. Process(p) \in {"alive", "stopped"} /\ Process(p)' = "ended"
      BY <2>4, <1>a DEF Exit, Killed, Reports, Process, Zombie
    <3> QED
      BY <1>f, <2>1, <2>2, <3>1
  <2>5. CASE Stops(p)
    <3>1. Process(p) = "alive" /\ Process(p)' = "stopped"
      BY <2>5, <1>a DEF Stops, Reports, Process, Zombie
    <3> QED
      BY <1>f, <2>1, <2>2, <3>1
  <2> QED
    BY <1>16, <2>3, <2>4, <2>5
<1>17. ASSUME NEW s \in UserSignals, UserTypes(s)
       PROVE  Control!Next
  BY <1>17, <1>e DEF UserTypes, listVars, mainVars, childVars
<1> QED
  BY <1>1, <1>2, <1>3, <1>4, <1>5, <1>6, <1>7, <1>8, <1>9, <1>10, <1>11, <1>12,
     <1>13, <1>14, <1>15, <1>16, <1>17 DEF Next, MainStep, HandlerStep, ChldStep

(* The shell implements job control, with any number of slots and          *)
(* processes, fg and bg included: whatever handlers come in between, what  *)
(* it says of a job follows what waitpid has told it, and a command is     *)
(* taken only when no job is in the foreground.                            *)
THEOREM ShellImplementsJobControl == Spec => ImplementsJobControl
<1>1. Init => Control!Init
  BY ViewInit
<1>2. /\ TypeInv /\ TypeInv' /\ MaskInv /\ ForegroundInv /\ ListInv /\ ListInv'
      /\ [Next]_vars
      => [Control!Next]_Control!vars
  BY ControlStep
<1> QED
  BY <1>1, <1>2, TypeInvariant, MaskInvariant, ForegroundInvariant, ListInvariant,
     PTL DEF Spec, ImplementsJobControl, Control!Spec
=============================================================================
