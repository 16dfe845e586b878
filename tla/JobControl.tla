----------------------------- MODULE JobControl -----------------------------
(***************************************************************************)
(* What the user of a shell is promised of jobs, with no list, no mask and *)
(* no handler in sight.  The shell hears of a process that has stopped or  *)
(* ended some time after it has, one piece of news at a time, and changes  *)
(* what it says of that job accordingly and of no other.  The user changes *)
(* it by commands only, which the shell takes when no job is in the        *)
(* foreground.                                                             *)
(***************************************************************************)
CONSTANTS PID

VARIABLES
    process,  \* what each process does: "none", "alive", "stopped", "ended"
    job,      \* what the shell says of it: "none", "FG", "BG", "ST"
    news,     \* what the shell has heard of it last and not yet acted on
    prompt    \* the shell waits for a command

vars == <<process, job, news, prompt>>

Init ==
    /\ process = [p \in PID |-> "none"]
    /\ job = [p \in PID |-> "none"]
    /\ news = [p \in PID |-> "none"]
    /\ prompt = TRUE

NoForeground == \A p \in PID : job[p] # "FG"
NoNews       == \A p \in PID : news[p] = "none"

Command ==
    /\ prompt
    /\ prompt' = FALSE
    /\ UNCHANGED <<process, job, news>>

BackToPrompt ==
    /\ ~prompt /\ NoForeground
    /\ prompt' = TRUE
    /\ UNCHANGED <<process, job, news>>

(* A pid is used again only when no job has it.                            *)
Fork(p) ==
    /\ ~prompt /\ process[p] = "none"
    /\ job[p] = "none" /\ NoNews
    /\ process' = [process EXCEPT ![p] = "alive"]
    /\ UNCHANGED <<job, news, prompt>>

(* The process of a command becomes a job.                                 *)
Launch(p, state) ==
    /\ ~prompt /\ NoForeground
    /\ process[p] # "none" /\ job[p] = "none"
    /\ job' = [job EXCEPT ![p] = state]
    /\ UNCHANGED <<process, news, prompt>>

(* fg and bg: the process continues, unless a signal is waiting to end it; *)
(* the job is said to run, and after bg the prompt is back.                *)
Continue(p) ==
    /\ ~prompt /\ NoForeground
    /\ job[p] # "none" /\ process[p] = "stopped"
    /\ process' \in {[process EXCEPT ![p] = "alive"], [process EXCEPT ![p] = "ended"]}
    /\ UNCHANGED <<job, news, prompt>>

Resume(p, state) ==
    /\ ~prompt /\ NoForeground
    /\ job[p] # "none"
    /\ job' = [job EXCEPT ![p] = state]
    /\ prompt' = (state = "BG")
    /\ UNCHANGED <<process, news>>

(* Keys, other signals, and what the program itself does.                  *)
Stop(p) ==
    /\ process[p] = "alive"
    /\ process' = [process EXCEPT ![p] = "stopped"]
    /\ UNCHANGED <<job, news, prompt>>

End(p) ==
    /\ process[p] \in {"alive", "stopped"}
    /\ process' = [process EXCEPT ![p] = "ended"]
    /\ UNCHANGED <<job, news, prompt>>

(* The shell hears of p, a process that has ended is then gone, and acts.  *)
Hear(p) ==
    /\ process[p] \in {"stopped", "ended"} /\ NoNews
    /\ news' = [news EXCEPT ![p] = process[p]]
    /\ process' = [process EXCEPT ![p] = IF @ = "ended" THEN "none" ELSE @]
    /\ UNCHANGED <<job, prompt>>

Act(p) ==
    /\ news[p] # "none"
    /\ news' = [news EXCEPT ![p] = "none"]
    /\ \/ news[p] = "stopped" /\ job[p] # "none" /\ job' = [job EXCEPT ![p] = "ST"]
       \/ news[p] = "ended" /\ job' = [job EXCEPT ![p] = "none"]
    /\ UNCHANGED <<process, prompt>>

(* Most of what the shell does the user does not see.  (Named, and first   *)
(* in Next, because TLC then tells these steps from the others at once.)   *)
Unseen == UNCHANGED vars

Next ==
    \/ Unseen
    \/ Command \/ BackToPrompt
    \/ \E p \in PID :
         \/ Fork(p) \/ Continue(p) \/ Stop(p) \/ End(p) \/ Hear(p) \/ Act(p)
         \/ \E state \in {"FG", "BG"} : Launch(p, state) \/ Resume(p, state)

Spec == Init /\ [][Next]_vars
=============================================================================
