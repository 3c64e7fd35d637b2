---------------------------- MODULE ManagedProcess ----------------------------
(***************************************************************************)
(* How the control plane runs cfnat and cfdata: managedProcess of          *)
(* web/process.go and its callers.  mu makes the bookkeeping of start, of  *)
(* the waiter goroutine and of the first half of stop one step each; stop  *)
(* cancels, waits and kills without it.  Callers that handle cfnat hold    *)
(* cfnatCtlMu from end to end; the callers of cfdata (two handlers and the *)
(* background scan) hold nothing.                                          *)
(***************************************************************************)
EXTENDS Integers, FiniteSets

CONSTANTS
    Callers,         \* handlers and tasks that start and stop the process
    MaxProc,         \* bounds the processes that anybody still knows of
    Binaries,        \* {"cfnat"}, {"cfdata"} or both: which of them is studied
    SpawnFails       \* whether cmd.Start, a Kill or the save of a pool may fail

Procs == 1..MaxProc

NoProc == 0
NoOne  == "nobody"

ASSUME CallersAssumption ==
    /\ IsFiniteSet(Callers) /\ NoOne \notin Callers
    /\ MaxProc \in Nat /\ Binaries \subseteq {"cfnat", "cfdata"} /\ SpawnFails \in BOOLEAN

VARIABLES
    binary,       \* which binary this is
    cmd,          \* p.cmd: the process that was started last
    exitKnown,    \* p.exitCode # nil
    alive,        \* processes that exist
    unwaited,     \* processes whose waiter has not closed done
    doomed,       \* processes that were cancelled or killed
    ctlHolder,    \* who holds cfnatCtlMu
    call          \* where each caller is, what it wants, and the process it stops

processVars == <<binary, cmd, exitKnown, alive, unwaited, doomed, ctlHolder, call>>

Ops  == {"none", "stop", "start", "restart", "resume", "undo"}
Steps == {"idle", "stop", "cancel", "grace", "await", "start", "rollback"}

Resting == [pc |-> "idle", op |-> "none", proc |-> NoProc]

\* status().Running, and what start and stop go by.
LooksRunning == cmd # NoProc /\ ~exitKnown

\* A mutant: start does not ask.
AcceptsAlways == TRUE

\* start refuses a process that looks as if it were running.
Accepts == ~LooksRunning

-----------------------------------------------------------------------------
In(k, pc)   == call[k].pc = pc
Moves(k, pc, op, proc) == call' = [call EXCEPT ![k] = [pc |-> pc, op |-> op, proc |-> proc]]
Goes(k, pc) == Moves(k, pc, call[k].op, call[k].proc)

Back(k) ==
    /\ call' = [call EXCEPT ![k] = Resting]
    /\ ctlHolder' = IF ctlHolder = k THEN NoOne ELSE ctlHolder

\* A handler or a task begins: with cfnatCtlMu for cfnat, without any lock for cfdata.
Begin(k) ==
    /\ In(k, "idle")
    /\ \/ /\ binary = "cfnat" /\ ctlHolder = NoOne
          /\ ctlHolder' = k
          /\ \E op \in {"stop", "restart", "resume"} : Moves(k, "stop", op, NoProc)
       \/ /\ binary = "cfdata"
          /\ \E op \in {"stop", "start"} : Moves(k, op, op, NoProc)
          /\ UNCHANGED ctlHolder
    /\ UNCHANGED <<binary, cmd, exitKnown, alive, unwaited, doomed>>

\* What follows a stop that has returned nil.
AfterStop(k) ==
    CASE call[k].op = "undo"                  -> Goes(k, "rollback") /\ UNCHANGED ctlHolder
      [] call[k].op \in {"restart", "resume"} -> Goes(k, "start") /\ UNCHANGED ctlHolder
      [] OTHER                                -> Back(k)

\* The first half of stop: nothing to stop, or copies are taken under mu.
StopLooks(k) ==
    /\ In(k, "stop")
    /\ IF LooksRunning
       THEN /\ Moves(k, "cancel", call[k].op, cmd)
            /\ UNCHANGED ctlHolder
       ELSE AfterStop(k)
    /\ UNCHANGED <<binary, cmd, exitKnown, alive, unwaited, doomed>>

StopCancels(k) ==
    /\ In(k, "cancel")
    /\ doomed' = doomed \cup {call[k].proc}
    /\ Goes(k, "grace")
    /\ UNCHANGED <<binary, cmd, exitKnown, alive, unwaited, ctlHolder>>

\* A mutant: done is not waited for after the kill.
DoneOrKilled(k) == call[k].pc = "await" \/ call[k].proc \notin unwaited

\* <-done.
Done(k) == call[k].proc \notin unwaited

StopSeesDone(k) ==
    /\ call[k].pc \in {"grace", "await"} /\ Done(k)
    /\ AfterStop(k)
    /\ UNCHANGED <<binary, cmd, exitKnown, alive, unwaited, doomed>>

\* The timer of 1.5 s.
StopKills(k) ==
    /\ In(k, "grace")
    /\ \/ doomed' = doomed \cup {call[k].proc} /\ Goes(k, "await") /\ UNCHANGED ctlHolder
       \/ SpawnFails /\ Back(k) /\ UNCHANGED doomed
    /\ UNCHANGED <<binary, cmd, exitKnown, alive, unwaited>>

\* startForwarding: what looks as if it were running need not be started.
ResumeSkips(k) ==
    /\ In(k, "start") /\ call[k].op = "resume" /\ LooksRunning
    /\ Back(k)
    /\ UNCHANGED <<binary, cmd, exitKnown, alive, unwaited, doomed>>

\* A start of a restart that did not work out is followed by a start of the old pool.
Refused(k) ==
    \/ In(k, "start") /\ call[k].op = "restart" /\ Goes(k, "rollback") /\ UNCHANGED ctlHolder
    \/ Back(k)

StartRefused(k) ==
    /\ call[k].pc \in {"start", "rollback"} /\ ~Accepts
    /\ Refused(k)
    /\ UNCHANGED <<binary, cmd, exitKnown, alive, unwaited, doomed>>

\* The fields are reset, then cmd.Start fails.
StartFails(k) ==
    /\ SpawnFails
    /\ call[k].pc \in {"start", "rollback"} /\ Accepts
    /\ exitKnown' = FALSE
    /\ Refused(k)
    /\ UNCHANGED <<binary, cmd, alive, unwaited, doomed>>

\* The number of a process that nobody knows of any more stands for a new one.
Unknown == Procs \ (alive \cup unwaited \cup {cmd} \cup {call[k].proc : k \in Callers})

\* A new process and its waiter; a save that fails then stops the process again.
StartWorks(k) ==
    /\ call[k].pc \in {"start", "rollback"} /\ Accepts
    /\ \E p \in Unknown :
          cmd' = p /\ alive' = alive \cup {p} /\ unwaited' = unwaited \cup {p}
    /\ exitKnown' = FALSE
    /\ \/ Back(k)
       \/ /\ SpawnFails /\ In(k, "start") /\ call[k].op = "restart"
          /\ Moves(k, "stop", "undo", NoProc)
          /\ UNCHANGED ctlHolder
    /\ UNCHANGED <<binary, doomed>>

\* The process ends: of itself, or because it was cancelled or killed.
Exit(p) ==
    /\ p \in alive
    /\ alive' = alive \ {p}
    /\ UNCHANGED <<binary, cmd, exitKnown, unwaited, doomed, ctlHolder, call>>

\* A mutant: the waiter of a process that was stopped does not close done.
WaiterSilent(p) ==
    /\ p \in unwaited \ alive
    /\ exitKnown' = TRUE
    /\ unwaited' = IF p \in doomed THEN unwaited ELSE unwaited \ {p}
    /\ UNCHANGED <<binary, cmd, alive, doomed, ctlHolder, call>>

\* The waiter goroutine after cmd.Wait: it writes p.exitCode, whatever p.cmd is now.
WaiterReturns(p) ==
    /\ p \in unwaited \ alive
    /\ exitKnown' = TRUE
    /\ unwaited' = unwaited \ {p}
    /\ doomed' = doomed \ {p}
    /\ UNCHANGED <<binary, cmd, alive, ctlHolder, call>>

ProcessInit ==
    /\ binary \in Binaries
    /\ cmd = NoProc /\ exitKnown = FALSE
    /\ alive = {} /\ unwaited = {} /\ doomed = {}
    /\ ctlHolder = NoOne
    /\ call = [k \in Callers |-> Resting]

Works(k) ==
    \/ StopLooks(k) \/ StopCancels(k) \/ StopSeesDone(k) \/ StopKills(k)
    \/ ResumeSkips(k) \/ StartRefused(k) \/ StartFails(k) \/ StartWorks(k)

ProcessNext ==
    \/ \E k \in Callers : Begin(k) \/ Works(k)
    \/ \E p \in Procs : Exit(p) \/ WaiterReturns(p)

ProcessSpec == ProcessInit /\ [][ProcessNext]_processVars

\* Callers go on; a process that was killed ends, and its waiter notices.
ProcessFairness ==
    /\ \A k \in Callers : WF_processVars(Works(k))
    /\ \A p \in Procs : WF_processVars(p \in doomed /\ Exit(p)) /\ WF_processVars(WaiterReturns(p))

FairProcess == ProcessSpec /\ ProcessFairness

-----------------------------------------------------------------------------
(* Properties.                                                             *)

\* Types of the bookkeeping (struct managedProcess).
ProcessTypes ==
    /\ binary \in Binaries /\ cmd \in Procs \cup {NoProc} /\ exitKnown \in BOOLEAN
    /\ alive \subseteq unwaited /\ unwaited \subseteq Procs /\ doomed \subseteq Procs
    /\ ctlHolder \in Callers \cup {NoOne}
    /\ call \in [Callers -> [pc : Steps, op : Ops, proc : Procs \cup {NoProc}]]

\* However starts, stops and exits interleave, there is one process at most, it is the
\* one that p.cmd names, and an exit code is reported only when it has ended: the exit
\* of an earlier process is never taken for that of its successor.
OneProcess == unwaited \subseteq {cmd} /\ (exitKnown => unwaited = {})

\* cfnatCtlMu covers every use of cfnat; handlers of cfdata only stop and start it.
CtlCovers ==
    \A k \in Callers :
        call[k].pc # "idle" => IF binary = "cfnat" THEN ctlHolder = k
                                                   ELSE call[k].op \in {"stop", "start"}

\* A restart finds the port of cfnat free: when a new process is started, after a stop
\* that was cancelled, waited for, or forced, the old one has ended and been waited for.
PortFree ==
    binary = "cfnat" =>
        \A k \in Callers : call[k].pc \in {"start", "rollback"} => unwaited = {}

\* Every stop comes to its end, also when others stop and start meanwhile.
StopEnds ==
    \A k \in Callers : call[k].pc \in {"stop", "cancel", "grace", "await"}
                           ~> call[k].pc \in {"idle", "start", "rollback"}

=============================================================================
