------------------------------ MODULE FcntlLock ------------------------------
(***************************************************************************)
(* fcntl-lock (util-linux recipe): several invocations of the program on   *)
(* one lock file, each with its process, its SIGALRM timer and the child   *)
(* that runs the command, over the kernel's table of POSIX record locks.   *)
(***************************************************************************)
EXTENDS Naturals, FiniteSets

CONSTANTS Procs,      \* the invocations, one process each
          Requests,   \* the option sets they are started with
          Killable    \* the invocations somebody may SIGKILL

\* The options once main has read them; timeout is the -w argument's class
\* after strtotimeval: absent, zero, positive, or refused by setitimer.
Request == [type    : {"F_RDLCK", "F_WRLCK", "F_UNLCK"},
            nb      : BOOLEAN,
            timeout : {"none", "zero", "positive", "negative"},
            o       : BOOLEAN,
            target  : {"file", "directory", "fd"}]

ASSUME RequestsAssumption == Requests \subseteq Request
ASSUME KillableAssumption == Killable \subseteq Procs

VARIABLES opt,              \* opt[p]: the request p was started with
          pc,               \* pc[p]: where p is in main
          access,           \* access[p]: how p's descriptor was opened
          fds,              \* fds[p]: p's processes that have it open
          locks,            \* kernel: the record lock owned by p
          timer,            \* kernel: p's ITIMER_REAL
          sigalrm,          \* kernel: p's disposition of SIGALRM
          timeout_expired,
          child,            \* child[p]: the process p forked
          result,           \* result[p]: how that process ended
          status            \* status[p]: p's own exit status

vars == <<opt, pc, access, fds, locks, timer, sigalrm, timeout_expired,
          child, result, status>>

lockVars  == <<access, fds, locks>>
alarmVars == <<timer, sigalrm, timeout_expired>>
childVars == <<child, result>>

EX_DATAERR == 65
EX_NOINPUT == 66
EX_UNAVAILABLE == 69
EX_OSERR == 71
ExitCodes == {0, 1, EX_DATAERR, EX_NOINPUT, EX_UNAVAILABLE, EX_OSERR, 137}

PCs == {"open", "handler", "arm", "fcntl", "waiting", "eintr", "cancel",
        "restore", "fork", "wait", "exited", "killed"}

TypeOK ==
  /\ opt \in [Procs -> Request]
  /\ pc \in [Procs -> PCs]
  /\ access \in [Procs -> {"closed", "rdonly", "rdwr"}]
  /\ fds \in [Procs -> SUBSET {"parent", "child"}]
  /\ locks \in [Procs -> {"F_UNLCK", "F_RDLCK", "F_WRLCK"}]
  /\ timer \in [Procs -> {"off", "armed"}]
  /\ sigalrm \in [Procs -> {"default", "timeout_handler"}]
  /\ timeout_expired \in [Procs -> BOOLEAN]
  /\ child \in [Procs -> {"none", "forked", "running", "ended"}]
  /\ result \in [Procs -> {"none", "exit0", "exit1", "signal", "noexec"}]
  /\ status \in [Procs -> ExitCodes]

Init ==
  /\ opt \in [Procs -> Requests]
  /\ pc = [p \in Procs |-> "open"]
  /\ access = [p \in Procs |-> "closed"]
  /\ fds = [p \in Procs |-> {}]
  /\ locks = [p \in Procs |-> "F_UNLCK"]
  /\ timer = [p \in Procs |-> "off"]
  /\ sigalrm = [p \in Procs |-> "default"]
  /\ timeout_expired = [p \in Procs |-> FALSE]
  /\ child = [p \in Procs |-> "none"]
  /\ result = [p \in Procs |-> "none"]
  /\ status = [p \in Procs |-> 0]

------------------------------------------------------------------------------
(* The options as main acts on them.                                        *)

\* -w 0 turns into -n, because an itimer of zero would mean "disabled".
Blocking(p) == ~opt[p].nb /\ opt[p].timeout # "zero"

HaveTimeout(p) == opt[p].timeout \in {"positive", "negative"}

HasCommand(p) == opt[p].target # "fd"

(* The kernel's record locks: owned by a process, not inherited by fork,    *)
(* gone when the owner closes the file or ends.                             *)

Conflicts(t, u) == \/ t = "F_WRLCK" /\ u # "F_UNLCK"
                   \/ u = "F_WRLCK" /\ t # "F_UNLCK"

Free(p) == \A q \in Procs \ {p} : ~Conflicts(opt[p].type, locks[q])

\* F_RDLCK needs a readable descriptor, F_WRLCK a writable one (EBADF).
BadDescriptor(p) == \/ access[p] = "closed"
                    \/ opt[p].type = "F_WRLCK" /\ access[p] = "rdonly"

\* "who", p's parent or child process, closes the lock file.
Close(p, who) ==
  /\ fds' = [fds EXCEPT ![p] = @ \ {who}]
  /\ locks' = IF who = "parent" THEN [locks EXCEPT ![p] = "F_UNLCK"] ELSE locks

\* The process ends: its timer, its descriptor and its lock go with it.
End(p, how) ==
  /\ pc' = [pc EXCEPT ![p] = how]
  /\ timer' = [timer EXCEPT ![p] = "off"]
  /\ Close(p, "parent")

Exit(p, code) ==
  /\ End(p, "exited")
  /\ status' = [status EXCEPT ![p] = code]
  /\ UNCHANGED <<opt, access, sigalrm, timeout_expired, childVars>>

Goto(p, label) ==
  /\ pc' = [pc EXCEPT ![p] = label]
  /\ UNCHANGED <<opt, status>>

------------------------------------------------------------------------------
(* main, up to the lock.                                                    *)

\* What open, or the caller of the fd# form, can leave p with: a directory
\* is reopened read-only after EISDIR.
Openings(p) == CASE opt[p].target = "file" -> {"rdwr"}
                 [] opt[p].target = "directory" -> {"rdonly"}
                 [] opt[p].target = "fd" -> {"closed", "rdonly", "rdwr"}

Open(p) ==
  /\ pc[p] = "open"
  /\ \E a \in Openings(p) :
       /\ access' = [access EXCEPT ![p] = a]
       /\ fds' = [fds EXCEPT ![p] = IF a = "closed" THEN {} ELSE {"parent"}]
  /\ Goto(p, IF HaveTimeout(p) THEN "handler" ELSE "fcntl")
  /\ UNCHANGED <<locks, alarmVars, childVars>>

OpenFails(p) ==
  /\ pc[p] = "open"
  /\ HasCommand(p)
  /\ Exit(p, EX_NOINPUT)

SetHandler(p) ==
  /\ pc[p] = "handler"
  /\ sigalrm' = [sigalrm EXCEPT ![p] = "timeout_handler"]
  /\ Goto(p, "arm")
  /\ UNCHANGED <<timer, timeout_expired, lockVars, childVars>>

\* setitimer's result is not looked at: a negative time arms nothing.
SetTimer(p) ==
  /\ pc[p] = "arm"
  /\ timer' = [timer EXCEPT ![p] =
                 IF opt[p].timeout = "positive" THEN "armed" ELSE "off"]
  /\ Goto(p, "fcntl")
  /\ UNCHANGED <<sigalrm, timeout_expired, lockVars, childVars>>

\* Where main goes once fcntl has returned 0.
AfterLock(p) == IF HaveTimeout(p) THEN "cancel" ELSE "fork"

TakeLock(p) ==
  /\ locks' = [locks EXCEPT ![p] = opt[p].type]
  /\ Goto(p, AfterLock(p))
  /\ UNCHANGED <<access, fds, alarmVars, childVars>>

\* The call of fcntl: granted, refused at once, or put to sleep.
Fcntl(p) ==
  /\ pc[p] = "fcntl"
  /\ \/ BadDescriptor(p) /\ Exit(p, EX_DATAERR)
     \/ ~BadDescriptor(p) /\ Free(p) /\ TakeLock(p)
     \/ ~BadDescriptor(p) /\ ~Free(p) /\ ~Blocking(p) /\ Exit(p, 1)
     \/ /\ ~BadDescriptor(p) /\ ~Free(p) /\ Blocking(p)
        /\ Goto(p, "waiting")
        /\ UNCHANGED <<lockVars, alarmVars, childVars>>

\* ENOLCK: the kernel has no room for another lock.
NoLocks(p) ==
  /\ pc[p] = "fcntl"
  /\ ~BadDescriptor(p)
  /\ Exit(p, EX_OSERR)

\* F_SETLKW ends: the kernel wakes p and grants the lock.
Granted(p) == pc[p] = "waiting" /\ Free(p) /\ TakeLock(p)

\* fcntl is interrupted by something other than the timer (EINTR).
OtherSignal(p) ==
  /\ pc[p] = "waiting"
  /\ Goto(p, "eintr")
  /\ UNCHANGED <<lockVars, alarmVars, childVars>>

\* Mutant: every EINTR is taken for another signal.
Interrupted_Retry(p) ==
  /\ pc[p] = "eintr"
  /\ Goto(p, "fcntl")
  /\ UNCHANGED <<lockVars, alarmVars, childVars>>

\* The EINTR case of the loop: give up if the time is over, else try again.
Interrupted(p) ==
  /\ pc[p] = "eintr"
  /\ \/ timeout_expired[p] /\ Exit(p, 1)
     \/ /\ ~timeout_expired[p]
        /\ Goto(p, "fcntl")
        /\ UNCHANGED <<lockVars, alarmVars, childVars>>

\* SIGALRM arrives. The handler runs once (SA_RESETHAND) and only a call
\* that is asleep is interrupted; with no handler the process is killed.
Alarm(p) ==
  /\ timer[p] = "armed"
  /\ \/ /\ sigalrm[p] = "timeout_handler"
        /\ timer' = [timer EXCEPT ![p] = "off"]
        /\ sigalrm' = [sigalrm EXCEPT ![p] = "default"]
        /\ timeout_expired' = [timeout_expired EXCEPT ![p] = TRUE]
        /\ Goto(p, IF pc[p] = "waiting" THEN "eintr" ELSE pc[p])
        /\ UNCHANGED <<lockVars, childVars>>
     \/ /\ sigalrm[p] = "default"
        /\ End(p, "killed")
        /\ UNCHANGED <<opt, access, sigalrm, timeout_expired, childVars, status>>

------------------------------------------------------------------------------
(* main, with the lock, and the command.                                    *)

\* Mutant: the handler is taken back while the timer still runs.
CancelTimer_Forgotten(p) ==
  /\ pc[p] = "cancel"
  /\ Goto(p, "restore")
  /\ UNCHANGED <<lockVars, alarmVars, childVars>>

CancelTimer(p) ==
  /\ pc[p] = "cancel"
  /\ timer' = [timer EXCEPT ![p] = "off"]
  /\ Goto(p, "restore")
  /\ UNCHANGED <<sigalrm, timeout_expired, lockVars, childVars>>

RestoreHandler(p) ==
  /\ pc[p] = "restore"
  /\ sigalrm' = [sigalrm EXCEPT ![p] = "default"]
  /\ Goto(p, "fork")
  /\ UNCHANGED <<timer, timeout_expired, lockVars, childVars>>

\* Without a command main returns 0, and the process ends.
NoCommand(p) == pc[p] = "fork" /\ ~HasCommand(p) /\ Exit(p, 0)

\* Mutant: -o closes the file before the fork, in the lock's owner.
Fork_CloseFirst(p) ==
  /\ pc[p] = "fork"
  /\ HasCommand(p)
  /\ child' = [child EXCEPT ![p] = "forked"]
  /\ IF opt[p].o THEN Close(p, "parent") ELSE UNCHANGED <<fds, locks>>
  /\ Goto(p, "wait")
  /\ UNCHANGED <<access, alarmVars, result>>

Fork(p) ==
  /\ pc[p] = "fork"
  /\ HasCommand(p)
  /\ child' = [child EXCEPT ![p] = "forked"]
  /\ fds' = [fds EXCEPT ![p] = @ \cup {"child"}]
  /\ Goto(p, "wait")
  /\ UNCHANGED <<access, locks, alarmVars, result>>

\* Mutant: a failed fork leaves status at its initial 0.
ForkFails_Unnoticed(p) == pc[p] = "fork" /\ HasCommand(p) /\ Exit(p, 0)

ForkFails(p) == pc[p] = "fork" /\ HasCommand(p) /\ Exit(p, EX_OSERR)

\* Mutant: fcntl-lock becomes the command instead of waiting for it, and
\* the -o close hits the process that owns the lock.
ChildExec_ClosesLock(p) ==
  /\ child[p] = "forked"
  /\ IF opt[p].o THEN Close(p, "parent") ELSE UNCHANGED <<fds, locks>>
  /\ child' = [child EXCEPT ![p] = "running"]
  /\ UNCHANGED <<opt, pc, access, alarmVars, result, status>>

\* The child closes the lock file when told to (-o) and becomes the command.
ChildExec(p) ==
  /\ child[p] = "forked"
  /\ IF opt[p].o THEN Close(p, "child") ELSE UNCHANGED <<fds, locks>>
  /\ \E ok \in BOOLEAN :
       /\ child' = [child EXCEPT ![p] = IF ok THEN "running" ELSE "ended"]
       /\ result' = [result EXCEPT ![p] = IF ok THEN @ ELSE "noexec"]
  /\ UNCHANGED <<opt, pc, access, alarmVars, status>>

CommandEnds(p) ==
  /\ child[p] = "running"
  /\ child' = [child EXCEPT ![p] = "ended"]
  /\ result' \in {[result EXCEPT ![p] = r] : r \in {"exit0", "exit1", "signal"}}
  /\ UNCHANGED <<opt, pc, lockVars, alarmVars, status>>

\* Mutant: the signal is returned as it is.
ChildStatus_NoBias(r) == CASE r = "exit0" -> 0
                           [] r = "exit1" -> 1
                           [] r = "signal" -> 9
                           [] OTHER -> EX_UNAVAILABLE

\* The status main returns for a child that ended this way (WEXITSTATUS,
\* or 128 plus the signal, SIGKILL standing for all).
ChildStatus(r) == CASE r = "exit0" -> 0
                    [] r = "exit1" -> 1
                    [] r = "signal" -> 128 + 9
                    [] OTHER -> EX_UNAVAILABLE

\* Mutant: waits on for an exit when the command was killed.
Wait_ExitedOnly(p) ==
  /\ pc[p] = "wait"
  /\ child[p] = "ended"
  /\ result[p] # "signal"
  /\ Exit(p, ChildStatus(result[p]))

\* The child is p's own and SIGCHLD at its default, so that waitpid can only
\* be interrupted, which its loop sees to.
Wait(p) ==
  /\ pc[p] = "wait"
  /\ child[p] = "ended"
  /\ Exit(p, ChildStatus(result[p]))

\* Somebody kills fcntl-lock; the command it runs is not told.
Kill(p) ==
  /\ p \in Killable
  /\ pc[p] \notin {"exited", "killed"}
  /\ End(p, "killed")
  /\ UNCHANGED <<opt, access, sigalrm, timeout_expired, childVars, status>>

------------------------------------------------------------------------------
\* The steps main takes by itself.
Main(p) == \/ Open(p) \/ SetHandler(p) \/ SetTimer(p) \/ Fcntl(p)
           \/ Interrupted(p) \/ CancelTimer(p) \/ RestoreHandler(p)
           \/ NoCommand(p) \/ Fork(p) \/ Wait(p)

Failure(p) == OpenFails(p) \/ NoLocks(p) \/ ForkFails(p)

Kernel(p) == Granted(p) \/ Alarm(p)

Next == \E p \in Procs : \/ Main(p) \/ Failure(p) \/ Kernel(p) \/ OtherSignal(p)
                         \/ ChildExec(p) \/ CommandEnds(p) \/ Kill(p)

Spec == Init /\ [][Next]_vars

\* The scheduler runs every process, the kernel wakes a waiter whose lock is
\* free and delivers a timer. Commands may run for ever.
Fairness == \A p \in Procs : /\ WF_vars(Main(p)) /\ WF_vars(ChildExec(p))
                             /\ WF_vars(Granted(p)) /\ WF_vars(Alarm(p))

FairSpec == Spec /\ Fairness

Ended(p) == pc[p] \in {"exited", "killed"}

------------------------------------------------------------------------------
(* Properties.                                                              *)

\* p's command is on its way or running, and p is there to hold the lock.
InCommand(p) == child[p] \in {"forked", "running"} /\ pc[p] # "killed"

\* Commands run under the lock never overlap when one of them asked for the
\* exclusive lock, whatever their -o and -w, as long as nobody kills
\* fcntl-lock itself (main keeps the lock while it waits for the child).
CommandsExclude ==
  \A p, q \in Procs :
    p # q /\ InCommand(p) /\ InCommand(q) => ~Conflicts(opt[p].type, opt[q].type)

\* Exit status 0 of the file and directory forms is the command's own: it ran
\* and succeeded. No failure of open, fcntl, fork or exec passes for it.
ZeroMeansSuccess ==
  \A p \in Procs :
    pc[p] = "exited" /\ HasCommand(p) /\ status[p] = 0 => result[p] = "exit0"

\* While its timer runs, a process has the handler: fcntl-lock never dies of
\* its own SIGALRM, not even when the lock and the alarm come together.
AlarmHasHandler ==
  \A p \in Procs : timer[p] = "armed" => sigalrm[p] = "timeout_handler"

\* An invocation that gives up with status 1 before running anything was told
\* not to wait or has waited its time; another signal makes it try again; and
\* neither -n nor -w 0, whose timer would never ring, ever sleeps in the kernel
\* ("Fail rather than wait").
GivesUpForCause ==
  \A p \in Procs :
    /\ pc[p] = "exited" /\ status[p] = 1 /\ child[p] = "none"
         => ~Blocking(p) \/ timeout_expired[p]
    /\ opt[p].nb \/ opt[p].timeout = "zero" => pc[p] \notin {"waiting", "eintr"}

\* The exit status says what happened: success for success, giving up for cause.
StatusTruthful == ZeroMeansSuccess /\ GivesUpForCause

\* The refinement mapping: what main's place and its record lock mean to a
\* user of the lock.
ServicePhase(label) ==
  IF label \in {"exited", "killed"} THEN "ended"
  ELSE IF label \in {"cancel", "restore", "fork", "wait"} THEN "granted"
  ELSE "asking"

ServiceMode(lock) == CASE lock = "F_RDLCK" -> "shared"
                       [] lock = "F_WRLCK" -> "exclusive"
                       [] OTHER -> "none"

Phase == [p \in Procs |-> ServicePhase(pc[p])]
Held == [p \in Procs |-> ServiceMode(locks[p])]

Service == INSTANCE LockService WITH Clients <- Procs, phase <- Phase, held <- Held

\* The invocations implement the lock service: granted only if compatible,
\* at most once, and never lost before the invocation ends.
ImplementsService == Service!SSpec

\* A caller that sleeps with its timer running does not wait for ever, even
\* when the command that holds the lock never ends (-w): its attempt to lock
\* is over at the latest when the timer expires, unless another signal wakes
\* it before that (TimeoutLimitsWait below is about those).
TimedSleepEnds ==
  \A p \in Procs :
    (pc[p] = "waiting" /\ timer[p] = "armed")
      ~> \/ pc[p] \notin {"fcntl", "waiting", "eintr"}
         \/ pc[p] = "eintr" /\ timer[p] = "armed"

CommandsFinish == \A p \in Procs : WF_vars(CommandEnds(p))

\* If every command ends, so does every invocation: no wakeup, grant or exit
\* status of a child is lost for good.
EveryoneEnds == CommandsFinish => <>(\A p \in Procs : Ended(p))

\* "-w  --timeout    Wait for a limited amount of time": once the timer is
\* set, the attempt to lock ends, one way or the other.
TimeoutLimitsWait ==
  \A p \in Procs :
    (pc[p] = "fcntl" /\ opt[p].timeout = "positive")
      ~> pc[p] \notin {"fcntl", "waiting", "eintr"}
==============================================================================
