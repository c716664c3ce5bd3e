-------------------------- MODULE FcntlLock_proofs --------------------------
(***************************************************************************)
(* Proofs about FcntlLock, for any number of invocations and any requests. *)
(***************************************************************************)
EXTENDS FcntlLock, TLAPS

USE DEF Conflicts

\* The actions of one invocation, by what they do to main's state.
Step(p) == \/ Main(p) \/ Failure(p) \/ Kernel(p) \/ OtherSignal(p)
           \/ ChildExec(p) \/ CommandEnds(p) \/ Kill(p)

\* Every exit leaves a state of the right type, whatever the code.
LEMMA ExitType ==
  ASSUME TypeOK, NEW p \in Procs, NEW code \in ExitCodes, Exit(p, code)
  PROVE  TypeOK'
BY DEF TypeOK, Exit, End, Close, PCs, childVars

LEMMA KilledType ==
  ASSUME TypeOK, NEW p \in Procs, End(p, "killed"),
         UNCHANGED <<opt, access, sigalrm, timeout_expired, childVars, status>>
  PROVE  TypeOK'
BY DEF TypeOK, End, Close, PCs, childVars

LEMMA TakeLockType ==
  ASSUME TypeOK, NEW p \in Procs, TakeLock(p)
  PROVE  TypeOK'
BY DEF TypeOK, TakeLock, AfterLock, Goto, PCs, Request, childVars, alarmVars

LEMMA StepType ==
  ASSUME TypeOK, NEW p \in Procs, Step(p)
  PROVE  TypeOK'
<1> USE DEF PCs, lockVars, alarmVars, childVars, ExitCodes
<1>1. CASE Open(p)
  <2>1. Openings(p) \subseteq {"closed", "rdonly", "rdwr"}
    BY DEF TypeOK, Request, Openings
  <2>2. PICK a \in Openings(p) :
           /\ access' = [access EXCEPT ![p] = a]
           /\ fds' = [fds EXCEPT ![p] = IF a = "closed" THEN {} ELSE {"parent"}]
    BY <1>1 DEF Open
  <2>3. QED
    BY <1>1, <2>1, <2>2 DEF TypeOK, Open, Goto
<1>2. CASE SetHandler(p)
  BY <1>2 DEF TypeOK, SetHandler, Goto
<1>3. CASE SetTimer(p)
  BY <1>3 DEF TypeOK, SetTimer, Goto
<1>4. CASE Fcntl(p)
  <2>1. CASE Exit(p, EX_DATAERR)
    BY <2>1, ExitType
  <2>2. CASE TakeLock(p)
    BY <2>2, TakeLockType
  <2>3. CASE Exit(p, 1)
    BY <2>3, ExitType
  <2>4. CASE Goto(p, "waiting") /\ UNCHANGED <<lockVars, alarmVars, childVars>>
    BY <2>4 DEF TypeOK, Goto
  <2>5. QED
    BY <1>4, <2>1, <2>2, <2>3, <2>4 DEF Fcntl
<1>5. CASE Interrupted(p)
  <2>1. CASE Exit(p, 1)
    BY <2>1, ExitType
  <2>2. CASE Goto(p, "fcntl") /\ UNCHANGED <<lockVars, alarmVars, childVars>>
    BY <2>2 DEF TypeOK, Goto
  <2>3. QED
    BY <1>5, <2>1, <2>2 DEF Interrupted
<1>6. CASE CancelTimer(p)
  BY <1>6 DEF TypeOK, CancelTimer, Goto
<1>7. CASE RestoreHandler(p)
  BY <1>7 DEF TypeOK, RestoreHandler, Goto
<1>8. CASE NoCommand(p)
  BY <1>8, ExitType DEF NoCommand
<1>9. CASE Fork(p)
  BY <1>9 DEF TypeOK, Fork, Goto
<1>10. CASE Wait(p)
  <2>1. ChildStatus(result[p]) \in ExitCodes
    BY DEF TypeOK, ChildStatus, EX_UNAVAILABLE
  <2>2. QED
    BY <1>10, <2>1, ExitType DEF Wait
<1>11. CASE Failure(p)
  BY <1>11, ExitType DEF Failure, OpenFails, NoLocks, ForkFails
<1>12. CASE Granted(p)
  BY <1>12, TakeLockType DEF Granted
<1>13. CASE Alarm(p)
  <2>1. CASE End(p, "killed")
             /\ UNCHANGED <<opt, access, sigalrm, timeout_expired, childVars, status>>
    BY <2>1, KilledType
  <2>2. CASE sigalrm[p] = "timeout_handler"
    <3>1. /\ timer' = [timer EXCEPT ![p] = "off"]
          /\ sigalrm' = [sigalrm EXCEPT ![p] = "default"]
          /\ timeout_expired' = [timeout_expired EXCEPT ![p] = TRUE]
          /\ UNCHANGED <<opt, status, lockVars, childVars>>
      BY <1>13, <2>2 DEF Alarm, Goto
    <3>2. pc' \in [Procs -> PCs]
      BY <1>13, <2>2 DEF TypeOK, Alarm, Goto
    <3>3. QED
      BY <3>1, <3>2 DEF TypeOK
  <2>3. QED
    BY <1>13, <2>1, <2>2 DEF Alarm
<1>14. CASE OtherSignal(p)
  BY <1>14 DEF TypeOK, OtherSignal, Goto
<1>15. CASE ChildExec(p)
  BY <1>15 DEF TypeOK, ChildExec, Close
<1>16. CASE CommandEnds(p)
  BY <1>16 DEF TypeOK, CommandEnds
<1>17. CASE Kill(p)
  BY <1>17, KilledType DEF Kill
<1>18. QED
  BY <1>1, <1>2, <1>3, <1>4, <1>5, <1>6, <1>7, <1>8, <1>9, <1>10, <1>11,
     <1>12, <1>13, <1>14, <1>15, <1>16, <1>17 DEF Step, Main, Kernel

LEMMA InitType == Init => TypeOK
BY RequestsAssumption DEF Init, TypeOK, PCs, ExitCodes

\* Type correctness: every invocation's state, timer, lock and exit status
\* stay in the sets the program and the kernel use.
THEOREM TypeCorrect == Spec => []TypeOK
<1>1. Init => TypeOK
  BY InitType
<1>2. TypeOK /\ [Next]_vars => TypeOK'
  <2>1. ASSUME TypeOK, NEW p \in Procs, Step(p) PROVE TypeOK'
    BY <2>1, StepType
  <2>2. ASSUME TypeOK, UNCHANGED vars PROVE TypeOK'
    BY <2>2 DEF TypeOK, vars
  <2>3. QED
    BY <2>1, <2>2 DEF Next, Step
<1>3. QED
  BY <1>1, <1>2, PTL DEF Spec

------------------------------------------------------------------------------
(* Mutual exclusion of commands. What keeps it: the kernel never holds two  *)
(* conflicting locks, main holds its lock from the grant to its end, and a  *)
(* command that is not finished has a main that waits for it.               *)

KernelExcludes ==
  \A p, q \in Procs : p # q => ~Conflicts(locks[p], locks[q])

MainHoldsLock ==
  \A p \in Procs :
    pc[p] \in {"cancel", "restore", "fork", "wait"} => locks[p] = opt[p].type

CommandAwaited ==
  \A p \in Procs : child[p] \in {"forked", "running"} => pc[p] \in {"wait", "killed"}

LockInv == TypeOK /\ KernelExcludes /\ MainHoldsLock /\ CommandAwaited

\* A step of p disturbs nobody else.
LEMMA StepIsLocal ==
  ASSUME TypeOK, NEW p \in Procs, Step(p)
  PROVE  /\ opt' = opt
         /\ \A q \in Procs \ {p} :
              /\ pc'[q] = pc[q] /\ locks'[q] = locks[q] /\ child'[q] = child[q]
              /\ timer'[q] = timer[q] /\ sigalrm'[q] = sigalrm[q]
<1> USE DEF lockVars, alarmVars, childVars, Goto, Exit, End, Close, TakeLock
<1>1. CASE Main(p)
  BY <1>1 DEF TypeOK, Main, Open, SetHandler, SetTimer, Fcntl, Interrupted,
              CancelTimer, RestoreHandler, NoCommand, Fork, Wait
<1>2. CASE Failure(p)
  BY <1>2 DEF TypeOK, Failure, OpenFails, NoLocks, ForkFails
<1>3. CASE Kernel(p)
  BY <1>3 DEF TypeOK, Kernel, Granted, Alarm
<1>4. CASE OtherSignal(p) \/ ChildExec(p) \/ CommandEnds(p) \/ Kill(p)
  BY <1>4 DEF TypeOK, OtherSignal, ChildExec, CommandEnds, Kill
<1>5. QED
  BY <1>1, <1>2, <1>3, <1>4 DEF Step

\* What an ended main keeps: no lock, and no command it should wait for.
LEMMA ExitLock ==
  ASSUME TypeOK, NEW p \in Procs, NEW code, Exit(p, code)
  PROVE  pc'[p] = "exited" /\ locks'[p] = "F_UNLCK" /\ child' = child
BY DEF TypeOK, Exit, End, Close, childVars

LEMMA KillLock ==
  ASSUME TypeOK, NEW p \in Procs, End(p, "killed"), UNCHANGED childVars
  PROVE  pc'[p] = "killed" /\ locks'[p] = "F_UNLCK" /\ child' = child
BY DEF TypeOK, End, Close, childVars

\* p's own lock after a step of p: kept, given back, or taken while free.
LEMMA StepLock ==
  ASSUME LockInv, NEW p \in Procs, Step(p)
  PROVE  /\ \/ locks'[p] = locks[p]
            \/ locks'[p] = "F_UNLCK"
            \/ locks'[p] = opt[p].type /\ Free(p)
         /\ pc'[p] \in {"cancel", "restore", "fork", "wait"} => locks'[p] = opt[p].type
         /\ child'[p] \in {"forked", "running"} => pc'[p] \in {"wait", "killed"}
<1> DEFINE Goal ==
      /\ \/ locks'[p] = locks[p]
         \/ locks'[p] = "F_UNLCK"
         \/ locks'[p] = opt[p].type /\ Free(p)
      /\ pc'[p] \in {"cancel", "restore", "fork", "wait"} => locks'[p] = opt[p].type
      /\ child'[p] \in {"forked", "running"} => pc'[p] \in {"wait", "killed"}
<1> USE DEF lockVars, alarmVars, childVars, Goto
<1>1. ASSUME NEW code, Exit(p, code), child[p] \notin {"forked", "running"}
      PROVE  Goal
  BY <1>1, ExitLock DEF LockInv
<1>2. ASSUME TakeLock(p), Free(p), pc[p] \in {"fcntl", "waiting"} PROVE Goal
  BY <1>2 DEF TakeLock, AfterLock, LockInv, TypeOK, CommandAwaited
<1>3. ASSUME NEW label, Goto(p, label), child' = child, locks' = locks,
             child[p] \notin {"forked", "running"},
             label \in {"cancel", "restore", "fork", "wait"} => locks[p] = opt[p].type
      PROVE  Goal
  BY <1>3 DEF LockInv, TypeOK
<1>4. pc[p] \notin {"wait", "killed"} => child[p] \notin {"forked", "running"}
  BY DEF LockInv, CommandAwaited
<1>5. CASE Open(p) \/ SetHandler(p) \/ SetTimer(p)
  BY <1>3, <1>4, <1>5 DEF Open, SetHandler, SetTimer
<1>6. CASE Fcntl(p)
  BY <1>1, <1>2, <1>3, <1>4, <1>6 DEF Fcntl
<1>7. CASE Interrupted(p)
  BY <1>1, <1>3, <1>4, <1>7 DEF Interrupted
<1>8. CASE CancelTimer(p) \/ RestoreHandler(p)
  BY <1>3, <1>4, <1>8 DEF CancelTimer, RestoreHandler, LockInv, MainHoldsLock
<1>9. CASE Fork(p)
  BY <1>9 DEF Fork, LockInv, MainHoldsLock, TypeOK
<1>10. CASE NoCommand(p) \/ Wait(p) \/ Failure(p)
  BY <1>1, <1>4, <1>10 DEF NoCommand, Wait, Failure, OpenFails, NoLocks, ForkFails
<1>11. CASE Granted(p)
  BY <1>2, <1>11 DEF Granted
<1>12. CASE Alarm(p)
  <2>1. CASE sigalrm[p] = "default"
    BY <1>12, <2>1, KillLock DEF Alarm, LockInv
  <2>2. CASE sigalrm[p] = "timeout_handler"
    BY <1>12, <2>2 DEF Alarm, LockInv, TypeOK, MainHoldsLock, CommandAwaited
  <2>3. QED
    BY <1>12, <2>1, <2>2 DEF Alarm
<1>13. CASE OtherSignal(p)
  BY <1>3, <1>4, <1>13 DEF OtherSignal
<1>14. CASE ChildExec(p)
  BY <1>14 DEF ChildExec, Close, LockInv, TypeOK, MainHoldsLock, CommandAwaited
<1>15. CASE CommandEnds(p)
  BY <1>15 DEF CommandEnds, LockInv, TypeOK, MainHoldsLock
<1>16. CASE Kill(p)
  BY <1>16, KillLock DEF Kill, LockInv
<1>17. QED
  BY <1>5, <1>6, <1>7, <1>8, <1>9, <1>10, <1>11, <1>12, <1>13, <1>14, <1>15, <1>16
     DEF Step, Main, Kernel

LEMMA LockInvStep ==
  ASSUME LockInv, NEW p \in Procs, Step(p)
  PROVE  LockInv'
<1>1. TypeOK'
  BY StepType DEF LockInv
<1>2. opt' = opt
  BY StepIsLocal DEF LockInv
<1>3. KernelExcludes'
  <2> SUFFICES ASSUME NEW q \in Procs, NEW r \in Procs, q # r
               PROVE  ~Conflicts(locks'[q], locks'[r])
    BY DEF KernelExcludes
  <2>1. CASE q # p /\ r # p
    BY <2>1, StepIsLocal DEF LockInv, KernelExcludes
  <2>2. CASE q = p
    BY <2>2, StepIsLocal, StepLock DEF LockInv, KernelExcludes, Free
  <2>3. CASE r = p
    BY <2>3, StepIsLocal, StepLock DEF LockInv, KernelExcludes, Free
  <2>4. QED
    BY <2>1, <2>2, <2>3
<1>4. MainHoldsLock'
  BY <1>2, StepIsLocal, StepLock DEF LockInv, MainHoldsLock
<1>5. CommandAwaited'
  BY StepIsLocal, StepLock DEF LockInv, CommandAwaited
<1>6. QED
  BY <1>1, <1>3, <1>4, <1>5 DEF LockInv

\* LockInv holds throughout: it is inductive.
THEOREM LockInvariant == Spec => []LockInv
<1>1. Init => LockInv
  <2>1. Init => TypeOK
    BY InitType
  <2>2. QED
    BY <2>1 DEF Init, LockInv, KernelExcludes, MainHoldsLock, CommandAwaited
<1>2. LockInv /\ [Next]_vars => LockInv'
  <2>1. ASSUME LockInv, NEW p \in Procs, Step(p) PROVE LockInv'
    BY <2>1, LockInvStep
  <2>2. ASSUME LockInv, UNCHANGED vars PROVE LockInv'
    BY <2>2 DEF LockInv, TypeOK, KernelExcludes, MainHoldsLock, CommandAwaited, vars
  <2>3. QED
    BY <2>1, <2>2 DEF Next, Step
<1>3. QED
  BY <1>1, <1>2, PTL DEF Spec

\* Two commands never overlap when one of them runs under the exclusive lock,
\* however many invocations there are and whatever their options.
THEOREM CommandExclusion == Spec => []CommandsExclude
<1>1. LockInv => CommandsExclude
  BY DEF LockInv, KernelExcludes, MainHoldsLock, CommandAwaited, CommandsExclude, InCommand
<1>2. QED
  BY <1>1, LockInvariant, PTL

------------------------------------------------------------------------------
(* The alarm finds its handler: main sets the handler before the timer and  *)
(* disarms the timer before it gives the handler back, so the timer runs    *)
(* only between those two.                                                  *)

TimerInv ==
  \A p \in Procs :
    /\ timer[p] = "armed" => /\ sigalrm[p] = "timeout_handler"
                             /\ opt[p].timeout = "positive"
                             /\ pc[p] \in {"fcntl", "waiting", "eintr", "cancel"}
    /\ pc[p] = "arm" => sigalrm[p] = "timeout_handler"

LEMMA TimerInvStep ==
  ASSUME TypeOK, TimerInv, NEW p \in Procs, Step(p)
  PROVE  TimerInv'
<1> DEFINE Goal ==
      /\ timer'[p] = "armed" => /\ sigalrm'[p] = "timeout_handler"
                                /\ opt[p].timeout = "positive"
                                /\ pc'[p] \in {"fcntl", "waiting", "eintr", "cancel"}
      /\ pc'[p] = "arm" => sigalrm'[p] = "timeout_handler"
<1> SUFFICES Goal
  BY StepIsLocal DEF TimerInv
<1> USE DEF lockVars, alarmVars, childVars, Goto, TypeOK
<1>1. ASSUME End(p, "exited") \/ End(p, "killed") PROVE Goal
  BY <1>1 DEF End
<1>2. ASSUME NEW code, Exit(p, code) PROVE Goal
  BY <1>1, <1>2 DEF Exit
<1>3. ASSUME TakeLock(p), pc[p] \in {"fcntl", "waiting"} PROVE Goal
  BY <1>3 DEF TakeLock, AfterLock, HaveTimeout, TimerInv
<1>4. CASE Open(p) \/ SetHandler(p) \/ SetTimer(p)
  BY <1>4 DEF Open, SetHandler, SetTimer, TimerInv
<1>5. CASE Fcntl(p)
  BY <1>2, <1>3, <1>5 DEF Fcntl, TimerInv
<1>6. CASE Interrupted(p)
  BY <1>2, <1>6 DEF Interrupted, TimerInv
<1>7. CASE CancelTimer(p) \/ RestoreHandler(p) \/ Fork(p)
  BY <1>7 DEF CancelTimer, RestoreHandler, Fork, TimerInv
<1>8. CASE NoCommand(p) \/ Wait(p) \/ Failure(p)
  BY <1>2, <1>8 DEF NoCommand, Wait, Failure, OpenFails, NoLocks, ForkFails
<1>9. CASE Granted(p)
  BY <1>3, <1>9 DEF Granted
<1>10. CASE Alarm(p)
  <2>1. CASE sigalrm[p] = "default"
    BY <1>1, <1>10, <2>1 DEF Alarm
  <2>2. CASE sigalrm[p] = "timeout_handler"
    BY <1>10, <2>2 DEF Alarm, TimerInv
  <2>3. QED
    BY <1>10, <2>1, <2>2 DEF Alarm
<1>11. CASE OtherSignal(p) \/ ChildExec(p) \/ CommandEnds(p)
  BY <1>11 DEF OtherSignal, ChildExec, CommandEnds, TimerInv
<1>12. CASE Kill(p)
  BY <1>1, <1>12 DEF Kill
<1>13. QED
  BY <1>4, <1>5, <1>6, <1>7, <1>8, <1>9, <1>10, <1>11, <1>12 DEF Step, Main, Kernel

THEOREM TimerInvariant == Spec => []TimerInv
<1>1. Init => TimerInv
  BY DEF Init, TimerInv
<1>2. TypeOK /\ TimerInv /\ [Next]_vars => TimerInv'
  <2>1. ASSUME TypeOK, TimerInv, NEW p \in Procs, Step(p) PROVE TimerInv'
    BY <2>1, TimerInvStep
  <2>2. ASSUME TimerInv, UNCHANGED vars PROVE TimerInv'
    BY <2>2 DEF TimerInv, vars
  <2>3. QED
    BY <2>1, <2>2 DEF Next, Step
<1>3. QED
  BY <1>1, <1>2, TypeCorrect, PTL DEF Spec

\* fcntl-lock is never killed by the alarm it set for itself: whenever its
\* timer runs, timeout_handler is there to take the signal.
THEOREM AlarmHandled == Spec => []AlarmHasHandler
<1>1. TimerInv => AlarmHasHandler
  BY DEF TimerInv, AlarmHasHandler
<1>2. QED
  BY <1>1, TimerInvariant, PTL

------------------------------------------------------------------------------
(* The exit status tells the truth: an invocation that has exited is out of  *)
(* reach of every action, and on its way there result, timeout_expired and   *)
(* the place in main are what the status was made from.                      *)

StatusOf(p) ==
  /\ opt[p].nb \/ opt[p].timeout = "zero" => pc[p] \notin {"waiting", "eintr"}
  /\ pc[p] = "exited" /\ status[p] = 1 /\ child[p] = "none"
       => ~Blocking(p) \/ timeout_expired[p]
  /\ pc[p] = "exited" /\ HasCommand(p) /\ status[p] = 0 => result[p] = "exit0"

StatusInv == \A p \in Procs : StatusOf(p)

\* What an invocation's status is judged by is changed by its own steps only.
LEMMA StatusIsLocal ==
  ASSUME TypeOK, NEW p \in Procs, Step(p)
  PROVE  \A q \in Procs \ {p} : /\ status'[q] = status[q] /\ result'[q] = result[q]
                                /\ timeout_expired'[q] = timeout_expired[q]
<1> USE DEF lockVars, alarmVars, childVars, Goto, Exit, End, Close, TakeLock
<1>1. CASE Main(p)
  BY <1>1 DEF TypeOK, Main, Open, SetHandler, SetTimer, Fcntl, Interrupted,
              CancelTimer, RestoreHandler, NoCommand, Fork, Wait
<1>2. CASE Failure(p)
  BY <1>2 DEF TypeOK, Failure, OpenFails, NoLocks, ForkFails
<1>3. CASE Kernel(p)
  BY <1>3 DEF TypeOK, Kernel, Granted, Alarm
<1>4. CASE OtherSignal(p) \/ ChildExec(p) \/ CommandEnds(p) \/ Kill(p)
  BY <1>4 DEF TypeOK, OtherSignal, ChildExec, CommandEnds, Kill
<1>5. QED
  BY <1>1, <1>2, <1>3, <1>4 DEF Step

\* An exit with this code is one the status may tell.
MayExit(p, code) ==
  /\ code = 1 /\ child[p] = "none" => ~Blocking(p) \/ timeout_expired[p]
  /\ HasCommand(p) /\ code = 0 => result[p] = "exit0"

LEMMA ExitStatus ==
  ASSUME TypeOK, NEW p \in Procs, NEW code \in ExitCodes, Exit(p, code), MayExit(p, code)
  PROVE  StatusOf(p)'
<1>1. /\ opt' = opt /\ pc'[p] = "exited" /\ status'[p] = code
      /\ child' = child /\ result' = result /\ timeout_expired' = timeout_expired
  BY DEF Exit, End, TypeOK, childVars
<1>2. QED
  BY <1>1 DEF StatusOf, MayExit, Blocking, HasCommand

\* main goes on, or is killed: there is no status yet to tell.
LEMMA GoesOnStatus ==
  ASSUME TypeOK, NEW p \in Procs, StatusOf(p), opt' = opt, pc'[p] # "exited",
         pc'[p] \in {"waiting", "eintr"} => Blocking(p)
  PROVE  StatusOf(p)'
BY DEF StatusOf, Blocking

LEMMA StepStatus ==
  ASSUME LockInv, TimerInv, NEW p \in Procs, Step(p), StatusOf(p)
  PROVE  StatusOf(p)'
<1> USE DEF lockVars, alarmVars, childVars, Goto
<1>1. TypeOK /\ opt' = opt
  BY StepIsLocal DEF LockInv
<1>2. pc[p] \in {"waiting", "eintr"} => Blocking(p)
  BY DEF StatusOf, Blocking
<1>3. ASSUME NEW label \in PCs \ {"waiting", "eintr", "exited"}, Goto(p, label)
      PROVE  StatusOf(p)'
  BY <1>1, <1>3, GoesOnStatus DEF TypeOK
<1>4. CASE Open(p) \/ SetHandler(p) \/ SetTimer(p)
  BY <1>3, <1>4 DEF Open, SetHandler, SetTimer, PCs
<1>5. ASSUME TakeLock(p) PROVE StatusOf(p)'
  <2>1. pc'[p] \in {"cancel", "fork"}
    BY <1>1, <1>5 DEF TakeLock, AfterLock, TypeOK
  <2>2. QED
    BY <1>1, <2>1, GoesOnStatus
<1>6. CASE Fcntl(p)
  <2>1. CASE Exit(p, EX_DATAERR)
    BY <1>1, <2>1, ExitStatus DEF MayExit, ExitCodes, EX_DATAERR
  <2>2. CASE TakeLock(p)
    BY <1>5, <2>2
  <2>3. CASE ~Blocking(p) /\ Exit(p, 1)
    BY <1>1, <2>3, ExitStatus DEF MayExit, ExitCodes
  <2>4. CASE Blocking(p) /\ Goto(p, "waiting")
    BY <1>1, <2>4, GoesOnStatus DEF TypeOK
  <2>5. QED
    BY <1>6, <2>1, <2>2, <2>3, <2>4 DEF Fcntl
<1>7. CASE Interrupted(p)
  <2>1. CASE timeout_expired[p] /\ Exit(p, 1)
    BY <1>1, <2>1, ExitStatus DEF MayExit, ExitCodes
  <2>2. CASE Goto(p, "fcntl")
    BY <1>3, <2>2 DEF PCs
  <2>3. QED
    BY <1>7, <2>1, <2>2 DEF Interrupted
<1>8. CASE CancelTimer(p) \/ RestoreHandler(p) \/ Fork(p)
  BY <1>3, <1>8 DEF CancelTimer, RestoreHandler, Fork, PCs
<1>9. CASE NoCommand(p)
  BY <1>1, <1>9, ExitStatus DEF NoCommand, MayExit, ExitCodes
<1>10. CASE Wait(p)
  <2>1. /\ ChildStatus(result[p]) \in ExitCodes
        /\ ChildStatus(result[p]) = 0 => result[p] = "exit0"
    BY <1>1 DEF TypeOK, ChildStatus, EX_UNAVAILABLE, ExitCodes
  <2>2. child[p] = "ended" /\ Exit(p, ChildStatus(result[p]))
    BY <1>10 DEF Wait
  <2>3. QED
    BY <1>1, <2>1, <2>2, ExitStatus DEF MayExit
<1>11. CASE Failure(p)
  BY <1>1, <1>11, ExitStatus
     DEF Failure, OpenFails, NoLocks, ForkFails, MayExit, ExitCodes, EX_NOINPUT, EX_OSERR
<1>12. CASE Granted(p)
  BY <1>5, <1>12 DEF Granted
<1>13. CASE Alarm(p)
  <2>1. pc[p] # "exited" /\ pc'[p] # "exited"
    BY <1>1, <1>13 DEF Alarm, TimerInv, End, TypeOK
  <2>2. pc'[p] \in {"waiting", "eintr"} => Blocking(p)
    BY <1>1, <1>2, <1>13 DEF Alarm, End, TypeOK
  <2>3. QED
    BY <1>1, <2>1, <2>2, GoesOnStatus
<1>14. CASE OtherSignal(p)
  <2>1. Blocking(p) /\ pc'[p] = "eintr"
    BY <1>1, <1>2, <1>14 DEF OtherSignal, TypeOK
  <2>2. QED
    BY <1>1, <2>1, GoesOnStatus
<1>15. CASE ChildExec(p) \/ CommandEnds(p)
  <2>1. pc[p] \in {"wait", "killed"} /\ pc' = pc
    BY <1>15 DEF ChildExec, CommandEnds, LockInv, CommandAwaited
  <2>2. QED
    BY <1>1, <2>1, GoesOnStatus
<1>16. CASE Kill(p)
  <2>1. pc'[p] = "killed"
    BY <1>1, <1>16 DEF Kill, End, TypeOK
  <2>2. QED
    BY <1>1, <2>1, GoesOnStatus
<1>17. QED
  BY <1>4, <1>6, <1>7, <1>8, <1>9, <1>10, <1>11, <1>12, <1>13, <1>14, <1>15, <1>16
     DEF Step, Main, Kernel

\* The exit status says what happened (fcntl-lock.c:247-330): 0 only when the
\* command ran and succeeded, 1 without a command only when the caller had asked
\* not to wait or the time was up; and -n and -w 0 never sleep.
THEOREM StatusTold == Spec => []StatusTruthful
<1>1. Init => StatusInv
  BY DEF Init, StatusInv, StatusOf
<1>2. LockInv /\ TimerInv /\ StatusInv /\ [Next]_vars => StatusInv'
  <2>1. ASSUME LockInv, TimerInv, StatusInv, NEW p \in Procs, Step(p) PROVE StatusInv'
    <3>1. StatusOf(p)'
      BY <2>1, StepStatus DEF StatusInv
    <3>2. \A q \in Procs \ {p} : StatusOf(q)'
      BY <2>1, StepIsLocal, StatusIsLocal
         DEF LockInv, StatusInv, StatusOf, Blocking, HasCommand
    <3>3. QED
      BY <3>1, <3>2 DEF StatusInv
  <2>2. ASSUME StatusInv, UNCHANGED vars PROVE StatusInv'
    BY <2>2 DEF StatusInv, StatusOf, Blocking, HasCommand, vars
  <2>3. QED
    BY <2>1, <2>2 DEF Next, Step
<1>3. StatusInv => StatusTruthful
  BY DEF StatusInv, StatusOf, StatusTruthful, ZeroMeansSuccess, GivesUpForCause
<1>4. QED
  BY <1>1, <1>2, <1>3, LockInvariant, TimerInvariant, PTL DEF Spec

------------------------------------------------------------------------------
(* FcntlLock implements LockService.                                        *)

\* An invocation still asking owns nothing, and neither does an ended one.
OnlyMainHolds ==
  \A p \in Procs :
    pc[p] \notin {"cancel", "restore", "fork", "wait"} => locks[p] = "F_UNLCK"

LEMMA OnlyMainHoldsStep ==
  ASSUME LockInv, OnlyMainHolds, NEW p \in Procs, Step(p)
  PROVE  OnlyMainHolds'
<1> SUFFICES ASSUME pc'[p] \notin {"cancel", "restore", "fork", "wait"}
             PROVE  locks'[p] = "F_UNLCK"
  BY StepIsLocal DEF OnlyMainHolds, LockInv
<1> USE DEF lockVars, alarmVars, childVars, Goto, OnlyMainHolds
<1>1. ASSUME NEW code, Exit(p, code) PROVE locks'[p] = "F_UNLCK"
  BY <1>1, ExitLock DEF LockInv
<1>2. ASSUME TakeLock(p) PROVE FALSE
  BY <1>2 DEF TakeLock, AfterLock, LockInv, TypeOK
<1>3. CASE Open(p) \/ SetHandler(p) \/ SetTimer(p)
  BY <1>3 DEF Open, SetHandler, SetTimer
<1>4. CASE Fcntl(p) \/ Interrupted(p) \/ Granted(p)
  BY <1>1, <1>2, <1>4 DEF Fcntl, Interrupted, Granted
<1>5. CASE CancelTimer(p) \/ RestoreHandler(p) \/ Fork(p)
  BY <1>5 DEF CancelTimer, RestoreHandler, Fork, LockInv, TypeOK
<1>6. CASE NoCommand(p) \/ Wait(p) \/ Failure(p)
  BY <1>1, <1>6 DEF NoCommand, Wait, Failure, OpenFails, NoLocks, ForkFails
<1>7. CASE Alarm(p)
  BY <1>7, KillLock DEF Alarm, LockInv, TypeOK
<1>8. CASE OtherSignal(p) \/ CommandEnds(p)
  BY <1>8 DEF OtherSignal, CommandEnds
<1>9. CASE ChildExec(p)
  BY <1>9 DEF ChildExec, Close
<1>10. CASE Kill(p)
  BY <1>10, KillLock DEF Kill, LockInv
<1>11. QED
  BY <1>3, <1>4, <1>5, <1>6, <1>7, <1>8, <1>9, <1>10 DEF Step, Main, Kernel

\* A step of p that leaves p's lock and its phase alone is no step of the
\* service; one that ends p is Leave; the grant of the lock is Grant, or
\* Bypass when p unlocks.
LEMMA ServiceStutter ==
  ASSUME LockInv, NEW p \in Procs, Step(p), locks' = locks,
         ServicePhase(pc'[p]) = ServicePhase(pc[p])
  PROVE  UNCHANGED <<Phase, Held>>
<1>1. \A q \in Procs : ServicePhase(pc'[q]) = ServicePhase(pc[q])
  BY StepIsLocal DEF LockInv
<1>2. QED
  BY <1>1 DEF Phase, Held

LEMMA ServiceChange ==
  ASSUME LockInv, NEW p \in Procs, Step(p)
  PROVE  /\ Phase' = [Phase EXCEPT ![p] = ServicePhase(pc'[p])]
         /\ Held' = [Held EXCEPT ![p] = ServiceMode(locks'[p])]
<1>1. \A q \in Procs \ {p} : pc'[q] = pc[q] /\ locks'[q] = locks[q]
  BY StepIsLocal DEF LockInv
<1>2. Phase' = [Phase EXCEPT ![p] = ServicePhase(pc'[p])]
  BY <1>1 DEF Phase
<1>3. Held' = [Held EXCEPT ![p] = ServiceMode(locks'[p])]
  BY <1>1 DEF Held
<1>4. QED
  BY <1>2, <1>3

LEMMA ServiceLeave ==
  ASSUME LockInv, NEW p \in Procs, Step(p), ~Ended(p), Ended(p)',
         locks'[p] = "F_UNLCK"
  PROVE  Service!Leave(p)
<1>1. Phase[p] # "ended"
  BY DEF Phase, ServicePhase, Ended
<1>2. ServicePhase(pc'[p]) = "ended" /\ ServiceMode(locks'[p]) = "none"
  BY DEF ServicePhase, ServiceMode, Ended
<1>3. QED
  BY <1>1, <1>2, ServiceChange DEF Service!Leave

LEMMA ServiceGrant ==
  ASSUME LockInv, OnlyMainHolds, NEW p \in Procs, Step(p),
         pc[p] \in {"fcntl", "waiting"}, Free(p), TakeLock(p)
  PROVE  Service!Grant(p) \/ Service!Bypass(p)
<1>1. /\ pc'[p] \in {"cancel", "fork"}
      /\ locks' = [locks EXCEPT ![p] = opt[p].type]
      /\ locks[p] = "F_UNLCK"
      /\ opt[p].type \in {"F_RDLCK", "F_WRLCK", "F_UNLCK"}
  BY DEF TakeLock, AfterLock, Goto, LockInv, TypeOK, OnlyMainHolds, Request
<1>2. /\ Phase[p] = "asking"
      /\ Phase' = [Phase EXCEPT ![p] = "granted"]
  BY <1>1, ServiceChange DEF Phase, ServicePhase
<1>3. CASE opt[p].type = "F_UNLCK"
  <2>1. locks' = locks
    BY <1>1, <1>3 DEF LockInv, TypeOK
  <2>2. Held' = Held
    BY <2>1 DEF Held
  <2>3. QED
    BY <1>2, <2>2 DEF Service!Bypass
<1>4. CASE opt[p].type # "F_UNLCK"
  <2> DEFINE m == ServiceMode(opt[p].type)
  <2>1. Held' = [Held EXCEPT ![p] = m]
    BY <1>1, ServiceChange DEF LockInv, TypeOK
  <2>2. m \in Service!Modes
    BY <1>1, <1>4 DEF Service!Modes, ServiceMode
  <2>3. \A q \in Procs \ {p} : Service!Compatible(m, Held[q])
    BY <1>1, <1>4 DEF Service!Compatible, Held, ServiceMode, Free, LockInv, TypeOK
  <2>4. QED
    BY <1>2, <2>1, <2>2, <2>3 DEF Service!Grant
<1>5. QED
  BY <1>3, <1>4

LEMMA ServiceStep ==
  ASSUME LockInv, OnlyMainHolds, TimerInv, NEW p \in Procs, Step(p)
  PROVE  [Service!SNext]_<<Phase, Held>>
<1> USE DEF lockVars, alarmVars, childVars, Goto
<1>1. ASSUME NEW code, Exit(p, code), ~Ended(p) PROVE Service!SNext
  <2>1. Ended(p)' /\ locks'[p] = "F_UNLCK"
    BY <1>1, ExitLock DEF LockInv, Ended
  <2>2. QED
    BY <1>1, <2>1, ServiceLeave DEF Service!SNext
<1>2. ASSUME End(p, "killed"), UNCHANGED childVars, ~Ended(p) PROVE Service!SNext
  <2>1. Ended(p)' /\ locks'[p] = "F_UNLCK"
    BY <1>2, KillLock DEF LockInv, Ended
  <2>2. QED
    BY <1>2, <2>1, ServiceLeave DEF Service!SNext
<1>3. ASSUME TakeLock(p), Free(p), pc[p] \in {"fcntl", "waiting"}
      PROVE  Service!SNext
  BY <1>3, ServiceGrant DEF Service!SNext
<1>4. ASSUME locks' = locks, NEW label, pc' = [pc EXCEPT ![p] = label],
             ServicePhase(label) = ServicePhase(pc[p])
      PROVE  UNCHANGED <<Phase, Held>>
  <2>1. pc'[p] = label
    BY <1>4 DEF LockInv, TypeOK
  <2>2. QED
    BY <1>4, <2>1, ServiceStutter
<1>5. CASE Open(p) \/ SetHandler(p) \/ SetTimer(p)
  BY <1>4, <1>5 DEF Open, SetHandler, SetTimer, ServicePhase
<1>6. CASE Fcntl(p)
  BY <1>1, <1>3, <1>4, <1>6 DEF Fcntl, Ended, ServicePhase
<1>7. CASE Interrupted(p)
  BY <1>1, <1>4, <1>7 DEF Interrupted, Ended, ServicePhase
<1>8. CASE CancelTimer(p) \/ RestoreHandler(p) \/ Fork(p)
  BY <1>4, <1>8 DEF CancelTimer, RestoreHandler, Fork, ServicePhase
<1>9. CASE NoCommand(p) \/ Wait(p) \/ Failure(p)
  BY <1>1, <1>9 DEF NoCommand, Wait, Failure, OpenFails, NoLocks, ForkFails, Ended
<1>10. CASE Granted(p)
  BY <1>3, <1>10 DEF Granted
<1>11. CASE Kill(p)
  BY <1>2, <1>11 DEF Kill, Ended
<1>12. CASE OtherSignal(p)
  BY <1>4, <1>12 DEF OtherSignal, ServicePhase
<1>13. CASE ChildExec(p) \/ CommandEnds(p)
  <2>1. pc' = pc /\ locks' = locks
    BY <1>13 DEF ChildExec, CommandEnds, Close
  <2>2. QED
    BY <2>1 DEF Phase, Held
<1>14. CASE Alarm(p)
  <2>1. CASE sigalrm[p] = "default"
    BY <1>14, <2>1 DEF Alarm, TimerInv
  <2>2. CASE sigalrm[p] = "timeout_handler"
    BY <1>4, <1>14, <2>2 DEF Alarm, ServicePhase
  <2>3. QED
    BY <1>14, <2>1, <2>2 DEF Alarm
<1>15. QED
  BY <1>5, <1>6, <1>7, <1>8, <1>9, <1>10, <1>11, <1>12, <1>13, <1>14
     DEF Step, Main, Kernel

LEMMA OnlyMainHoldsInvariant == Spec => []OnlyMainHolds
<1>1. Init => OnlyMainHolds
  BY DEF Init, OnlyMainHolds
<1>2. LockInv /\ OnlyMainHolds /\ [Next]_vars => OnlyMainHolds'
  <2>1. ASSUME LockInv, OnlyMainHolds, NEW p \in Procs, Step(p)
        PROVE  OnlyMainHolds'
    BY <2>1, OnlyMainHoldsStep
  <2>2. ASSUME OnlyMainHolds, UNCHANGED vars PROVE OnlyMainHolds'
    BY <2>2 DEF OnlyMainHolds, vars
  <2>3. QED
    BY <2>1, <2>2 DEF Next, Step
<1>3. QED
  BY <1>1, <1>2, LockInvariant, PTL DEF Spec

\* Any number of invocations implement the readers-writers lock service: the
\* lock is granted at most once to each, only when compatible with what the
\* others hold, and is never lost before the invocation ends.
THEOREM Refinement == Spec => ImplementsService
<1>1. Init => Service!SInit
  BY DEF Init, Service!SInit, Phase, Held, ServicePhase, ServiceMode
<1>2. LockInv /\ OnlyMainHolds /\ TimerInv /\ [Next]_vars
        => [Service!SNext]_(Service!svars)
  <2>1. ASSUME LockInv, OnlyMainHolds, TimerInv, NEW p \in Procs, Step(p)
        PROVE  [Service!SNext]_<<Phase, Held>>
    BY <2>1, ServiceStep
  <2>2. ASSUME UNCHANGED vars PROVE UNCHANGED <<Phase, Held>>
    BY <2>2 DEF vars, Phase, Held
  <2>3. QED
    BY <2>1, <2>2 DEF Next, Step, Service!svars
<1>3. QED
  BY <1>1, <1>2, LockInvariant, OnlyMainHoldsInvariant, TimerInvariant, PTL
     DEF Spec, ImplementsService, Service!SSpec
==============================================================================
