------------------------------ MODULE OeLaunch -------------------------------
(***************************************************************************)
(* multiprocess_launch (lib/oe/utils.py): one child process for each item, *)
(* at most MaxProcess at a time, each with a pipe through which it sends   *)
(* what its function returned or raised.  packaging strips, splits and     *)
(* reads its files through it.                                             *)
(*                                                                         *)
(* A message that fits the pipe is written in one go; a longer one stays   *)
(* there in part until the parent reads, and its child does not end before.*)
(* The parent keeps the writing end open too, so a child that is gone      *)
(* never shows as an end of file.                                          *)
(***************************************************************************)
EXTENDS Naturals, Sequences, FiniteSets

CONSTANTS
    Items,
    MaxProcess,  \* BB_NUMBER_THREADS
    Mortal       \* items whose child may die without a word: a signal, sys.exit

ASSUME LaunchAssumption == /\ IsFiniteSet(Items) /\ Mortal \subseteq Items
                           /\ MaxProcess \in Nat \ {0}

VARIABLES
    items,     \* still to launch
    launched,  \* the list of processes, by their items
    errors, results,
    pc, at,    \* the parent's place, and its index in the loop over launched
    got,       \* a process object's _exception or _result
    child,     \* "none", "running", "sending", "exiting", "dead"
    outcome,   \* what the function gave: "result", "nothing" (a false value), "error"
    pipe       \* "empty", "part" or "whole": what of the message lies in it

parentVars == <<items, launched, errors, results, pc, at>>
childVars == <<child, outcome>>
vars == <<parentVars, got, childVars, pipe>>

Init ==
    /\ items = Items /\ launched = <<>> /\ errors = {} /\ results = {}
    /\ pc = "launch" /\ at = 1
    /\ got = [i \in Items |-> "none"]
    /\ child = [i \in Items |-> "none"]
    /\ outcome = [i \in Items |-> "none"]
    /\ pipe = [i \in Items |-> "empty"]

-----------------------------------------------------------------------------
(* The parent.                                                             *)

MayLaunch == errors = {} /\ items # {} /\ Len(launched) < MaxProcess

LoopsOn == (items # {} /\ errors = {}) \/ launched # <<>>

\* One more process, items being taken from the end of the list.
Launch(i) ==
    /\ pc = "launch" /\ LoopsOn /\ MayLaunch /\ i \in items
    /\ items' = items \ {i} /\ launched' = Append(launched, i)
    /\ child' = [child EXCEPT ![i] = "running"]
    /\ pc' = "update" /\ at' = 1
    /\ UNCHANGED <<errors, results, got, outcome, pipe>>

LaunchNone ==
    /\ pc = "launch" /\ LoopsOn /\ ~MayLaunch
    /\ pc' = "update" /\ at' = 1
    /\ UNCHANGED <<items, launched, errors, results, got, childVars, pipe>>

Current == launched[at]

\* Mutant: no update() in the loop, only when a process is gone.
Update_Left ==
    /\ pc = "update" /\ at <= Len(launched)
    /\ pc' = "alive"
    /\ UNCHANGED <<items, launched, errors, results, at, got, childVars, pipe>>

\* q.update(): a message that has begun is read to its end.
Update ==
    /\ pc = "update" /\ at <= Len(launched)
    /\ pc' = IF pipe[Current] = "empty" THEN "alive" ELSE "recv"
    /\ UNCHANGED <<items, launched, errors, results, at, got, childVars, pipe>>

Recv ==
    /\ pc = "recv" /\ pipe[Current] = "whole"
    /\ got' = [got EXCEPT ![Current] = outcome[Current]]
    /\ pipe' = [pipe EXCEPT ![Current] = "empty"]
    /\ pc' = "alive"
    /\ UNCHANGED <<items, launched, errors, results, at, childVars>>

IsAlive ==
    /\ pc = "alive"
    /\ IF child[Current] = "dead" THEN pc' = "collect" /\ at' = at
                                  ELSE pc' = "update" /\ at' = at + 1
    /\ UNCHANGED <<items, launched, errors, results, got, childVars, pipe>>

\* Mutant: only what the last update() had found.
Answer_Seen(q) == got[q]

\* What exception and result find: they update() first, for the child may have
\* written between the update above and its end.
Answer(q) == IF pipe[q] = "whole" THEN outcome[q] ELSE got[q]

\* launched.remove(q) inside the loop over launched: the process behind q moves
\* into its place and is passed over this time.  A message in part from a child
\* that is gone is waited for in vain.
Without(s, k) == [j \in 1..(Len(s) - 1) |-> IF j < k THEN s[j] ELSE s[j + 1]]

Collect ==
    /\ pc = "collect" /\ pipe[Current] # "part"
    /\ LET a == Answer(Current)
       IN  /\ errors' = IF a = "error" THEN errors \cup {Current} ELSE errors
           /\ results' = IF a = "result" THEN results \cup {Current} ELSE results
           /\ got' = [got EXCEPT ![Current] = a]
    /\ pipe' = [pipe EXCEPT ![Current] = "empty"]
    /\ launched' = Without(launched, at)
    /\ pc' = "update" /\ at' = at + 1
    /\ UNCHANGED <<items, childVars>>

PassEnds ==
    /\ pc = "update" /\ at > Len(launched)
    /\ pc' = "launch"
    /\ UNCHANGED <<items, launched, errors, results, at, got, childVars, pipe>>

\* The loop is over: bb.fatal when there are errors, else the results.
Done ==
    /\ pc = "launch" /\ ~LoopsOn
    /\ pc' = "end"
    /\ UNCHANGED <<items, launched, errors, results, at, got, childVars, pipe>>

Parent ==
    \/ \E i \in Items : Launch(i)
    \/ LaunchNone \/ Update \/ Recv \/ IsAlive \/ Collect \/ PassEnds \/ Done

-----------------------------------------------------------------------------
(* The child of item i.                                                    *)

\* run(): the function returns or raises, and the message is sent.
Work(i) ==
    /\ child[i] = "running"
    /\ \E o \in {"result", "nothing", "error"} : outcome' = [outcome EXCEPT ![i] = o]
    /\ \/ child' = [child EXCEPT ![i] = "exiting"] /\ pipe' = [pipe EXCEPT ![i] = "whole"]
       \/ child' = [child EXCEPT ![i] = "sending"] /\ pipe' = [pipe EXCEPT ![i] = "part"]
    /\ UNCHANGED <<parentVars, got>>

\* The rest of a long message, as the parent reads.
Send(i) ==
    /\ child[i] = "sending" /\ pc = "recv" /\ Current = i
    /\ child' = [child EXCEPT ![i] = "exiting"]
    /\ pipe' = [pipe EXCEPT ![i] = "whole"]
    /\ UNCHANGED <<parentVars, got, outcome>>

Exit(i) ==
    /\ child[i] = "exiting"
    /\ child' = [child EXCEPT ![i] = "dead"]
    /\ UNCHANGED <<parentVars, got, outcome, pipe>>

Die(i) ==
    /\ i \in Mortal /\ child[i] \in {"running", "sending"}
    /\ child' = [child EXCEPT ![i] = "dead"]
    /\ UNCHANGED <<parentVars, got, outcome, pipe>>

Child(i) == Work(i) \/ Send(i) \/ Exit(i)

Next == Parent \/ \E i \in Items : Child(i) \/ Die(i)

Spec == Init /\ [][Next]_vars

FairSpec == Spec /\ WF_vars(Parent) /\ \A i \in Items : WF_vars(Child(i))

-----------------------------------------------------------------------------
\* What became of item i, to someone who looks at its process.
Fate(i) ==
    IF child[i] # "dead" THEN "open"
    ELSE IF pipe[i] = "whole" THEN outcome[i]
    ELSE IF got[i] # "none" THEN got[i] ELSE "nothing"

Alive(i) == child[i] \in {"running", "sending", "exiting"}

Pool == INSTANCE WorkPool WITH
    Limit <- MaxProcess, todo <- items,
    busy <- {i \in Items : Alive(i)}, fate <- [i \in Items |-> Fate(i)],
    verdict <- IF pc # "end" THEN "none" ELSE IF errors = {} THEN "ok" ELSE "fatal",
    handed <- IF pc = "end" /\ errors = {} THEN results ELSE {}

\* multiprocess_launch is a pool of workers: whatever the children and the
\* parent's polling do in whatever order, no result and no error that a child
\* sent is lost, none is taken twice, no child outlives the call (utils.py:313-350).
ImplementsPool == Pool!PSpec

\* The call returns, long results or short, and however often the loop passes
\* a process over ("Have to manually call update() to avoid deadlocks",
\* utils.py:324); unless a child died in the middle of a long message.
LaunchReturns == <>(pc = "end" \/ \E i \in Mortal : child[i] = "dead" /\ pipe[i] = "part")
==============================================================================
