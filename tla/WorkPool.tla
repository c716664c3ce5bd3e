------------------------------ MODULE WorkPool -------------------------------
(***************************************************************************)
(* What a caller of multiprocess_launch counts on: every item is worked on *)
(* once, by one of at most Limit workers at a time; the call returns when  *)
(* no worker is left, with all that the items gave, or it fails because    *)
(* one of them did.  OeLaunch is shown to implement this module.           *)
(***************************************************************************)
EXTENDS FiniteSets, Naturals

CONSTANTS Items, Limit

VARIABLES todo,     \* items nobody works on yet
          busy,     \* items a worker is at
          fate,     \* what became of an item
          verdict,  \* of the call
          handed    \* the items whose results the caller gets

pvars == <<todo, busy, fate, verdict, handed>>

Fates == {"result", "nothing", "error"}

PInit == /\ todo = Items /\ busy = {}
         /\ fate = [i \in Items |-> "open"]
         /\ verdict = "none" /\ handed = {}

Start(i) ==
  /\ verdict = "none" /\ i \in todo /\ Cardinality(busy) < Limit
  /\ todo' = todo \ {i} /\ busy' = busy \cup {i}
  /\ UNCHANGED <<fate, verdict, handed>>

Finish(i) ==
  /\ i \in busy
  /\ busy' = busy \ {i}
  /\ \E f \in Fates : fate' = [fate EXCEPT ![i] = f]
  /\ UNCHANGED <<todo, verdict, handed>>

\* The call returns all results, and none is missing.
Return ==
  /\ verdict = "none" /\ busy = {} /\ todo = {}
  /\ \A i \in Items : fate[i] # "error"
  /\ verdict' = "ok" /\ handed' = {i \in Items : fate[i] = "result"}
  /\ UNCHANGED <<todo, busy, fate>>

\* bb.fatal: an item failed, the ones not yet started are given up.
Fail ==
  /\ verdict = "none" /\ busy = {}
  /\ \E i \in Items : fate[i] = "error"
  /\ verdict' = "fatal"
  /\ UNCHANGED <<todo, busy, fate, handed>>

PNext == (\E i \in Items : Start(i) \/ Finish(i)) \/ Return \/ Fail

PSpec == PInit /\ [][PNext]_pvars
==============================================================================
