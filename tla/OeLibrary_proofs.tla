-------------------------- MODULE OeLibrary_proofs --------------------------
(* Five parts of lib/oe, for all their inputs: the loop of                    *)
(* multiprocess_launch implements the pool of workers of WorkPool; locked     *)
(* signatures hide nothing that was unlocked; the verdict of do_patch is      *)
(* earned however often it was interrupted; the output hash tells the output; *)
(* the report on a build history names whatever came or went.                 *)
EXTENDS OeLaunch, OeSstateSig, OePatch, OeOuthash, OeHistory, FiniteSetTheorems,
        TLAPS

At(s) == {s[k] : k \in 1..Len(s)}

Places == {"launch", "update", "recv", "alive", "collect", "end"}

Heard == {"none", "result", "nothing", "error"}

\* Every variable holds values of its kind.
TypeOK ==
    /\ items \in SUBSET Items /\ errors \in SUBSET Items /\ results \in SUBSET Items
    /\ launched \in Seq(Items)
    /\ pc \in Places /\ at \in Nat \ {0}
    /\ got \in [Items -> Heard] /\ outcome \in [Items -> Heard]
    /\ child \in [Items -> {"none", "running", "sending", "exiting", "dead"}]
    /\ pipe \in [Items -> {"empty", "part", "whole"}]

\* Where a child is tells what lies in its pipe and what was heard of it.
Talk(i) ==
    /\ child[i] \in {"none", "running"} => pipe[i] = "empty" /\ got[i] = "none"
    /\ child[i] = "sending" => pipe[i] = "part" /\ outcome[i] # "none" /\ got[i] = "none"
    /\ child[i] = "exiting" => /\ outcome[i] # "none"
                               /\ \/ pipe[i] = "whole" /\ got[i] = "none"
                                  \/ pipe[i] = "empty" /\ got[i] = outcome[i]
    /\ pipe[i] # "empty" => got[i] = "none" /\ outcome[i] # "none"
    /\ child[i] = "dead" /\ pipe[i] = "part" => i \in Mortal

\* A process that has been removed from the list is dead and has been counted
\* for what it sent.
Counted(i) ==
    /\ child[i] = "dead" /\ pipe[i] = "empty"
    /\ i \in errors <=> got[i] = "error"
    /\ i \in results <=> got[i] = "result"

\* The list of processes holds each once, those that live among them.
Listed ==
    /\ Len(launched) <= MaxProcess
    /\ \A j, k \in 1..Len(launched) : launched[j] = launched[k] => j = k
    /\ \A i \in Items : i \in items <=> child[i] = "none"
    /\ \A k \in 1..Len(launched) : launched[k] \notin items
    /\ \A i \in Items : i \notin items /\ i \notin At(launched) => Counted(i)
    /\ \A i \in Items : i \in items \/ i \in At(launched) => i \notin errors /\ i \notin results

Placed ==
    /\ pc \in {"recv", "alive", "collect"} => at \in 1..Len(launched)
    /\ pc = "recv" => pipe[launched[at]] # "empty"
    /\ pc = "collect" => child[launched[at]] = "dead"
    /\ pc = "end" => launched = <<>> /\ (items = {} \/ errors # {})

IInv == TypeOK /\ (\A i \in Items : Talk(i)) /\ Listed /\ Placed

-----------------------------------------------------------------------------

LEMMA AtAppend ==
    ASSUME NEW S, NEW s \in Seq(S), NEW x \in S
    PROVE  /\ Append(s, x) \in Seq(S) /\ Len(Append(s, x)) = Len(s) + 1
           /\ \A k \in 1..Len(s) : Append(s, x)[k] = s[k]
           /\ Append(s, x)[Len(s) + 1] = x
           /\ At(Append(s, x)) = At(s) \cup {x}
<1>1. /\ Append(s, x) \in Seq(S) /\ Len(Append(s, x)) = Len(s) + 1 /\ Len(s) \in Nat
      /\ \A k \in 1..Len(s) : Append(s, x)[k] = s[k]
      /\ Append(s, x)[Len(s) + 1] = x
  OBVIOUS
<1>2. At(Append(s, x)) \subseteq At(s) \cup {x}
  BY <1>1 DEF At
<1>3. At(s) \cup {x} \subseteq At(Append(s, x))
  BY <1>1 DEF At
<1> QED BY <1>1, <1>2, <1>3, Zenon

LEMMA WithoutOne ==
    ASSUME NEW S, NEW s \in Seq(S), NEW k \in 1..Len(s)
    PROVE  /\ Without(s, k) \in Seq(S) /\ Len(Without(s, k)) = Len(s) - 1
           /\ \A j \in 1..(Len(s) - 1) :
                 Without(s, k)[j] = IF j < k THEN s[j] ELSE s[j + 1]
<1>1. Len(s) \in Nat /\ Len(s) - 1 \in Nat
  OBVIOUS
<1>2. \A j \in 1..(Len(s) - 1) : (IF j < k THEN s[j] ELSE s[j + 1]) \in S
  BY <1>1
<1> QED BY <1>1, <1>2 DEF Without

LEMMA AtWithout ==
    ASSUME NEW S, NEW s \in Seq(S), NEW k \in 1..Len(s),
           \A i, j \in 1..Len(s) : s[i] = s[j] => i = j
    PROVE  /\ \A i, j \in 1..(Len(s) - 1) : Without(s, k)[i] = Without(s, k)[j] => i = j
           /\ At(Without(s, k)) = At(s) \ {s[k]}
<1> DEFINE w == Without(s, k)
<1>1. /\ Len(s) \in Nat /\ Len(w) = Len(s) - 1
      /\ \A j \in 1..(Len(s) - 1) : w[j] = IF j < k THEN s[j] ELSE s[j + 1]
  BY WithoutOne
<1> HIDE DEF w
<1>2. \A i, j \in 1..(Len(s) - 1) : w[i] = w[j] => i = j
  <2> SUFFICES ASSUME NEW i \in 1..(Len(s) - 1), NEW j \in 1..(Len(s) - 1), w[i] = w[j]
               PROVE  i = j
    OBVIOUS
  <2>1. CASE i < k /\ j < k BY <1>1, <2>1
  <2>2. CASE i < k /\ ~(j < k) BY <1>1, <2>2
  <2>3. CASE ~(i < k) /\ j < k BY <1>1, <2>3
  <2>4. CASE ~(i < k) /\ ~(j < k)
    <3>1. s[i + 1] = s[j + 1] /\ i + 1 \in 1..Len(s) /\ j + 1 \in 1..Len(s)
      BY <1>1, <2>4
    <3>2. i + 1 = j + 1 BY <3>1, Zenon
    <3> QED BY <3>2
  <2> QED BY <2>1, <2>2, <2>3, <2>4, Zenon
<1>3. At(w) \subseteq At(s) \ {s[k]}
  <2> SUFFICES ASSUME NEW j \in 1..(Len(s) - 1) PROVE w[j] \in At(s) /\ w[j] # s[k]
    BY <1>1 DEF At
  <2>1. CASE j < k BY <1>1, <2>1 DEF At
  <2>2. CASE ~(j < k)
    <3>1. w[j] = s[j + 1] /\ j + 1 \in 1..Len(s) /\ j + 1 # k BY <1>1, <2>2
    <3> QED BY <3>1, Zenon DEF At
  <2> QED BY <2>1, <2>2, Zenon
<1>4. At(s) \ {s[k]} \subseteq At(w)
  <2> SUFFICES ASSUME NEW j \in 1..Len(s), j # k PROVE s[j] \in At(w)
    BY DEF At
  <2>1. CASE j < k
    <3>1. j \in 1..(Len(s) - 1) /\ w[j] = s[j] BY <1>1, <2>1
    <3> QED BY <1>1, <3>1 DEF At
  <2>2. CASE ~(j < k)
    <3>1. j - 1 \in 1..(Len(s) - 1) /\ ~(j - 1 < k) BY <1>1, <2>2
    <3>2. w[j - 1] = s[(j - 1) + 1] BY <1>1, <3>1, Zenon
    <3>3. w[j - 1] = s[j] BY <3>2, (j - 1) + 1 = j
    <3> QED BY <1>1, <3>1, <3>3 DEF At
  <2> QED BY <2>1, <2>2, Zenon
<1> QED BY <1>2, <1>3, <1>4, Zenon DEF w

-----------------------------------------------------------------------------

LEMMA InitInv == Init => IInv
<1> SUFFICES ASSUME Init PROVE IInv
  OBVIOUS
<1>1. Len(launched) = 0 /\ launched \in Seq(Items)
  BY DEF Init
<1>2. TypeOK
  BY <1>1 DEF Init, TypeOK, Places, Heard
<1>3. \A i \in Items : Talk(i)
  BY DEF Init, Talk
<1>4. Listed
  BY <1>1, LaunchAssumption DEF Init, Listed
<1>5. Placed
  BY DEF Init, Placed
<1> QED BY <1>2, <1>3, <1>4, <1>5 DEF IInv

\* The process the loop is at is one of the items.
LEMMA CurrentItem ==
    ASSUME TypeOK, at \in 1..Len(launched)
    PROVE  Current \in Items /\ Current \in At(launched)
BY DEF TypeOK, Current, At

LEMMA LaunchInv ==
    ASSUME IInv, NEW i \in Items, Launch(i)
    PROVE  IInv'
<1>1. /\ i \in items /\ errors = {} /\ Len(launched) < MaxProcess
      /\ items' = items \ {i} /\ launched' = Append(launched, i)
      /\ child' = [child EXCEPT ![i] = "running"] /\ pc' = "update" /\ at' = 1
      /\ errors' = errors /\ results' = results /\ got' = got
      /\ outcome' = outcome /\ pipe' = pipe
  BY DEF Launch, MayLaunch
<1>2. TypeOK /\ Listed /\ Placed /\ \A j \in Items : Talk(j)
  BY DEF IInv
<1>3. /\ launched' \in Seq(Items) /\ Len(launched') = Len(launched) + 1
      /\ \A k \in 1..Len(launched) : launched'[k] = launched[k]
      /\ launched'[Len(launched) + 1] = i
      /\ At(launched') = At(launched) \cup {i}
      /\ Len(launched) \in Nat
  BY <1>1, <1>2, AtAppend DEF TypeOK
<1>4. TypeOK'
  BY <1>1, <1>2, <1>3 DEF TypeOK, Places
<1>5. \A j \in Items : Talk(j)'
  BY <1>1, <1>2 DEF Talk, TypeOK, Listed
<1>6. i \notin At(launched)
  BY <1>1, <1>2 DEF Listed, At
<1>7. Listed'
  <2>1. Len(launched') <= MaxProcess
    BY <1>1, <1>3, LaunchAssumption
  <2>2. \A j, k \in 1..Len(launched') : launched'[j] = launched'[k] => j = k
    <3> SUFFICES ASSUME NEW j \in 1..Len(launched'), NEW k \in 1..Len(launched'),
                        launched'[j] = launched'[k]
                 PROVE  j = k
      OBVIOUS
    <3>1. CASE j \in 1..Len(launched) /\ k \in 1..Len(launched)
      BY <3>1, <1>2, <1>3 DEF Listed
    <3>2. CASE j \in 1..Len(launched) /\ k = Len(launched) + 1
      BY <3>2, <1>3, <1>6 DEF At
    <3>3. CASE j = Len(launched) + 1 /\ k \in 1..Len(launched)
      BY <3>3, <1>3, <1>6 DEF At
    <3>4. CASE j = Len(launched) + 1 /\ k = Len(launched) + 1
      BY <3>4
    <3> QED BY <3>1, <3>2, <3>3, <3>4, <1>3
  <2>3. \A j \in Items : j \in items' <=> child'[j] = "none"
    BY <1>1, <1>2 DEF Listed, TypeOK
  <2>4. \A k \in 1..Len(launched') : launched'[k] \notin items'
    BY <1>1, <1>2, <1>3 DEF Listed
  <2>5. ASSUME NEW j \in Items, j \notin items', j \notin At(launched)'
        PROVE  Counted(j)'
    <3>1. j # i /\ j \notin items /\ j \notin At(launched)
      BY <2>5, <1>1, <1>3
    <3>2. Counted(j)
      BY <3>1, <1>2 DEF Listed
    <3> QED BY <3>1, <3>2, <1>1, <1>2 DEF Counted, TypeOK
  <2>6. \A j \in Items : j \in items' \/ j \in At(launched)' => j \notin errors' /\ j \notin results'
    BY <1>1, <1>2, <1>3 DEF Listed
  <2> QED BY <2>1, <2>2, <2>3, <2>4, <2>5, <2>6 DEF Listed
<1>8. Placed'
  BY <1>1 DEF Placed
<1> QED BY <1>4, <1>5, <1>7, <1>8 DEF IInv

\* The steps in which the parent only moves on.
LEMMA MoveInv ==
    ASSUME IInv, LaunchNone \/ Update \/ IsAlive \/ PassEnds \/ Done
    PROVE  IInv'
<1>1. /\ items' = items /\ launched' = launched /\ errors' = errors /\ results' = results
      /\ got' = got /\ child' = child /\ outcome' = outcome /\ pipe' = pipe
  BY DEF LaunchNone, Update, IsAlive, PassEnds, Done, childVars
<1>2. TypeOK /\ Listed /\ Placed /\ (\A j \in Items : Talk(j)) /\ Len(launched) \in Nat
  BY DEF IInv, TypeOK
<1>3. pc' \in Places /\ at' \in Nat \ {0}
  BY <1>2 DEF LaunchNone, Update, IsAlive, PassEnds, Done, TypeOK, Places
<1>4. TypeOK'
  BY <1>1, <1>2, <1>3 DEF TypeOK
<1>5. \A j \in Items : Talk(j)'
  BY <1>1, <1>2 DEF Talk
<1>6. Listed'
  BY <1>1, <1>2 DEF Listed, Counted
<1>7. Placed'
  <2>1. CASE LaunchNone BY <2>1 DEF LaunchNone, Placed
  <2>2. CASE Update
    <3>1. at' = at /\ at \in 1..Len(launched)
      BY <2>2, <1>2 DEF Update, TypeOK
    <3> QED BY <3>1, <1>1, <2>2 DEF Update, Placed, Current
  <2>3. CASE IsAlive
    BY <2>3, <1>1, <1>2 DEF IsAlive, Placed, Current
  <2>4. CASE PassEnds BY <2>4 DEF PassEnds, Placed
  <2>5. CASE Done
    <3>1. launched = <<>> /\ (items = {} \/ errors # {})
      BY <2>5 DEF Done, LoopsOn
    <3> QED BY <3>1, <2>5, <1>1 DEF Done, Placed
  <2> QED BY <2>1, <2>2, <2>3, <2>4, <2>5
<1> QED BY <1>4, <1>5, <1>6, <1>7 DEF IInv

LEMMA RecvInv ==
    ASSUME IInv, Recv
    PROVE  IInv'
<1>1. /\ items' = items /\ launched' = launched /\ errors' = errors /\ results' = results
      /\ child' = child /\ outcome' = outcome /\ pc = "recv" /\ pc' = "alive" /\ at' = at
      /\ pipe[Current] = "whole"
      /\ got' = [got EXCEPT ![Current] = outcome[Current]]
      /\ pipe' = [pipe EXCEPT ![Current] = "empty"]
  BY DEF Recv, childVars
<1>2. TypeOK /\ Listed /\ Placed /\ (\A j \in Items : Talk(j)) /\ Len(launched) \in Nat
  BY DEF IInv, TypeOK
<1>3. Current \in Items /\ Current \in At(launched)
  BY <1>1, <1>2, CurrentItem DEF Placed
<1>4. TypeOK'
  BY <1>1, <1>2, <1>3 DEF TypeOK, Places
<1>5. \A j \in Items : Talk(j)'
  BY <1>1, <1>2, <1>3 DEF Talk, TypeOK
<1>6. Listed'
  BY <1>1, <1>2, <1>3 DEF Listed, Counted, TypeOK
<1>7. Placed'
  BY <1>1, <1>2 DEF Placed
<1> QED BY <1>4, <1>5, <1>6, <1>7 DEF IInv

LEMMA CollectInv ==
    ASSUME IInv, Collect
    PROVE  IInv'
<1> DEFINE c == Current
           a == Answer(Current)
<1>1. /\ items' = items /\ child' = child /\ outcome' = outcome
      /\ pc = "collect" /\ pc' = "update" /\ at' = at + 1
      /\ pipe[c] # "part"
      /\ errors' = IF a = "error" THEN errors \cup {c} ELSE errors
      /\ results' = IF a = "result" THEN results \cup {c} ELSE results
      /\ got' = [got EXCEPT ![c] = a]
      /\ pipe' = [pipe EXCEPT ![c] = "empty"]
      /\ launched' = Without(launched, at)
  BY DEF Collect, childVars
<1>2. TypeOK /\ Listed /\ Placed /\ (\A j \in Items : Talk(j)) /\ Len(launched) \in Nat
  BY DEF IInv, TypeOK
<1>3. /\ at \in 1..Len(launched) /\ c \in Items /\ c \in At(launched)
      /\ c = launched[at] /\ child[c] = "dead"
  BY <1>1, <1>2, CurrentItem DEF Placed, Current
<1>4. a \in Heard
  BY <1>2, <1>3 DEF Answer, TypeOK
<1> HIDE DEF c, a
<1>5. /\ launched' \in Seq(Items) /\ Len(launched') = Len(launched) - 1
      /\ \A j \in 1..(Len(launched) - 1) :
            launched'[j] = IF j < at THEN launched[j] ELSE launched[j + 1]
  <2>1. launched \in Seq(Items)
    BY <1>2 DEF TypeOK
  <2>2. QED
    BY <2>1, <1>1, <1>3, WithoutOne
<1>6. /\ \A i, j \in 1..(Len(launched) - 1) : launched'[i] = launched'[j] => i = j
      /\ At(launched') = At(launched) \ {c}
  BY <1>1, <1>2, <1>3, AtWithout DEF TypeOK, Listed
<1>7. TypeOK'
  BY <1>1, <1>2, <1>3, <1>4, <1>5 DEF TypeOK, Places
<1>8. \A j \in Items : Talk(j)'
  BY <1>1, <1>2, <1>3 DEF Talk, TypeOK
<1>9. Listed'
  <2>1. Len(launched') <= MaxProcess
    BY <1>2, <1>5, LaunchAssumption DEF Listed
  <2>2. \A j, k \in 1..Len(launched') : launched'[j] = launched'[k] => j = k
    BY <1>5, <1>6
  <2>3. \A j \in Items : j \in items' <=> child'[j] = "none"
    BY <1>1, <1>2 DEF Listed
  <2>4. \A k \in 1..Len(launched') : launched'[k] \notin items'
    <3> SUFFICES ASSUME NEW k \in 1..Len(launched') PROVE launched'[k] \notin items
      BY <1>1
    <3>1. launched'[k] \in At(launched)
      BY <1>6 DEF At
    <3> QED BY <3>1, <1>2 DEF Listed, At
  <2>5. ASSUME NEW j \in Items, j \notin items', j \notin At(launched)'
        PROVE  Counted(j)'
    <3>1. CASE j = c
      <4>1. c \notin errors /\ c \notin results
        BY <1>2, <1>3 DEF Listed
      <4> QED BY <3>1, <4>1, <1>1, <1>2, <1>3 DEF Counted, TypeOK
    <3>2. CASE j # c
      <4>1. Counted(j)
        BY <2>5, <3>2, <1>1, <1>2, <1>6 DEF Listed
      <4> QED BY <3>2, <4>1, <1>1, <1>2, <1>3 DEF Counted, TypeOK
    <3> QED BY <3>1, <3>2
  <2>6. ASSUME NEW j \in Items, j \in items' \/ j \in At(launched)'
        PROVE  j \notin errors' /\ j \notin results'
    <3>1. j # c /\ (j \in items \/ j \in At(launched))
      <4>1. c \notin items BY <1>2, <1>3 DEF Listed
      <4> QED BY <2>6, <4>1, <1>1, <1>6
    <3>2. j \notin errors /\ j \notin results
      BY <3>1, <1>2 DEF Listed
    <3> QED BY <3>1, <3>2, <1>1
  <2> QED BY <2>1, <2>2, <2>3, <2>4, <2>5, <2>6 DEF Listed
<1>10. Placed'
  BY <1>1 DEF Placed
<1> QED BY <1>7, <1>8, <1>9, <1>10 DEF IInv

LEMMA ChildInv ==
    ASSUME IInv, NEW i \in Items, Child(i) \/ Die(i)
    PROVE  IInv'
<1>1. /\ items' = items /\ launched' = launched /\ errors' = errors /\ results' = results
      /\ pc' = pc /\ at' = at /\ got' = got
      /\ child[i] \in {"running", "sending", "exiting"}
  BY DEF Child, Work, Send, Exit, Die, parentVars
<1>2. TypeOK /\ Listed /\ Placed /\ (\A j \in Items : Talk(j)) /\ Len(launched) \in Nat
  BY DEF IInv, TypeOK
<1>3. /\ child' \in [Items -> {"none", "running", "sending", "exiting", "dead"}]
      /\ child'[i] # "none"
      /\ \A j \in Items \ {i} : child'[j] = child[j]
  BY <1>1, <1>2 DEF TypeOK, Child, Work, Send, Exit, Die
<1>4. /\ outcome' \in [Items -> Heard]
      /\ \A j \in Items \ {i} : outcome'[j] = outcome[j]
  BY <1>1, <1>2 DEF TypeOK, Heard, Child, Work, Send, Exit, Die
<1>5. /\ pipe' \in [Items -> {"empty", "part", "whole"}]
      /\ \A j \in Items \ {i} : pipe'[j] = pipe[j]
      /\ pipe[i] # "empty" => pipe'[i] # "empty"
  BY <1>1, <1>2 DEF TypeOK, Child, Work, Send, Exit, Die
<1>6. TypeOK'
  BY <1>1, <1>2, <1>3, <1>4, <1>5 DEF TypeOK
<1>7. \A j \in Items : Talk(j)'
  <2>1. Talk(i)'
    <3>1. CASE Work(i) BY <3>1, <1>1, <1>2 DEF Work, Talk, TypeOK, Heard
    <3>2. CASE Send(i) BY <3>2, <1>1, <1>2 DEF Send, Talk, TypeOK
    <3>3. CASE Exit(i) BY <3>3, <1>1, <1>2 DEF Exit, Talk, TypeOK
    <3>4. CASE Die(i) BY <3>4, <1>1, <1>2 DEF Die, Talk, TypeOK
    <3> QED BY <3>1, <3>2, <3>3, <3>4 DEF Child
  <2>2. \A j \in Items \ {i} : Talk(j)'
    BY <1>1, <1>2, <1>3, <1>4, <1>5 DEF Talk
  <2> QED BY <2>1, <2>2
<1>8. i \in At(launched)
  <2>1. i \notin items
    BY <1>1, <1>2 DEF Listed
  <2>2. ~Counted(i)
    BY <1>1 DEF Counted
  <2> QED BY <2>1, <2>2, <1>2 DEF Listed
<1>9. Listed'
  <2>1. \A j \in Items : j \in items' <=> child'[j] = "none"
    BY <1>1, <1>2, <1>3 DEF Listed
  <2>2. ASSUME NEW j \in Items, j \notin items', j \notin At(launched)'
        PROVE  Counted(j)'
    <3>1. j # i /\ Counted(j)
      BY <2>2, <1>1, <1>2, <1>8 DEF Listed
    <3> QED BY <3>1, <1>1, <1>3, <1>5 DEF Counted
  <2> QED BY <2>1, <2>2, <1>1, <1>2 DEF Listed
<1>10. Placed'
  <2>1. pc' = "recv" => pipe'[launched[at]] # "empty"
    <3> SUFFICES ASSUME pc = "recv" PROVE pipe'[launched[at]] # "empty"
      BY <1>1
    <3>1. launched[at] \in Items /\ pipe[launched[at]] # "empty"
      BY <1>2, CurrentItem DEF Placed, Current
    <3> QED BY <3>1, <1>5
  <2>2. pc' = "collect" => child'[launched[at]] = "dead"
    <3> SUFFICES ASSUME pc = "collect" PROVE child'[launched[at]] = "dead"
      BY <1>1
    <3>1. launched[at] \in Items /\ child[launched[at]] = "dead"
      BY <1>2, CurrentItem DEF Placed, Current
    <3>2. launched[at] # i
      BY <3>1, <1>1
    <3> QED BY <3>1, <3>2, <1>3
  <2> QED BY <2>1, <2>2, <1>1, <1>2 DEF Placed
<1> QED BY <1>6, <1>7, <1>9, <1>10 DEF IInv

\* The invariant of multiprocess_launch (utils.py:313-350), with the types of its
\* variables.
THEOREM Invariant == Spec => []IInv
<1>1. Init => IInv
  BY InitInv
<1>2. IInv /\ [Next]_vars => IInv'
  <2> SUFFICES ASSUME IInv, [Next]_vars PROVE IInv'
    OBVIOUS
  <2>1. ASSUME NEW i \in Items, Launch(i) PROVE IInv'
    BY <2>1, LaunchInv
  <2>2. CASE LaunchNone \/ Update \/ IsAlive \/ PassEnds \/ Done
    BY <2>2, MoveInv
  <2>3. CASE Recv
    BY <2>3, RecvInv
  <2>4. CASE Collect
    BY <2>4, CollectInv
  <2>5. ASSUME NEW i \in Items, Child(i) \/ Die(i) PROVE IInv'
    BY <2>5, ChildInv
  <2>6. CASE UNCHANGED vars
    BY <2>6 DEF vars, parentVars, childVars, IInv, TypeOK, Talk, Listed, Counted, Placed, At
  <2> QED BY <2>1, <2>2, <2>3, <2>4, <2>5, <2>6 DEF Next, Parent
<1> QED BY <1>1, <1>2, PTL DEF Spec

-----------------------------------------------------------------------------
(* The refinement.                                                           *)

Busy == {i \in Items : Alive(i)}

Fates == [i \in Items |-> Fate(i)]

Verdict == IF pc # "end" THEN "none" ELSE IF errors = {} THEN "ok" ELSE "fatal"

Handed == IF pc = "end" /\ errors = {} THEN results ELSE {}

\* Who lives is in the list of processes.
LEMMA BusyListed == IInv => Busy \subseteq At(launched)
<1> SUFFICES ASSUME IInv, NEW i \in Items, Alive(i) PROVE i \in At(launched)
  BY DEF Busy
<1>1. i \notin items /\ ~Counted(i)
  BY DEF IInv, Listed, Alive, Counted
<1> QED BY <1>1 DEF IInv, Listed

\* There is never a worker more than the list has places for.
LEMMA BusyBound ==
    ASSUME IInv, Len(launched) < MaxProcess
    PROVE  Cardinality(Busy) < MaxProcess
<1>1. launched \in Seq(Items) /\ Len(launched) \in Nat
  BY DEF IInv, TypeOK
<1>2. launched \in Surjection(1..Len(launched), At(launched))
  BY <1>1 DEF Surjection, At
<1>3. ExistsSurjection(1..Len(launched), At(launched))
  BY <1>2 DEF ExistsSurjection
<1>4. IsFiniteSet(1..Len(launched)) /\ IsFiniteSet(At(launched))
      /\ Cardinality(At(launched)) <= Len(launched)
  <2>1. IsFiniteSet(1..Len(launched)) BY <1>1, FS_Interval
  <2>2. IsFiniteSet(At(launched)) BY <2>1, <1>2, FS_Surjection
  <2> QED BY <2>1, <2>2, <1>1, <1>3, FS_SurjCardinalityBound
<1>5. IsFiniteSet(Busy) /\ Cardinality(Busy) <= Cardinality(At(launched))
  BY <1>4, BusyListed, FS_Subset
<1>6. Cardinality(Busy) \in Nat /\ Cardinality(At(launched)) \in Nat
  BY <1>4, <1>5, FS_CardinalityType
<1> QED BY <1>1, <1>4, <1>5, <1>6, LaunchAssumption

\* What became of a process that is off the list is what the parent counted.
LEMMA EndCounts ==
    ASSUME IInv, launched = <<>>
    PROVE  /\ Busy = {}
           /\ \A i \in Items : Fate(i) = "error" <=> i \in errors
           /\ \A i \in Items : Fate(i) = "result" <=> i \in results
<1>1. At(launched) = {}
  <2>1. Len(launched) = 0 OBVIOUS
  <2> QED BY <2>1 DEF At
<1>2. \A i \in Items : i \in items \/ Counted(i)
  BY <1>1 DEF IInv, Listed
<1>3. \A i \in Items : i \in items => child[i] = "none" /\ i \notin errors /\ i \notin results
  BY DEF IInv, Listed
<1>4. ASSUME NEW i \in Items
      PROVE  /\ Fate(i) = "error" <=> i \in errors
             /\ Fate(i) = "result" <=> i \in results
  <2>1. CASE i \in items
    BY <2>1, <1>3 DEF Fate
  <2>2. CASE Counted(i)
    BY <2>2 DEF Counted, Fate
  <2> QED BY <1>2, <2>1, <2>2
<1>5. Busy = {}
  BY <1>1, BusyListed
<1> QED BY <1>4, <1>5

\* The initial state is one of the pool's.
LEMMA InitRefines == Init => Pool!PInit
<1> SUFFICES ASSUME Init PROVE Pool!PInit
  OBVIOUS
<1>1. Busy = {}
  BY DEF Init, Busy, Alive
<1>2. Fates = [i \in Items |-> "open"]
  BY DEF Init, Fates, Fate
<1>3. Verdict = "none" /\ Handed = {} /\ items = Items
  BY DEF Init, Verdict, Handed
<1> QED BY <1>1, <1>2, <1>3 DEF Pool!PInit, Busy, Fates, Verdict, Handed

\* Launch is the pool's Start.
LEMMA LaunchRefines ==
    ASSUME IInv, NEW i \in Items, Launch(i)
    PROVE  Pool!Start(i)
<1>1. /\ i \in items /\ items' = items \ {i} /\ pc = "launch" /\ pc' = "update"
      /\ child' = [child EXCEPT ![i] = "running"] /\ got' = got /\ outcome' = outcome
      /\ pipe' = pipe /\ Len(launched) < MaxProcess
  BY DEF Launch, MayLaunch
<1>2. child \in [Items -> {"none", "running", "sending", "exiting", "dead"}] /\ child[i] = "none"
  BY <1>1 DEF IInv, TypeOK, Listed
<1>3. Busy' = Busy \cup {i}
  BY <1>1, <1>2 DEF Busy, Alive
<1>4. Fates' = Fates
  BY <1>1, <1>2 DEF Fates, Fate
<1>5. Cardinality(Busy) < MaxProcess
  BY <1>1, BusyBound
<1>6. Verdict = "none" /\ Verdict' = "none" /\ Handed = {} /\ Handed' = {}
  BY <1>1 DEF Verdict, Handed
<1>7. Pool!Cardinality(Busy) = Cardinality(Busy)
  BY Zenon DEF Pool!Cardinality, Cardinality
<1> QED BY <1>1, <1>3, <1>4, <1>5, <1>6, <1>7 DEF Pool!Start, Busy, Fates, Verdict, Handed

\* A child that ends, well or not, is the pool's Finish; its other steps and those
\* in which the parent only reads or moves on are not seen.
LEMMA EndOfChildRefines ==
    ASSUME IInv, NEW i \in Items, Exit(i) \/ Die(i)
    PROVE  Pool!Finish(i)
<1>1. /\ items' = items /\ errors' = errors /\ results' = results /\ pc' = pc
      /\ child' = [child EXCEPT ![i] = "dead"] /\ got' = got /\ outcome' = outcome
      /\ pipe' = pipe /\ child[i] \in {"running", "sending", "exiting"}
  BY DEF Exit, Die, parentVars
<1>2. TypeOK /\ Talk(i)
  BY DEF IInv
<1>3. i \in Busy /\ Busy' = Busy \ {i}
  BY <1>1, <1>2 DEF Busy, Alive, TypeOK
<1>4. Fate(i)' \in Pool!Fates
  BY <1>1, <1>2 DEF Fate, TypeOK, Heard, Talk, Exit, Die, Pool!Fates
<1>5. Fates' = [Fates EXCEPT ![i] = Fate(i)']
  BY <1>1, <1>2 DEF Fates, Fate, TypeOK
<1>6. Verdict' = Verdict /\ Handed' = Handed
  BY <1>1 DEF Verdict, Handed
<1> QED BY <1>1, <1>3, <1>4, <1>5, <1>6 DEF Pool!Finish, Busy, Fates, Verdict, Handed

LEMMA TalkRefines ==
    ASSUME IInv, NEW i \in Items, Work(i) \/ Send(i)
    PROVE  UNCHANGED Pool!pvars
<1>1. /\ items' = items /\ errors' = errors /\ results' = results /\ pc' = pc
      /\ got' = got
      /\ child[i] # "dead" /\ child[i] # "none" /\ child'[i] # "dead" /\ child'[i] # "none"
      /\ Alive(i) /\ Alive(i)'
      /\ \A j \in Items \ {i} : child'[j] = child[j] /\ outcome'[j] = outcome[j] /\ pipe'[j] = pipe[j]
  BY DEF IInv, TypeOK, Work, Send, parentVars, Alive
<1>2. Busy' = Busy
  BY <1>1 DEF Busy, Alive
<1>3. \A j \in Items : Fate(j)' = Fate(j)
  BY <1>1 DEF Fate
<1>4. Fates' = Fates
  BY <1>3 DEF Fates
<1>5. Verdict' = Verdict /\ Handed' = Handed
  BY <1>1 DEF Verdict, Handed
<1> QED BY <1>1, <1>2, <1>4, <1>5 DEF Pool!pvars, Busy, Fates, Verdict, Handed

LEMMA ParentRefines ==
    ASSUME IInv, LaunchNone \/ Update \/ Recv \/ IsAlive \/ Collect \/ PassEnds
    PROVE  UNCHANGED Pool!pvars
<1>1. /\ items' = items /\ child' = child /\ outcome' = outcome
      /\ pc # "end" /\ pc' # "end"
  BY DEF LaunchNone, Update, Recv, IsAlive, Collect, PassEnds, childVars
<1>2. Busy' = Busy
  BY <1>1 DEF Busy, Alive
<1>3. \A j \in Items : Fate(j)' = Fate(j)
  <2>1. CASE LaunchNone \/ Update \/ IsAlive \/ PassEnds
    BY <2>1, <1>1 DEF LaunchNone, Update, IsAlive, PassEnds, Fate
  <2>2. CASE Recv
    <3>1. TypeOK /\ Current \in Items /\ Talk(Current)
      BY <2>2, CurrentItem DEF IInv, Recv, Placed
    <3>2. /\ pipe[Current] = "whole" /\ outcome[Current] # "none"
          /\ got' = [got EXCEPT ![Current] = outcome[Current]]
          /\ pipe' = [pipe EXCEPT ![Current] = "empty"]
      BY <2>2, <3>1 DEF Recv, Talk
    <3> QED BY <1>1, <3>1, <3>2 DEF Fate, TypeOK
  <2>3. CASE Collect
    <3>1. TypeOK /\ Current \in Items /\ Talk(Current)
      BY <2>3, CurrentItem DEF IInv, Collect, Placed
    <3>2. /\ pipe[Current] # "part"
          /\ got' = [got EXCEPT ![Current] = Answer(Current)]
          /\ pipe' = [pipe EXCEPT ![Current] = "empty"]
      BY <2>3 DEF Collect
    <3> QED BY <1>1, <3>1, <3>2 DEF Fate, Answer, Talk, TypeOK
  <2> QED BY <2>1, <2>2, <2>3
<1>4. Fates' = Fates
  BY <1>3 DEF Fates
<1>5. Verdict' = Verdict /\ Handed' = Handed
  BY <1>1 DEF Verdict, Handed
<1> QED BY <1>1, <1>2, <1>4, <1>5 DEF Pool!pvars, Busy, Fates, Verdict, Handed

\* The end of the loop is the pool's Return or its Fail.
LEMMA DoneRefines ==
    ASSUME IInv, Done
    PROVE  Pool!Return \/ Pool!Fail
<1>1. /\ items' = items /\ errors' = errors /\ results' = results
      /\ got' = got /\ child' = child /\ outcome' = outcome /\ pipe' = pipe
      /\ pc = "launch" /\ pc' = "end" /\ launched = <<>> /\ (items = {} \/ errors # {})
  BY DEF Done, LoopsOn, childVars
<1>2. /\ Busy = {}
      /\ \A i \in Items : Fate(i) = "error" <=> i \in errors
      /\ \A i \in Items : Fate(i) = "result" <=> i \in results
  BY <1>1, EndCounts
<1>3. Busy' = Busy /\ Fates' = Fates /\ \A i \in Items : Fates[i] = Fate(i)
  BY <1>1 DEF Busy, Alive, Fates, Fate
<1>4. errors \subseteq Items /\ results \subseteq Items
  BY DEF IInv, TypeOK
<1>5. Verdict = "none" /\ Handed = {}
  BY <1>1 DEF Verdict, Handed
<1>6. CASE errors = {}
  <2>1. Verdict' = "ok" /\ Handed' = results /\ items = {}
    BY <1>1, <1>6 DEF Verdict, Handed
  <2>2. Handed' = {i \in Items : Fates[i] = "result"}
    BY <2>1, <1>2, <1>3, <1>4
  <2>3. \A i \in Items : Fates[i] # "error"
    BY <1>2, <1>3, <1>6
  <2> QED BY <2>1, <2>2, <2>3, <1>1, <1>2, <1>3, <1>5
          DEF Pool!Return, Busy, Fates, Verdict, Handed
<1>7. CASE errors # {}
  <2>1. Verdict' = "fatal" /\ Handed' = {}
    BY <1>1, <1>7 DEF Verdict, Handed
  <2>2. \E i \in Items : Fates[i] = "error"
    BY <1>2, <1>3, <1>4, <1>7
  <2> QED BY <2>1, <2>2, <1>1, <1>2, <1>3, <1>5
          DEF Pool!Fail, Busy, Fates, Verdict, Handed
<1> QED BY <1>6, <1>7

\* multiprocess_launch is the pool of workers (utils.py:313-350): for any items,
\* limit and deaths of children, in whatever order children end and the parent's
\* polling finds them, no result and no error that a child sent is lost and none is
\* taken twice; no child outlives the call, and never more than the limit run.
THEOREM LaunchImplementsPool == Spec => ImplementsPool
<1>1. Init => Pool!PInit
  BY InitRefines
<1>2. IInv /\ [Next]_vars => [Pool!PNext]_(Pool!pvars)
  <2> SUFFICES ASSUME IInv, [Next]_vars PROVE Pool!PNext \/ UNCHANGED Pool!pvars
    OBVIOUS
  <2>1. ASSUME NEW i \in Items, Launch(i) PROVE Pool!PNext
    BY <2>1, LaunchRefines DEF Pool!PNext
  <2>2. ASSUME NEW i \in Items, Exit(i) \/ Die(i) PROVE Pool!PNext
    BY <2>2, EndOfChildRefines DEF Pool!PNext
  <2>3. ASSUME NEW i \in Items, Work(i) \/ Send(i) PROVE UNCHANGED Pool!pvars
    BY <2>3, TalkRefines
  <2>4. CASE LaunchNone \/ Update \/ Recv \/ IsAlive \/ Collect \/ PassEnds
    BY <2>4, ParentRefines
  <2>5. CASE Done
    BY <2>5, DoneRefines DEF Pool!PNext
  <2>6. CASE UNCHANGED vars
    BY <2>6 DEF vars, parentVars, childVars, Pool!pvars, Alive, Fate
  <2> QED BY <2>1, <2>2, <2>3, <2>4, <2>5, <2>6 DEF Next, Parent, Child
<1>3. Spec => []IInv
  BY Invariant
<1> QED BY <1>1, <1>2, <1>3, PTL DEF Spec, ImplementsPool, Pool!PSpec

------------------------------------------------------------------------------
(* Locked signatures: what a build with locked-sigs.inc keeps and hides.     *)

\* What goes into a hash of the first build by itself, the task's metadata.
AsItWas(t) == <<t.mc, t.pn, t.task, "as it was">>

\* The first build has nothing locked, hashes the metadata as they were, and
\* hears of older tasks only from the server.
FirstBuild ==
    /\ DOMAIN locks = {} /\ DOMAIN locked = {}
    /\ \A t \in DOMAIN hash : hash[t].own = AsItWas(t)
    /\ \A t \in DOMAIN unihash : unihash[t] = Older(t)

\* The file that was dumped: a task whose name is its own finds its hash there.
DumpedRight ==
    /\ DOMAIN locks = {<<t.pn, t.task>> : t \in Tasks}
    /\ \A t \in Tasks : OneOfItsName(t) => locks[<<t.pn, t.task>>] = first[t]
    /\ \A t \in Tasks : first[t] = Older(t) \/ first[t].own = AsItWas(t)

\* The unlocked recipes grow, but never into a set of recipes apart from them;
\* and whoever was hashed without a lock is one of them.
UnlockedRight ==
    /\ graph.unlocked \subseteq unlocked
    /\ \A pns \in SUBSET {t.pn : t \in Tasks} : SetApart(pns) => pns \cap unlocked = {}
    /\ \A t \in DOMAIN hash \ DOMAIN locked : t.pn \in unlocked

\* A lock that is in use.
LockRight(t) ==
    /\ t.pn \notin graph.unlocked
    /\ \A d \in DirectDeps(t) : d.mc = t.mc => d \in DOMAIN locked
    /\ OneOfItsName(t) =>
          /\ hash[t] = first[t] /\ locked[t] = first[t]
          /\ t.pn \in graph.edited => t \in mismatches \/ first[t] = Older(t)

SigInv ==
    /\ build \in {1, 2}
    /\ DOMAIN hash \subseteq Tasks /\ DOMAIN locked \subseteq DOMAIN hash
    /\ build = 1 => FirstBuild
    /\ build = 2 => DumpedRight /\ UnlockedRight /\ \A t \in DOMAIN locked : LockRight(t)

LEMMA SigStarts == SigInit => SigInv
<1>1. DOMAIN <<>> = {}
  OBVIOUS
<1>2. QED
  BY <1>1 DEF SigInit, SigInv, FirstBuild

\* What is said of the graph alone stays so.
LEMMA GraphStays ==
  ASSUME UNCHANGED graph
  PROVE  /\ Tasks' = Tasks
         /\ \A t : DirectDeps(t)' = DirectDeps(t)
         /\ \A t : OneOfItsName(t)' = OneOfItsName(t)
         /\ \A pns : SetApart(pns)' = SetApart(pns)
<1>1. Tasks' = Tasks
  BY DEF Tasks
<1>2. ASSUME NEW t PROVE DirectDeps(t)' = DirectDeps(t)
  BY <1>1 DEF DirectDeps
<1>3. ASSUME NEW t PROVE OneOfItsName(t)' = OneOfItsName(t)
  BY <1>1 DEF OneOfItsName
<1>4. ASSUME NEW pns PROVE SetApart(pns)' = SetApart(pns)
  BY <1>1, <1>2 DEF SetApart
<1>5. QED
  BY <1>1, <1>2, <1>3, <1>4

\* sstatesig.py:153-202
LEMMA GetTaskhashKeeps ==
  ASSUME SigInv, NEW t \in Tasks, GetTaskhash(t)
  PROVE  SigInv'
<1>1. /\ UNCHANGED <<graph, build, unihash, locks, first>>
      /\ t \notin DOMAIN hash /\ DirectDeps(t) \subseteq DOMAIN hash
      /\ unlocked' = NowUnlocked(t)
  BY DEF GetTaskhash
<1>2. PICK h : h = Computed(t)
  OBVIOUS
<1>3. h.own = <<t.mc, t.pn, t.task,
                IF build = 2 /\ t.pn \in graph.edited THEN "edited" ELSE "as it was">>
  BY <1>2 DEF Computed
<1>4. CASE DependsUnlocked(t) \/ <<t.pn, t.task>> \notin DOMAIN locks
  <2>1. hash' = Noted(hash, t, h) /\ UNCHANGED <<locked, mismatches>>
    BY <1>2, <1>4 DEF GetTaskhash
  <2>2. /\ DOMAIN hash' = DOMAIN hash \cup {t} /\ hash'[t] = h
        /\ \A x \in DOMAIN hash : hash'[x] = hash[x]
    BY <1>1, <2>1 DEF Noted
  <2>3. CASE build = 1
    <3>1. h.own = AsItWas(t)
      <4>1. (IF build = 2 /\ t.pn \in graph.edited THEN "edited" ELSE "as it was") = "as it was"
        BY <2>3
      <4>2. QED
        BY <1>3, <4>1, Zenon DEF AsItWas
    <3>2. ASSUME NEW x \in DOMAIN hash' PROVE hash'[x].own = AsItWas(x)
      BY <2>2, <2>3, <3>1, <3>2 DEF SigInv, FirstBuild
    <3>3. FirstBuild'
      <4>1. DOMAIN locks' = {} /\ DOMAIN locked' = {}
        BY <1>1, <2>1, <2>3 DEF SigInv, FirstBuild
      <4>2. \A x \in DOMAIN unihash' : unihash'[x] = Older(x)
        BY <1>1, <2>3 DEF SigInv, FirstBuild
      <4>3. QED
        BY <3>2, <4>1, <4>2 DEF FirstBuild, AsItWas, Older
    <3>4. QED
      BY <1>1, <2>1, <2>2, <2>3, <3>3, GraphStays DEF SigInv
  <2>4. CASE build = 2
    <3>1. DependsUnlocked(t)
      BY <1>4, <2>4 DEF SigInv, DumpedRight
    <3>2. unlocked' = unlocked \cup {t.pn}
      BY <1>1, <3>1 DEF NowUnlocked
    <3>3. DumpedRight'
      BY <1>1, <2>4, GraphStays DEF SigInv, DumpedRight, Older, AsItWas
    <3>4. ASSUME NEW pns \in SUBSET {x.pn : x \in Tasks}, SetApart(pns)
          PROVE  t.pn \notin pns
      BY <2>4, <3>1, <3>4 DEF SigInv, UnlockedRight, SetApart, DependsUnlocked
    <3>5. UnlockedRight'
      <4>1. graph.unlocked \subseteq unlocked'
        BY <2>4, <3>2 DEF SigInv, UnlockedRight
      <4>2. \A pns \in SUBSET {x.pn : x \in Tasks} : SetApart(pns) => pns \cap unlocked' = {}
        BY <2>4, <3>2, <3>4 DEF SigInv, UnlockedRight
      <4>3. \A x \in DOMAIN hash' \ DOMAIN locked' : x.pn \in unlocked'
        BY <2>1, <2>2, <2>4, <3>2 DEF SigInv, UnlockedRight
      <4>4. QED
        BY <1>1, <4>1, <4>2, <4>3, GraphStays DEF UnlockedRight
    <3>6. ASSUME NEW x \in DOMAIN locked' PROVE LockRight(x)'
      <4>1. x \in DOMAIN locked /\ x \in DOMAIN hash /\ LockRight(x)
        BY <2>1, <2>4 DEF SigInv
      <4>2. hash'[x] = hash[x]
        BY <2>2, <4>1
      <4>3. QED
        BY <1>1, <2>1, <4>1, <4>2, GraphStays DEF LockRight, Older
    <3>7. QED
      BY <1>1, <2>1, <2>2, <2>4, <3>3, <3>5, <3>6, GraphStays DEF SigInv
  <2>5. QED
    BY <2>3, <2>4 DEF SigInv
<1>5. CASE ~DependsUnlocked(t) /\ <<t.pn, t.task>> \in DOMAIN locks
  <2>1. PICK lock : lock = locks[<<t.pn, t.task>>]
    OBVIOUS
  <2>2. /\ locked' = Noted(locked, t, lock) /\ hash' = Noted(hash, t, lock)
        /\ mismatches' = IF lock \in {h, FromServer(t, h)} THEN mismatches
                         ELSE mismatches \cup {t}
    BY <1>2, <1>5, <2>1 DEF GetTaskhash
  <2>3. /\ DOMAIN hash' = DOMAIN hash \cup {t} /\ hash'[t] = lock
        /\ \A x \in DOMAIN hash : hash'[x] = hash[x]
        /\ DOMAIN locked' = DOMAIN locked \cup {t} /\ locked'[t] = lock
        /\ \A x \in DOMAIN locked : x # t => locked'[x] = locked[x]
    BY <1>1, <2>2 DEF Noted
  <2>4. build = 2
    BY <1>5 DEF SigInv, FirstBuild
  <2>5. unlocked' = unlocked
    BY <1>1, <1>5 DEF NowUnlocked
  <2>6. DumpedRight'
    BY <1>1, <2>4, GraphStays DEF SigInv, DumpedRight, Older, AsItWas
  <2>7. UnlockedRight'
    <3>1. \A x \in DOMAIN hash' \ DOMAIN locked' : x.pn \in unlocked'
      BY <2>3, <2>4, <2>5 DEF SigInv, UnlockedRight
    <3>2. QED
      BY <1>1, <2>4, <2>5, <3>1, GraphStays DEF SigInv, UnlockedRight
  <2>8. LockRight(t)'
    <3>1. t.pn \notin graph.unlocked
      BY <1>5, <2>4 DEF SigInv, UnlockedRight, DependsUnlocked
    <3>2. ASSUME NEW d \in DirectDeps(t), d.mc = t.mc PROVE d \in DOMAIN locked
      BY <1>1, <1>5, <2>4, <3>2 DEF SigInv, UnlockedRight, DependsUnlocked
    <3>3. ASSUME OneOfItsName(t) PROVE lock = first[t]
      BY <2>1, <2>4, <3>3 DEF SigInv, DumpedRight
    <3>4. ASSUME OneOfItsName(t), t.pn \in graph.edited
          PROVE  t \in mismatches' \/ first[t] = Older(t)
      <4>1. h.own = <<t.mc, t.pn, t.task, "edited">>
        BY <1>3, <2>4, <3>4
      <4>2. lock = Older(t) \/ lock.own = <<t.mc, t.pn, t.task, "as it was">>
        BY <2>4, <3>3, <3>4 DEF SigInv, DumpedRight, AsItWas
      <4>3. Older(t).own = <<t.mc, t.pn, t.task, "older">>
        BY DEF Older
      <4>4. lock # h
        <5>1. h.own[4] = "edited"
          BY <4>1
        <5>2. lock.own = <<t.mc, t.pn, t.task, "older">> \/ lock.own = <<t.mc, t.pn, t.task, "as it was">>
          BY <4>2, <4>3, Zenon
        <5>3. lock.own[4] = "older" \/ lock.own[4] = "as it was"
          <6>1. <<t.mc, t.pn, t.task, "older">>[4] = "older"
            OBVIOUS
          <6>2. <<t.mc, t.pn, t.task, "as it was">>[4] = "as it was"
            OBVIOUS
          <6>3. QED
            BY <5>2, <6>1, <6>2, Zenon
        <5>4. h.own[4] # lock.own[4]
          BY <5>1, <5>3
        <5>5. QED
          BY <5>4
      <4>5. FromServer(t, h) \in {h, Older(t)}
        BY DEF FromServer
      <4>6. QED
        BY <2>2, <3>3, <3>4, <4>4, <4>5
    <3>5. QED
      BY <1>1, <2>3, <3>1, <3>2, <3>3, <3>4, GraphStays DEF LockRight, Older
  <2>9. ASSUME NEW x \in DOMAIN locked' PROVE LockRight(x)'
    <3>1. CASE x = t
      BY <2>8, <3>1
    <3>2. CASE x # t
      <4>1. x \in DOMAIN locked /\ x \in DOMAIN hash /\ LockRight(x)
        BY <2>3, <2>4, <3>2 DEF SigInv
      <4>2. hash'[x] = hash[x] /\ locked'[x] = locked[x] /\ mismatches \subseteq mismatches'
        BY <2>2, <2>3, <3>2, <4>1
      <4>3. QED
        BY <1>1, <2>3, <4>1, <4>2, GraphStays DEF LockRight, Older
    <3>3. QED
      BY <3>1, <3>2
  <2>10. QED
    BY <1>1, <2>3, <2>4, <2>6, <2>7, <2>9, GraphStays DEF SigInv
<1>6. QED
  BY <1>4, <1>5

\* sstatesig.py:153-159
LEMMA RehashKeeps ==
  ASSUME SigInv, NEW t \in Tasks, Rehash(t)
  PROVE  SigInv'
<1>1. UNCHANGED <<graph, build, unihash, locks, locked, unlocked, mismatches, first>>
  BY DEF Rehash
<1>2. PICK h : h = IF t \in DOMAIN locked THEN locked[t] ELSE Computed(t)
  OBVIOUS
<1>3. /\ t \in DOMAIN hash /\ DOMAIN hash' = DOMAIN hash /\ hash'[t] = h
      /\ \A x \in DOMAIN hash : x # t => hash'[x] = hash[x]
  BY <1>2 DEF Rehash
<1>4. CASE build = 1
  <2>1. h.own = AsItWas(t)
    <3>1. h = Computed(t)
      BY <1>2, <1>4 DEF SigInv, FirstBuild
    <3>2. Computed(t).own = <<t.mc, t.pn, t.task, "as it was">>
      <4>1. (IF build = 2 /\ t.pn \in graph.edited THEN "edited" ELSE "as it was") = "as it was"
        BY <1>4
      <4>2. PICK w : w = IF build = 2 /\ t.pn \in graph.edited THEN "edited" ELSE "as it was"
        OBVIOUS
      <4>3. Computed(t).own = <<t.mc, t.pn, t.task, w>>
        BY <4>2 DEF Computed
      <4>4. QED
        BY <4>1, <4>2, <4>3, Zenon
    <3>3. QED
      BY <3>1, <3>2 DEF AsItWas
  <2>2. FirstBuild'
    BY <1>1, <1>3, <1>4, <2>1 DEF SigInv, FirstBuild, AsItWas, Older
  <2>3. QED
    BY <1>1, <1>3, <1>4, <2>2, GraphStays DEF SigInv
<1>5. CASE build = 2
  <2>1. DumpedRight'
    BY <1>1, <1>5, GraphStays DEF SigInv, DumpedRight, Older, AsItWas
  <2>2. UnlockedRight'
    BY <1>1, <1>3, <1>5, GraphStays DEF SigInv, UnlockedRight
  <2>3. ASSUME NEW x \in DOMAIN locked' PROVE LockRight(x)'
    <3>1. x \in DOMAIN locked /\ x \in DOMAIN hash /\ LockRight(x)
      BY <1>1, <1>5 DEF SigInv
    <3>2. hash'[x] = IF x = t THEN locked[x] ELSE hash[x]
      BY <1>2, <1>3, <3>1
    <3>3. OneOfItsName(x) => hash'[x] = first[x]
      BY <3>1, <3>2 DEF LockRight
    <3>4. QED
      BY <1>1, <3>1, <3>3, GraphStays DEF LockRight, Older
  <2>4. QED
    BY <1>1, <1>3, <1>5, <2>1, <2>2, <2>3, GraphStays DEF SigInv
<1>6. QED
  BY <1>4, <1>5 DEF SigInv

LEMMA EquivalentKeeps ==
  ASSUME SigInv, NEW t \in Tasks, Equivalent(t)
  PROVE  SigInv'
<1>1. UNCHANGED <<graph, build, hash, locks, locked, unlocked, mismatches, first>>
  BY DEF Equivalent
<1>2. unihash' = Noted(unihash, t, Older(t))
  BY DEF Equivalent, FromServer
<1>3. CASE build = 1
  <2>1. FirstBuild'
    BY <1>1, <1>2, <1>3 DEF SigInv, FirstBuild, AsItWas, Older, Noted
  <2>2. QED
    BY <1>1, <1>3, <2>1, GraphStays DEF SigInv
<1>4. CASE build = 2
  <2>1. DumpedRight'
    BY <1>1, <1>4, GraphStays DEF SigInv, DumpedRight, Older, AsItWas
  <2>2. UnlockedRight'
    BY <1>1, <1>4, GraphStays DEF SigInv, UnlockedRight
  <2>3. ASSUME NEW x \in DOMAIN locked' PROVE LockRight(x)'
    BY <1>1, <1>4, GraphStays DEF SigInv, LockRight, Older
  <2>4. QED
    BY <1>1, <1>4, <2>1, <2>2, <2>3, GraphStays DEF SigInv
<1>5. QED
  BY <1>3, <1>4 DEF SigInv

\* sstatesig.py:220-248
LEMMA DumpKeeps ==
  ASSUME SigInv, DumpLockedsigs
  PROVE  SigInv'
<1>1. /\ build = 1 /\ Settled /\ build' = 2 /\ graph' = graph
      /\ hash' = <<>> /\ locked' = <<>> /\ unlocked' = graph.unlocked
      /\ first' = [t \in Tasks |-> Unihash(t)]
  BY DEF DumpLockedsigs
<1>2. DOMAIN <<>> = {}
  OBVIOUS
<1>3. PICK last \in SUBSET Tasks :
        /\ \A t \in Tasks : Cardinality({x \in last : x.pn = t.pn /\ x.task = t.task}) = 1
        /\ locks' = [k \in {<<t.pn, t.task>> : t \in Tasks} |->
                        Unihash(CHOOSE x \in last : k = <<x.pn, x.task>>)]
  BY DEF DumpLockedsigs
<1>4. ASSUME NEW t \in Tasks, OneOfItsName(t) PROVE locks'[<<t.pn, t.task>>] = first'[t]
  <2>1. {x \in last : x.pn = t.pn /\ x.task = t.task} # {}
    BY <1>3, FS_EmptySet
  <2>2. PICK x \in last : x.pn = t.pn /\ x.task = t.task
    BY <2>1
  <2>3. PICK c : c = CHOOSE y \in last : <<t.pn, t.task>> = <<y.pn, y.task>>
    OBVIOUS
  <2>4. c \in last /\ <<t.pn, t.task>> = <<c.pn, c.task>>
    BY <2>2, <2>3
  <2>5. c \in Tasks /\ c.pn = t.pn /\ c.task = t.task
    BY <2>4
  <2>6. c = t
    BY <1>4, <2>5 DEF OneOfItsName
  <2>7. locks'[<<t.pn, t.task>>] = Unihash(c)
    BY <1>3, <2>3
  <2>8. QED
    BY <1>1, <2>6, <2>7
<1>5. ASSUME NEW t \in Tasks PROVE first'[t] = Older(t) \/ first'[t].own = AsItWas(t)
  <2>1. first'[t] = Unihash(t)
    BY <1>1
  <2>2. t \in DOMAIN hash /\ t \notin DOMAIN locked
    BY <1>1 DEF Settled, SigInv, FirstBuild
  <2>3. QED
    BY <1>1, <2>1, <2>2 DEF Unihash, SigInv, FirstBuild
<1>6. DumpedRight'
  <2>1. DOMAIN locks' = {<<t.pn, t.task>> : t \in Tasks}
    BY <1>3
  <2>2. QED
    BY <1>1, <1>4, <1>5, <2>1, GraphStays DEF DumpedRight, AsItWas, Older
<1>7. UnlockedRight'
  BY <1>1, <1>2, GraphStays DEF UnlockedRight, SetApart
<1>8. QED
  BY <1>1, <1>2, <1>6, <1>7 DEF SigInv

\* sstatesig.py: the inductive invariant of two builds with locked signatures.
THEOREM SigInvariant == SigSpec => []SigInv
<1>1. SigInit => SigInv
  BY SigStarts
<1>2. SigInv /\ [SigNext]_sigVars => SigInv'
  <2> SUFFICES ASSUME SigInv, [SigNext]_sigVars PROVE SigInv'
    OBVIOUS
  <2>1. CASE \E t \in Tasks : GetTaskhash(t)
    BY <2>1, GetTaskhashKeeps
  <2>2. CASE \E t \in Tasks : Rehash(t)
    BY <2>2, RehashKeeps
  <2>3. CASE \E t \in Tasks : Equivalent(t)
    BY <2>3, EquivalentKeeps
  <2>4. CASE DumpLockedsigs
    BY <2>4, DumpKeeps
  <2>5. CASE UNCHANGED sigVars
    <3>1. UNCHANGED <<graph, build, hash, unihash, locks, locked, unlocked, mismatches, first>>
      BY <2>5 DEF sigVars
    <3>2. build = 1 => FirstBuild'
      BY <3>1 DEF SigInv, FirstBuild, AsItWas, Older
    <3>3. build = 2 => DumpedRight'
      BY <3>1, GraphStays DEF SigInv, DumpedRight, AsItWas, Older
    <3>4. build = 2 => UnlockedRight'
      BY <3>1, GraphStays DEF SigInv, UnlockedRight
    <3>5. ASSUME build = 2, NEW x \in DOMAIN locked' PROVE LockRight(x)'
      BY <3>1, <3>5, GraphStays DEF SigInv, LockRight, Older
    <3>6. QED
      BY <3>1, <3>2, <3>3, <3>4, <3>5, GraphStays DEF SigInv
  <2>6. QED
    BY <2>1, <2>2, <2>3, <2>4, <2>5 DEF SigNext
<1>3. QED
  BY <1>1, <1>2, PTL DEF SigSpec

\* sstatesig.py:153-202, 220-248: for any tasks, rules, edits and order of
\* hashing, no task that is built from an unlocked recipe has a locked hash, and
\* recipes that have nothing to do with one get the dumped hashes back, with a
\* report of every edit.
THEOREM LocksAreSound == SigSpec => []LocksSound
<1>1. SigInv => LocksSound
  <2> SUFFICES ASSUME SigInv PROVE LocksSound
    OBVIOUS
  <2>1. NoStaleLock
    BY DEF NoStaleLock, SigInv, LockRight
  <2>2. LocksReproduce
    <3> SUFFICES ASSUME build = 2, NEW t \in DOMAIN hash, FullyLocked(t.pn), OneOfItsName(t)
                 PROVE  /\ hash[t] = first[t]
                        /\ t.pn \in graph.edited => t \in mismatches \/ first[t] = Older(t)
      BY DEF LocksReproduce
    <3>1. t.pn \notin unlocked
      BY DEF FullyLocked, SigInv, UnlockedRight
    <3>2. t \in DOMAIN locked
      BY <3>1 DEF SigInv, UnlockedRight
    <3>3. QED
      BY <3>2 DEF SigInv, LockRight
  <2>3. QED
    BY <2>1, <2>2 DEF LocksSound
<1>2. QED
  BY <1>1, SigInvariant, PTL

-----------------------------------------------------------------------------
(* patch.py: do_patch.                                                      *)

\* The sequence s is the first Len(s) members of w.
IsStart(s, w) ==
    /\ s \in Seq({w[i] : i \in DOMAIN w})
    /\ Len(s) <= Len(w)
    /\ \A i \in 1..Len(s) : s[i] = w[i]

Begins(s) == IsStart(s, ToApply)

Running(ps) == verdict = "running" /\ phase \in ps

\* The steps in which git takes a patch off.
Taking == {"unapply", "unpatch", "uncommit", "unnote"}

\* The steps from Import on, but for a failed am.
Putting == {"import", "push", "apply", "fallback", "record", "copy", "commit", "note", "end"}

\* The patch set in memory follows the loop, and each method has its steps.
TurnInv ==
    /\ urls \in Urls /\ method \in PatchTools
    /\ starts \in Nat
    /\ starts = 0 => verdict = "dead" /\ phase = "off"
    /\ verdict = "running" => phase # "off"
    /\ verdict = "running" /\ method = "patch" =>
          phase \in {"clean", "import", "push", "record", "copy", "end"}
    /\ verdict = "running" /\ method = "git" =>
          phase \in {"clean", "import", "push", "abort", "apply", "fallback", "record", "copy",
                     "commit", "note", "end"} \cup Taking
    /\ verdict = "running" /\ method = "quilt" => phase \in {"clean", "import", "push", "shell", "end"}
    /\ verdict = "running" /\ ToApply = <<>> => phase = "end"
    /\ Running(Taking) => left # <<>>
    /\ verdict = "running" /\ phase # "end" =>
          /\ turn \in 1..(Len(ToApply) + 1)
          /\ phase \in {"clean"} \cup Taking => turn = 1
          /\ phase \notin {"clean", "import"} \cup Taking => turn <= Len(ToApply)
          /\ method # "quilt" =>
                /\ Begins(patches)
                /\ Len(patches) = IF phase \in {"clean", "import"} \cup Taking THEN turn - 1 ELSE turn
                /\ current = IF turn = 1 THEN Nil ELSE turn - 2

\* With patch and git, what is in the tree is a first part of what is to be
\* applied, unless an am left conflicts there, and reaches as far as the loop has
\* come.
TreeInv ==
    method # "quilt" /\ Sound =>
        /\ amdir \/ Begins(applied)
        /\ Running({"import", "push"}) /\ turn > 1 => Len(applied) >= turn - 1
        /\ Running({"apply", "fallback"}) => Len(applied) >= turn - 1
        /\ Running({"record", "copy", "commit"}) => Len(applied) = turn
        /\ Running({"note"}) => Len(applied) >= turn
        /\ Running({"end"}) => Len(applied) >= Len(ToApply)

\* git: nothing is in HEAD that is not in the tree, once Clean has been through.
HeadInTree == amdir \/ head = Whole \/ Len(head) <= Len(applied)

\* git: HEAD keeps up with the loop, and an am left from an earlier start is
\* aborted before anything is recorded.
HeadInv ==
    /\ method # "git" => ~amdir
    /\ ToApply = <<>> => ~amdir
    /\ method = "git" /\ Sound =>
          /\ Begins(head) \/ (NeedDirtyCheck /\ head = Whole)
          /\ NeedDirtyCheck /\ amdir => Running({"abort"})
          /\ head = Whole => series = <<>> \/ Running({"copy", "commit"})
          /\ Running({"import", "push"}) /\ turn > 1 => Begins(head) /\ Len(head) >= turn - 1 /\ ~amdir
          /\ Running({"abort", "apply"}) => Begins(head) /\ Len(head) >= turn - 1
          /\ Running({"note"}) => Begins(head) /\ Len(head) >= turn
          /\ Running({"apply", "fallback", "record", "copy", "commit", "note", "end"}) => ~amdir
          /\ Running(Taking) => series # <<>> /\ ~amdir
          /\ Running({"unnote"}) => applied = head
          /\ Running({"clean"}) => /\ left = series \/ applied = head
                                   /\ series = <<>> => left = <<>>
          /\ series = <<>> \/ Running(Putting) => HeadInTree

\* patch, as long as no start died between a patch and its record: the series
\* tells what is in the tree, and the files to take it off with are there.
SeriesInv ==
    method = "patch" /\ ~torn =>
        /\ verdict # "running" \/ phase \in {"import", "push", "end"} =>
              /\ series = applied
              /\ \A i \in 1..Len(applied) : applied[i] \in copies
        /\ Running({"import", "push"}) => Len(applied) = turn - 1
        /\ Running({"clean"}) =>
              /\ Begins(series) /\ left = applied /\ Len(left) <= Len(series)
              /\ \A i \in 1..Len(series) : series[i] \in copies
        /\ Running({"record"}) =>
              /\ Begins(series) /\ Len(series) = turn - 1
              /\ \A i \in 1..Len(series) : series[i] \in copies
        /\ Running({"copy"}) =>
              /\ series = applied
              /\ \A i \in 1..(Len(series) - 1) : series[i] \in copies

\* git, the first time: the tree is as far as the loop, and each patch has its
\* commit and the commit its note.
CommitsInv ==
    method = "git" =>
        /\ starts = 0 => /\ applied = <<>> /\ head \in {<<>>, Whole} /\ commits = <<>> /\ series = <<>>
                         /\ ~amdir /\ ~torn /\ (head = Whole => NeedDirtyCheck)
        /\ starts = 1 /\ verdict = "running" =>
              /\ left = <<>> /\ ~torn
              /\ commits = [i \in DOMAIN commits |-> commits[i]]
              /\ Len(commits) \in 0..Len(ToApply) /\ DOMAIN commits = 1..Len(commits)
              /\ \A i \in 1..Len(commits) :
                    commits[i] = [patch |-> ToApply[i],
                                  notes |-> IF phase = "note" /\ i = turn THEN <<>> ELSE <<ToApply[i]>>]
              /\ phase = "clean" => Len(commits) = 0 /\ applied = <<>> /\ head \in {<<>>, Whole} /\ ~amdir
              /\ phase = "end" => Len(commits) = Len(ToApply)
              /\ phase \in {"import", "push", "abort", "apply", "fallback"} =>
                    /\ Len(commits) = turn - 1
                    /\ phase # "abort" => Len(applied) = turn - 1
                    /\ phase \in {"import", "push"} => ~amdir
              /\ phase \in {"record", "copy", "commit"} => Len(commits) = turn - 1
              /\ phase \in {"import", "push", "abort", "apply", "fallback", "record", "copy", "commit"} =>
                    head = Whole \/ Len(head) = turn - 1
              /\ phase = "note" => Len(commits) = turn /\ Len(applied) = turn /\ Len(head) = turn

\* quilt: its list of what is applied is what is applied, unless the user
\* forced a patch in; the series is one ahead while a patch is pushed.  When
\* lines were left over, all of them for the first patch, the loop does not get
\* past the second.
QuiltInv ==
    method = "quilt" =>
        /\ resolver = "user" => verdict # "failed"
        /\ resolver = "noop" =>
              /\ applied = stack
              /\ verdict = "running" => phase # "shell"
              /\ ToApply = <<>> => applied = <<>>
              /\ series \in Seq({ToApply[i] : i \in DOMAIN ToApply})
              /\ stack = <<>> => \A i \in 1..Len(series) : series[i] = ToApply[1]
              /\ Running({"clean"}) => (torn <=> StaleSeries)
              /\ Running({"import", "push"}) => Begins(stack) /\ Len(stack) = turn - 1
              /\ Running({"import", "push"}) /\ ~torn =>
                    /\ Begins(series)
                    /\ Len(series) = IF phase = "push" THEN turn ELSE turn - 1
              /\ Running({"import", "push"}) /\ torn =>
                    \/ turn = 1 /\ Len(series) >= (IF phase = "push" THEN 2 ELSE 1)
                    \/ turn = 2 /\ series[2] = ToApply[1] /\ Len(series) >= 2
              /\ Running({"end"}) => applied = ToApply

PatchInv == TurnInv /\ TreeInv /\ HeadInv /\ SeriesInv /\ CommitsInv /\ QuiltInv /\ VerdictEarned

\* Among natural numbers there is a least one.
LEMMA LeastNumber ==
  ASSUME NEW T, T \subseteq Nat, T # {}
  PROVE  \E n \in T : \A m \in T : n <= m
<1> DEFINE R == {ss \in Nat \X Nat : ss[1] < ss[2]}
<1>1. IsWellFoundedOn(R, Nat)
  BY NatLessThanWellFounded DEF OpToRel
<1>2. PICK x \in T : \A y \in T : <<y, x>> \notin R
  <2> HIDE DEF R
  <2> QED
    BY <1>1, WFMin
<1>3. \A y \in T : ~(y < x)
  BY <1>2
<1>4. QED
  BY <1>3

\* c has what src_patches has chosen after each of the first n entries.
ChosenUpTo(us, c, n) ==
  c = [k \in 0..n |->
          IF k = 0 THEN <<>>
          ELSE IF IsPatch(us[k]) /\ ShouldApply(us[k]) THEN Append(c[k - 1], us[k])
          ELSE c[k - 1]]

LEMMA ChosenExists ==
  ASSUME NEW us, NEW n \in Nat
  PROVE  \E c : ChosenUpTo(us, c, n)
<1> DEFINE T == {m \in Nat : ~ \E c : ChosenUpTo(us, c, m)}
<1>1. SUFFICES ASSUME T # {} PROVE FALSE
  OBVIOUS
<1>2. PICK m \in T : \A k \in T : m <= k
  <2> HIDE DEF T
  <2>1. T \subseteq Nat
    BY DEF T
  <2> QED
    BY <1>1, <2>1, LeastNumber
<1>3. m # 0
  <2> DEFINE c == [k \in 0..0 |-> <<>>]
  <2>1. ChosenUpTo(us, c, 0)
    BY DEF ChosenUpTo
  <2>2. QED
    BY <2>1
<1>4. PICK c : ChosenUpTo(us, c, m - 1)
  BY <1>2, <1>3
<1> DEFINE Step(f, k) == IF k = 0 THEN <<>>
                         ELSE IF IsPatch(us[k]) /\ ShouldApply(us[k]) THEN Append(f[k - 1], us[k])
                         ELSE f[k - 1]
<1> DEFINE h == [k \in 0..m |-> IF k = m THEN Step(c, m) ELSE c[k]]
<1>5. ChosenUpTo(us, h, m)
  <2>1. ASSUME NEW k \in 0..m PROVE h[k] = Step(h, k)
    <3>1. CASE k = m
      <4>1. m - 1 \in 0..m /\ m - 1 # m
        BY <1>2, <1>3
      <4>2. h[m - 1] = c[m - 1] /\ h[m] = Step(c, m)
        BY <4>1, <1>2
      <4>3. QED
        BY <3>1, <4>2
    <3>2. CASE k # m
      <4>1. k \in 0..(m - 1)
        BY <1>2, <3>2
      <4>2. c[k] = Step(c, k)
        BY <1>4, <4>1 DEF ChosenUpTo
      <4>3. h[k] = c[k]
        BY <3>2
      <4>4. k # 0 => k - 1 \in 0..m /\ k - 1 # m
        BY <1>2, <4>1
      <4>5. k # 0 => h[k - 1] = c[k - 1]
        BY <4>4
      <4>6. QED
        BY <4>2, <4>3, <4>5
    <3>3. QED
      BY <3>1, <3>2
  <2>2. h = [k \in 0..m |-> Step(h, k)]
    BY <2>1
  <2>3. QED
    BY <2>2 DEF ChosenUpTo
<1>6. QED
  BY <1>2, <1>5

LEMMA ChosenLoop ==
  ASSUME NEW us, Len(us) \in Nat
  PROVE  ChosenUpTo(us, Chosen(us), Len(us))
<1>1. Chosen(us) = CHOOSE c : ChosenUpTo(us, c, Len(us))
  BY DEF Chosen, ChosenUpTo
<1>2. QED
  BY <1>1, ChosenExists

\* s holds some of the first n entries of us, none of them twice.
Picked(us, s, n) ==
  /\ s \in Seq({us[k] : k \in 1..Len(us)})
  /\ \A i \in 1..Len(s) : \E k \in 1..n : s[i] = us[k]
  /\ \A i, j \in 1..Len(s) : s[i].name = s[j].name => i = j

LEMMA PickOne ==
  ASSUME NEW us, Len(us) \in Nat, NEW s, NEW n \in 1..Len(us), Picked(us, s, n - 1),
         \A k, l \in 1..Len(us) : us[k].name = us[l].name => k = l
  PROVE  Picked(us, s, n) /\ Picked(us, Append(s, us[n]), n)
<1> DEFINE E == {us[k] : k \in 1..Len(us)}
<1>1. s \in Seq(E) /\ us[n] \in E /\ Len(s) \in Nat
  BY DEF Picked
<1>2. \A i \in 1..Len(s) : \E k \in 1..(n - 1) : s[i] = us[k]
  BY DEF Picked
<1>3. Picked(us, s, n)
  <2>1. ASSUME NEW i \in 1..Len(s) PROVE \E k \in 1..n : s[i] = us[k]
    <3>1. PICK k \in 1..(n - 1) : s[i] = us[k]
      BY <1>2
    <3>2. k \in 1..n
      OBVIOUS
    <3>3. QED
      BY <3>1, <3>2
  <2>2. QED
    BY <2>1 DEF Picked
<1> DEFINE t == Append(s, us[n])
<1> HIDE DEF E
<1>4. /\ t \in Seq(E) /\ Len(t) = Len(s) + 1
      /\ \A i \in 1..Len(s) : t[i] = s[i]
      /\ t[Len(s) + 1] = us[n]
  BY <1>1
<1> HIDE DEF t
<1>5. ASSUME NEW i \in 1..Len(s) PROVE t[i].name # us[n].name
  <2>1. PICK k \in 1..(n - 1) : t[i] = us[k]
    BY <1>2, <1>4
  <2>2. k # n /\ k \in 1..Len(us)
    OBVIOUS
  <2>3. QED
    BY <2>1, <2>2
<1>6. \A i, j \in 1..Len(s) : t[i].name = t[j].name => i = j
  BY <1>4 DEF Picked
<1>7. ASSUME NEW i \in 1..Len(t), NEW j \in 1..Len(t), t[i].name = t[j].name PROVE i = j
  BY <1>1, <1>4, <1>5, <1>6, <1>7
<1>8. ASSUME NEW i \in 1..Len(t) PROVE \E k \in 1..n : t[i] = us[k]
  <2>1. CASE i = Len(s) + 1
    BY <2>1, <1>4
  <2>2. CASE i \in 1..Len(s)
    BY <2>2, <1>2, <1>4
  <2>3. QED
    BY <1>1, <1>4, <2>1, <2>2
<1>9. Picked(us, t, n)
  BY <1>4, <1>7, <1>8 DEF Picked, E
<1>10. QED
  BY <1>3, <1>9 DEF t

LEMMA ChosenPicked ==
  ASSUME NEW us, Len(us) \in Nat,
         \A k, l \in 1..Len(us) : us[k].name = us[l].name => k = l
  PROVE  Picked(us, SrcPatches(us), Len(us))
<1> DEFINE n == Len(us)
           c == Chosen(us)
           T == {k \in 0..n : ~Picked(us, c[k], k)}
<1>1. n \in Nat /\ ChosenUpTo(us, c, n)
  BY ChosenLoop
<1>2. T = {}
  <2>1. SUFFICES ASSUME T # {} PROVE FALSE
    OBVIOUS
  <2>2. PICK k \in T : \A h \in T : k <= h
    <3>1. T \subseteq Nat
      BY <1>1
    <3> HIDE DEF T
    <3> QED
      BY <2>1, <3>1, LeastNumber
  <2> HIDE DEF c
  <2>3. CASE k = 0
    <3>1. c[0] = <<>>
      BY <1>1 DEF ChosenUpTo
    <3>2. Picked(us, <<>>, 0)
      BY DEF Picked
    <3>3. QED
      BY <2>2, <2>3, <3>1, <3>2
  <2>4. CASE k # 0
    <3>1. k \in 1..n /\ k - 1 \in 0..n /\ k - 1 \notin T
      BY <1>1, <2>2, <2>4
    <3>2. Picked(us, c[k - 1], k - 1)
      BY <3>1
    <3>3. c[k] = c[k - 1] \/ c[k] = Append(c[k - 1], us[k])
      BY <1>1, <3>1, <2>4 DEF ChosenUpTo
    <3>4. Picked(us, c[k - 1], k) /\ Picked(us, Append(c[k - 1], us[k]), k)
      BY <3>1, <3>2, PickOne
    <3>5. QED
      BY <2>2, <3>3, <3>4
  <2>5. QED
    BY <2>3, <2>4
<1>3. QED
  BY <1>1, <1>2 DEF SrcPatches

\* A list without repetitions.
Lists(w) ==
  /\ w \in Seq({w[i] : i \in DOMAIN w})
  /\ Len(w) \in Nat /\ DOMAIN w = 1..Len(w)
  /\ \A i, j \in 1..Len(w) : w[i] = w[j] => i = j

\* The list of the patches to apply names none twice, and each is of a kind.
LEMMA ToApplyRight ==
  ASSUME urls \in Urls
  PROVE  /\ Lists(ToApply)
         /\ \A i \in 1..Len(ToApply) : Kind(ToApply[i]) \in Kinds /\ ToApply[i] # Nil
<1>1. /\ Len(urls) \in Nat /\ DOMAIN urls = 1..Len(urls)
      /\ \A i, j \in 1..Len(urls) : urls[i].name = urls[j].name => i = j
      /\ \A i \in 1..Len(urls) : urls[i].kind \in Kinds /\ urls[i].name # Nil
  <2> DEFINE S == {urls[i] : i \in DOMAIN urls}
  <2>1. /\ urls \in Seq(S)
        /\ \A i, j \in DOMAIN urls : urls[i].name = urls[j].name => i = j
        /\ \A i \in DOMAIN urls : urls[i].kind \in Kinds /\ urls[i].name # Nil
    BY UrlsAssumption, Zenon
  <2> HIDE DEF S
  <2>2. Len(urls) \in Nat /\ DOMAIN urls = 1..Len(urls)
    BY <2>1
  <2>3. QED
    BY <2>1, <2>2
<1>2. PICK ps : ps = SrcPatches(urls)
  OBVIOUS
<1>3. Picked(urls, ps, Len(urls))
  BY <1>1, <1>2, ChosenPicked
<1>4. Len(ps) \in Nat /\ DOMAIN ps = 1..Len(ps)
  BY <1>3 DEF Picked
<1>5. ToApply = [i \in 1..Len(ps) |-> ps[i].name]
  BY <1>2, <1>4 DEF ToApply
<1>6. ToApply \in Seq({ToApply[i] : i \in DOMAIN ToApply}) /\ Len(ToApply) = Len(ps)
  BY <1>4, <1>5
<1>7. \A i, j \in 1..Len(ToApply) : ToApply[i] = ToApply[j] => i = j
  BY <1>3, <1>5, <1>6 DEF Picked
<1>8. ASSUME NEW i \in 1..Len(ToApply) PROVE Kind(ToApply[i]) \in Kinds /\ ToApply[i] # Nil
  <2>1. PICK k \in 1..Len(urls) : ps[i] = urls[k]
    BY <1>3, <1>6 DEF Picked
  <2>2. ToApply[i] = urls[k].name
    BY <1>5, <1>6, <2>1
  <2> DEFINE U == {urls[h] : h \in DOMAIN urls}
  <2>3. urls[k] \in U
    BY <1>1
  <2>4. PICK u \in U : u = CHOOSE v \in U : v.name = ToApply[i]
    BY <2>2, <2>3
  <2>5. u.kind \in Kinds
    BY <1>1, <2>4
  <2>6. QED
    BY <1>1, <2>2, <2>4, <2>5 DEF Kind
<1>9. QED
  BY <1>4, <1>5, <1>6, <1>7, <1>8 DEF Lists

\* Nothing that a patch is known by changes while it is applied.
LEMMA ToApplyStays ==
  ASSUME urls' = urls
  PROVE  ToApply' = ToApply /\ \A p : Kind(p)' = Kind(p)
BY Zenon DEF ToApply, Kind

\* What the starts of a list have in common.
LEMMA StartOf ==
  ASSUME NEW w, Lists(w)
  PROVE  /\ Len(w) \in Nat
         /\ IsStart(<<>>, w)
         /\ \A s : IsStart(s, w) => /\ Len(s) \in Nat /\ Len(s) <= Len(w) /\ DOMAIN s = 1..Len(s)
                                    /\ Len(s) = 0 <=> s = <<>>
                                    /\ Len(s) >= Len(w) => s = w
                                    /\ \A i \in 1..Len(s) : s[i] = w[i]
<1> DEFINE S == {w[i] : i \in DOMAIN w}
<1>1. w \in Seq(S) /\ Len(w) \in Nat
  BY DEF Lists
<1>2. \A s : IsStart(s, w) => s \in Seq(S) /\ Len(s) <= Len(w) /\ \A i \in 1..Len(s) : s[i] = w[i]
  BY DEF IsStart
<1>3. IsStart(<<>>, w)
  BY <1>1 DEF IsStart
<1> HIDE DEF S
<1>4. ASSUME NEW s, IsStart(s, w)
      PROVE  /\ Len(s) \in Nat /\ Len(s) <= Len(w) /\ DOMAIN s = 1..Len(s)
             /\ Len(s) = 0 <=> s = <<>>
             /\ Len(s) >= Len(w) => s = w
             /\ \A i \in 1..Len(s) : s[i] = w[i]
  <2>1. s \in Seq(S) /\ Len(s) <= Len(w) /\ \A i \in 1..Len(s) : s[i] = w[i]
    BY <1>2, <1>4
  <2>2. Len(s) \in Nat /\ DOMAIN s = 1..Len(s)
    BY <2>1
  <2>3. Len(s) >= Len(w) => s = w
    BY <1>1, <2>1, <2>2
  <2>4. QED
    BY <2>1, <2>2, <2>3
<1>5. QED
  BY <1>1, <1>3, <1>4

LEMMA SameStart ==
  ASSUME NEW w, Lists(w), NEW s, NEW t, IsStart(s, w), IsStart(t, w), Len(s) = Len(t)
  PROVE  s = t
<1> DEFINE S == {w[i] : i \in DOMAIN w}
<1>1. s \in Seq(S) /\ t \in Seq(S)
  BY DEF IsStart
<1>2. \A i \in 1..Len(s) : s[i] = t[i]
  BY DEF IsStart
<1> HIDE DEF S
<1>3. QED
  BY <1>1, <1>2

LEMMA StartAppend ==
  ASSUME NEW w, Lists(w), NEW s, IsStart(s, w), Len(s) < Len(w)
  PROVE  LET t == Append(s, w[Len(s) + 1])
         IN  /\ IsStart(t, w) /\ Len(t) = Len(s) + 1
             /\ \A i \in 1..Len(s) : t[i] = s[i]
             /\ t[Len(s) + 1] = w[Len(s) + 1]
<1> DEFINE S == {w[i] : i \in DOMAIN w}
<1>1. s \in Seq(S) /\ Len(s) \in Nat /\ \A i \in 1..Len(s) : s[i] = w[i]
  BY DEF IsStart
<1>2. w[Len(s) + 1] \in S
  BY <1>1 DEF Lists
<1> DEFINE t == Append(s, w[Len(s) + 1])
<1> HIDE DEF S
<1>3. /\ t \in Seq(S) /\ Len(t) = Len(s) + 1
      /\ \A i \in 1..Len(s) : t[i] = s[i]
      /\ t[Len(s) + 1] = w[Len(s) + 1]
  BY <1>1, <1>2
<1> HIDE DEF t
<1>4. Len(t) <= Len(w) /\ \A i \in 1..Len(t) : t[i] = w[i]
  BY <1>1, <1>3 DEF Lists
<1>5. IsStart(t, w)
  BY <1>3, <1>4 DEF IsStart, S
<1>6. QED
  BY <1>3, <1>5 DEF t

LEMMA StartFront ==
  ASSUME NEW w, Lists(w), NEW s, IsStart(s, w), s # <<>>
  PROVE  /\ Last(s) = w[Len(s)] /\ Len(s) \in Nat \ {0}
         /\ IsStart(Front(s), w) /\ Len(Front(s)) = Len(s) - 1
<1> DEFINE S == {w[i] : i \in DOMAIN w}
<1>1. s \in Seq(S) /\ Len(s) \in Nat \ {0} /\ \A i \in 1..Len(s) : s[i] = w[i]
  BY DEF IsStart
<1>2. Last(s) = w[Len(s)]
  BY <1>1 DEF Last
<1> DEFINE t == Front(s)
<1> HIDE DEF S
<1>3. t \in Seq(S) /\ Len(t) = Len(s) - 1 /\ \A i \in 1..(Len(s) - 1) : t[i] = s[i]
  <2>1. PICK n \in Nat : n = Len(s) - 1 /\ Front(s) = SubSeq(s, 1, n)
    BY <1>1 DEF Front
  <2>2. SubSeq(s, 1, n) \in Seq(S) /\ Len(SubSeq(s, 1, n)) = n
    BY <1>1, <2>1
  <2>3. \A i \in 1..n : SubSeq(s, 1, n)[i] = s[i]
    BY <1>1, <2>1
  <2>4. QED
    BY <2>1, <2>2, <2>3
<1> HIDE DEF t
<1>4. IsStart(t, w)
  BY <1>1, <1>3 DEF IsStart, S
<1>5. QED
  BY <1>1, <1>2, <1>3, <1>4 DEF t

LEMMA StartHolds ==
  ASSUME NEW w, Lists(w), NEW s, IsStart(s, w), NEW k \in 1..Len(w)
  PROVE  (\E i \in DOMAIN s : s[i] = w[k]) <=> k <= Len(s)
<1>1. DOMAIN s = 1..Len(s) /\ Len(s) \in Nat /\ Len(s) <= Len(w) /\ Len(w) \in Nat
  BY StartOf
<1>2. \A i \in 1..Len(s) : s[i] = w[i]
  BY DEF IsStart
<1>3. \A i \in 1..Len(s) : s[i] = w[k] => i = k
  BY <1>1, <1>2 DEF Lists
<1>4. QED
  BY <1>1, <1>2, <1>3

\* What is put in behind the last place is appended.
LEMMA InsertLast ==
  ASSUME NEW w, Lists(w), NEW s, IsStart(s, w), Len(s) < Len(w)
  PROVE  InsertAt(s, Len(s) + 1, w[Len(s) + 1]) = Append(s, w[Len(s) + 1])
<1> DEFINE S == {w[i] : i \in DOMAIN w}
<1>1. s \in Seq(S) /\ Len(s) \in Nat
  BY DEF IsStart
<1>2. w[Len(s) + 1] \in S
  BY <1>1 DEF Lists
<1> HIDE DEF S
<1>3. PICK n \in Nat, p \in S : n = Len(s) /\ p = w[Len(s) + 1]
  BY <1>1, <1>2
<1>4. SubSeq(s, 1, n) = s /\ SubSeq(s, n + 1, n) = <<>>
  BY <1>1, <1>3
<1>5. InsertAt(s, n + 1, p) = (s \o <<p>>) \o <<>>
  <2>1. InsertAt(s, n + 1, p) = SubSeq(s, 1, (n + 1) - 1) \o <<p>> \o SubSeq(s, n + 1, n)
    BY <1>3 DEF InsertAt
  <2>2. (n + 1) - 1 = n
    BY <1>3
  <2>3. QED
    BY <1>4, <2>1, <2>2
<1>6. (s \o <<p>>) \o <<>> = Append(s, p)
  BY <1>1, <1>3
<1>7. QED
  BY <1>3, <1>5, <1>6

\* What every step may rely on.
LEMMA ToApplyFacts ==
  ASSUME TurnInv, urls' = urls
  PROVE  /\ Lists(ToApply) /\ Len(ToApply) \in Nat /\ ToApply' = ToApply
         /\ ToApply = <<>> <=> Len(ToApply) = 0
         /\ \A i \in 1..Len(ToApply) : Kind(ToApply[i]) \in Kinds
         /\ \A p : Kind(p)' = Kind(p)
         /\ NeedDirtyCheck' = NeedDirtyCheck
         /\ Len(<<>>) = 0
         /\ IsStart(<<>>, ToApply) /\ ~IsStart(Whole, ToApply)
         /\ \A s : IsStart(s, ToApply) => /\ Len(s) \in Nat /\ Len(s) <= Len(ToApply) /\ DOMAIN s = 1..Len(s)
                                          /\ Len(s) = 0 <=> s = <<>>
                                          /\ Len(s) >= Len(ToApply) => s = ToApply
                                          /\ \A i \in 1..Len(s) : s[i] = ToApply[i]
<1>1. Lists(ToApply) /\ \A i \in 1..Len(ToApply) : Kind(ToApply[i]) \in Kinds
  BY ToApplyRight DEF TurnInv
<1>2. ToApply' = ToApply /\ \A p : Kind(p)' = Kind(p)
  BY ToApplyStays
<1>3. ToApply = <<>> <=> Len(ToApply) = 0
  BY <1>1 DEF Lists
<1>4. ~IsStart(Whole, ToApply)
  <2> SUFFICES ASSUME IsStart(Whole, ToApply) PROVE FALSE
    OBVIOUS
  <2>1. Len(Whole) = 1 /\ Whole[1] = Nil
    BY DEF Whole
  <2>2. 1 \in 1..Len(ToApply) /\ Whole[1] = ToApply[1]
    BY <1>1, <2>1 DEF IsStart, Lists
  <2>3. QED
    BY <2>1, <2>2, ToApplyRight DEF TurnInv
<1>5. NeedDirtyCheck' = NeedDirtyCheck
  BY DEF NeedDirtyCheck
<1>6. Len(<<>>) = 0
  OBVIOUS
<1>7. QED
  BY <1>1, <1>2, <1>3, <1>4, <1>5, <1>6, StartOf

LEMMA PatchStarts == PatchInit => PatchInv
<1> SUFFICES ASSUME PatchInit PROVE PatchInv
  OBVIOUS
<1>1. /\ urls \in Urls /\ method \in PatchTools /\ starts = 0 /\ verdict = "dead" /\ phase = "off"
      /\ applied = <<>> /\ series = <<>> /\ stack = <<>> /\ commits = <<>> /\ amdir = FALSE
      /\ torn = FALSE /\ head \in {<<>>, Whole} /\ (head = Whole => NeedDirtyCheck)
  <2>1. head \in {<<>>} \cup (IF method = "git" /\ NeedDirtyCheck THEN {Whole} ELSE {})
    BY DEF PatchInit
  <2>2. CASE NeedDirtyCheck
    BY <2>1, <2>2 DEF PatchInit
  <2>3. CASE ~NeedDirtyCheck
    <3>1. <<>> # Whole
      BY DEF Whole
    <3>2. QED
      BY <2>1, <2>3, <3>1 DEF PatchInit
  <2>4. QED
    BY <2>2, <2>3
<1>2. TurnInv
  BY <1>1 DEF TurnInv, Running
<1>3. IsStart(<<>>, ToApply) /\ <<>> \in Seq({ToApply[i] : i \in DOMAIN ToApply}) /\ Len(<<>>) = 0
  BY <1>1, ToApplyRight, StartOf
<1>4. TreeInv
  BY <1>1, <1>3 DEF TreeInv, Begins, Running
<1>5. HeadInv
  BY <1>1, <1>3 DEF HeadInv, HeadInTree, Begins, Running
<1>6. SeriesInv /\ CommitsInv /\ QuiltInv
  BY <1>1, <1>3 DEF SeriesInv, CommitsInv, QuiltInv, Running
<1>7. VerdictEarned
  BY <1>1 DEF VerdictEarned, DoneMeansPatched, FailsForCause
<1>8. QED
  BY <1>2, <1>4, <1>5, <1>6, <1>7 DEF PatchInv

LEMMA BeginKeeps == ASSUME PatchInv, Begin PROVE PatchInv'
<1>1. /\ verdict \in {"dead", "failed"} /\ starts' = starts + 1 /\ verdict' = "running"
      /\ left' = series /\ patches' = <<>> /\ current' = Nil /\ turn' = 1
      /\ phase' = IF SrcPatches(urls) = <<>> THEN "end" ELSE "clean"
      /\ urls' = urls /\ method' = method /\ resolver' = resolver /\ applied' = applied
      /\ series' = series /\ copies' = copies /\ commits' = commits /\ head' = head
      /\ amdir' = amdir /\ stack' = stack
      /\ torn' = IF method = "quilt" THEN StaleSeries ELSE torn
  BY DEF Begin, treeVars
<1>2. ToApply = <<>> <=> SrcPatches(urls) = <<>>
  <2>1. PICK ps : ps = SrcPatches(urls)
    OBVIOUS
  <2>2. ToApply = [i \in DOMAIN ps |-> ps[i].name]
    BY <2>1 DEF ToApply
  <2>3. ps \in Seq({urls[k] : k \in 1..Len(urls)})
    <3> DEFINE S == {urls[i] : i \in DOMAIN urls}
    <3>1. /\ urls \in Seq(S)
          /\ \A i, j \in DOMAIN urls : urls[i].name = urls[j].name => i = j
      BY UrlsAssumption, Zenon DEF PatchInv, TurnInv
    <3> HIDE DEF S
    <3>2. Len(urls) \in Nat /\ DOMAIN urls = 1..Len(urls)
      BY <3>1
    <3>3. QED
      BY <2>1, <3>1, <3>2, ChosenPicked DEF Picked
  <2>4. QED
    BY <2>1, <2>2, <2>3
<1>3. /\ Len(ToApply) \in Nat /\ ToApply' = ToApply /\ IsStart(<<>>, ToApply)
      /\ NeedDirtyCheck' = NeedDirtyCheck /\ Len(<<>>) = 0 /\ ~IsStart(Whole, ToApply)
      /\ ToApply = <<>> <=> Len(ToApply) = 0
      /\ \A s : IsStart(s, ToApply) => /\ Len(s) \in Nat /\ Len(s) <= Len(ToApply)
                                       /\ Len(s) = 0 <=> s = <<>>
  BY <1>1, ToApplyFacts DEF PatchInv
<1>4. TurnInv'
  BY <1>1, <1>2, <1>3 DEF PatchInv, TurnInv, Begins, Running, Taking
<1>5. TreeInv'
  BY <1>1, <1>2, <1>3 DEF PatchInv, TreeInv, HeadInv, Begins, Running, Sound
<1>6. HeadInv'
  BY <1>1, <1>2, <1>3 DEF PatchInv, HeadInv, HeadInTree, Begins, Running, Sound, Taking, Putting
<1>7. SeriesInv'
  BY <1>1, <1>2, <1>3 DEF PatchInv, SeriesInv, TreeInv, HeadInv, Begins, Running, Sound
<1>8. CommitsInv'
  <2> SUFFICES ASSUME method = "git", starts' = 1 PROVE CommitsInv'
    BY <1>1 DEF PatchInv, TurnInv, CommitsInv
  <2>1. /\ applied = <<>> /\ head \in {<<>>, Whole} /\ commits = <<>> /\ series = <<>>
        /\ ~amdir /\ ~torn
    BY <1>1 DEF PatchInv, TurnInv, CommitsInv
  <2>2. <<>> = [i \in DOMAIN <<>> |-> <<>>[i]] /\ Len(<<>>) = 0 /\ DOMAIN <<>> = 1..0
    OBVIOUS
  <2>3. QED
    BY <1>1, <1>2, <1>3, <2>1, <2>2 DEF CommitsInv
<1>9. QuiltInv'
  BY <1>1, <1>2, <1>3 DEF PatchInv, QuiltInv, Running, StaleSeries
<1>10. VerdictEarned'
  BY <1>1 DEF VerdictEarned, DoneMeansPatched, FailsForCause
<1>11. QED
  BY <1>4, <1>5, <1>6, <1>7, <1>8, <1>9, <1>10 DEF PatchInv

LEMMA CleanEndKeeps == ASSUME PatchInv, CleanEnd PROVE PatchInv'
<1>1. /\ verdict = "running" /\ phase = "clean" /\ method # "quilt" /\ left = <<>>
      /\ series' = <<>> /\ phase' = "import"
      /\ urls' = urls /\ method' = method /\ resolver' = resolver /\ applied' = applied /\ copies' = copies
      /\ commits' = commits /\ head' = head /\ amdir' = amdir /\ left' = left /\ patches' = patches
      /\ current' = current /\ turn' = turn /\ starts' = starts /\ torn' = torn /\ verdict' = verdict
  BY DEF CleanEnd
<1>2. /\ Len(ToApply) \in Nat /\ ToApply' = ToApply /\ IsStart(<<>>, ToApply)
      /\ NeedDirtyCheck' = NeedDirtyCheck /\ Len(<<>>) = 0 /\ ~IsStart(Whole, ToApply)
      /\ ToApply = <<>> <=> Len(ToApply) = 0
      /\ \A s : IsStart(s, ToApply) => /\ Len(s) \in Nat /\ Len(s) <= Len(ToApply)
                                       /\ Len(s) = 0 <=> s = <<>>
  BY <1>1, ToApplyFacts DEF PatchInv
<1>3. TurnInv'
  BY <1>1, <1>2 DEF PatchInv, TurnInv, Begins, Running, Taking
<1>4. turn = 1
  BY <1>1, <1>2 DEF PatchInv, TurnInv
<1>5. TreeInv'
  BY <1>1, <1>2, <1>4 DEF PatchInv, TreeInv, Begins, Running, Sound
<1>6. HeadInv'
  BY <1>1, <1>2, <1>4 DEF PatchInv, HeadInv, HeadInTree, Begins, Running, Sound, Taking, Putting
<1>7. SeriesInv'
  BY <1>1, <1>2, <1>4 DEF PatchInv, SeriesInv, Running
<1>8. CommitsInv'
  BY <1>1, <1>2, <1>4 DEF PatchInv, CommitsInv, TurnInv
<1>9. QuiltInv' /\ VerdictEarned'
  BY <1>1 DEF QuiltInv, VerdictEarned, DoneMeansPatched, FailsForCause
<1>10. QED
  BY <1>3, <1>5, <1>6, <1>7, <1>8, <1>9 DEF PatchInv

LEMMA CleanQuiltKeeps == ASSUME PatchInv, CleanQuilt PROVE PatchInv'
<1>1. /\ verdict = "running" /\ phase = "clean" /\ method = "quilt" /\ phase' = "import"
      /\ IF stack = <<>> THEN applied' = applied /\ stack' = stack /\ series' = series
         ELSE applied' = <<>> /\ stack' = <<>> /\ series' = <<>>
      /\ urls' = urls /\ method' = method /\ resolver' = resolver /\ amdir' = amdir
      /\ turn' = turn /\ starts' = starts /\ torn' = torn /\ verdict' = verdict
  BY DEF CleanQuilt
<1>2. /\ ToApply' = ToApply /\ IsStart(<<>>, ToApply) /\ Len(<<>>) = 0
      /\ <<>> \in Seq({ToApply[i] : i \in DOMAIN ToApply})
  BY <1>1, ToApplyFacts DEF PatchInv
<1>3. TurnInv' /\ turn = 1
  BY <1>1, <1>2 DEF PatchInv, TurnInv, Running, Taking
<1>4. TreeInv' /\ SeriesInv' /\ CommitsInv'
  BY <1>1 DEF TreeInv, SeriesInv, CommitsInv
<1>5. HeadInv'
  BY <1>1, <1>2 DEF PatchInv, HeadInv
<1>6. QuiltInv'
  <2> SUFFICES ASSUME resolver = "noop" PROVE QuiltInv'
    BY <1>1 DEF PatchInv, QuiltInv
  <2> DEFINE S == {ToApply[i] : i \in DOMAIN ToApply}
  <2>1. /\ applied = stack /\ series \in Seq(S) /\ (torn <=> StaleSeries)
        /\ ToApply = <<>> => applied = <<>>
        /\ stack = <<>> => \A i \in 1..Len(series) : series[i] = ToApply[1]
    BY <1>1 DEF PatchInv, QuiltInv, Running
  <2> HIDE DEF S
  <2>2. series # <<>> => Len(series) >= 1
    BY <2>1
  <2>3. (torn => stack = <<>> /\ series # <<>>) /\ (~torn => stack # <<>> \/ series = <<>>)
    BY <2>1, Zenon DEF StaleSeries
  <2>4. stack' = <<>> /\ applied' = <<>> /\ series' \in Seq(S) /\ (torn => Len(series') >= 1)
        /\ (~torn => series' = <<>>) /\ \A i \in 1..Len(series') : series'[i] = ToApply[1]
    <3>1. CASE stack = <<>>
      BY <1>1, <2>1, <2>2, <2>3, <3>1
    <3>2. CASE stack # <<>>
      <4>1. <<>> \in Seq(S)
        BY <1>2 DEF S
      <4>2. ~torn /\ stack' = <<>> /\ applied' = <<>> /\ series' = <<>>
        BY <1>1, <2>3, <3>2, Zenon
      <4>3. QED
        BY <1>2, <4>1, <4>2
    <3>3. QED
      BY <3>1, <3>2
  <2>5. QED
    BY <1>1, <1>2, <1>3, <2>1, <2>4 DEF QuiltInv, Begins, Running, S
<1>7. VerdictEarned'
  BY <1>1 DEF VerdictEarned, DoneMeansPatched, FailsForCause
<1>8. QED
  BY <1>3, <1>4, <1>5, <1>6, <1>7 DEF PatchInv

LEMMA InterruptKeeps == ASSUME PatchInv, Interrupt PROVE PatchInv'
<1>1. /\ verdict = "running" /\ verdict' = "dead" /\ torn' = (torn \/ Torn)
      /\ urls' = urls /\ method' = method /\ resolver' = resolver /\ applied' = applied
      /\ series' = series /\ copies' = copies /\ stack' = stack /\ commits' = commits
      /\ head' = head /\ amdir' = amdir /\ left' = left /\ patches' = patches
      /\ current' = current /\ turn' = turn /\ phase' = phase /\ starts' = starts
  BY DEF Interrupt, treeVars, memVars
<1>2. ToApply' = ToApply /\ NeedDirtyCheck' = NeedDirtyCheck /\ ~IsStart(Whole, ToApply)
  BY <1>1, ToApplyFacts DEF PatchInv
<1>3. TurnInv'
  BY <1>1, <1>2 DEF PatchInv, TurnInv, Running
<1>4. TreeInv' /\ HeadInv'
  <2>1. (Sound' => Sound) /\ (Torn /\ NeedDirtyCheck /\ method = "git" => ~Sound')
    BY <1>1, <1>2 DEF Sound
  <2>2. TreeInv'
    BY <1>1, <1>2, <2>1 DEF PatchInv, TreeInv, Begins, Running
  <2>3. phase \in {"copy", "commit", "abort"} => Torn
    BY DEF Torn
  <2>4. Running(Putting) \/ Running({"clean"} \cup Taking \cup {"abort"}) \/ method # "git"
    BY <1>1, PatchToolsAssumption DEF PatchInv, TurnInv, Running, Putting, Taking
  <2>5. HeadInv'
    BY <1>1, <1>2, <2>1, <2>3, <2>4 DEF PatchInv, HeadInv, HeadInTree, Begins, Running, Taking, Putting
  <2>6. QED
    BY <2>2, <2>5
<1>5. SeriesInv'
  <2> SUFFICES ASSUME method = "patch", ~torn' PROVE SeriesInv'
    BY <1>1 DEF SeriesInv
  <2>1. ~torn /\ phase \notin {"record", "copy"} /\ (phase = "clean" => left = series)
    BY <1>1 DEF Torn
  <2>2. phase \in {"clean", "import", "push", "end"}
    BY <1>1, <2>1 DEF PatchInv, TurnInv
  <2>3. series = applied /\ \A i \in 1..Len(applied) : applied[i] \in copies
    BY <1>1, <2>1, <2>2 DEF PatchInv, SeriesInv, Running
  <2>4. QED
    BY <1>1, <2>3 DEF SeriesInv, Running
<1>6. CommitsInv' /\ QuiltInv'
  BY <1>1, <1>2 DEF PatchInv, TurnInv, CommitsInv, QuiltInv, Running
<1>7. VerdictEarned'
  BY <1>1 DEF VerdictEarned, DoneMeansPatched, FailsForCause
<1>8. QED
  BY <1>3, <1>4, <1>5, <1>6, <1>7 DEF PatchInv

\* Push takes the patch the loop is at.
LEMMA PushedRight ==
  ASSUME PatchInv, verdict = "running", method # "quilt",
         phase \notin {"clean", "import", "end"} \cup Taking
  PROVE  /\ Pushed = ToApply[turn] /\ turn \in 1..Len(ToApply)
         /\ IsStart(patches, ToApply) /\ Len(patches) = turn
         /\ (IF current = Nil THEN 0 ELSE current + 1) = turn - 1
<1>1. /\ turn \in 1..(Len(ToApply) + 1) /\ turn <= Len(ToApply)
      /\ Begins(patches) /\ Len(patches) = turn
      /\ current = IF turn = 1 THEN Nil ELSE turn - 2
  BY DEF PatchInv, TurnInv, Taking
<1>2. Lists(ToApply)
  BY ToApplyRight DEF PatchInv, TurnInv
<1>3. turn \in 1..Len(ToApply) /\ IsStart(patches, ToApply)
  BY <1>1, <1>2 DEF Lists, Begins
<1>4. (IF current = Nil THEN 0 ELSE current + 1) = turn - 1
  BY <1>1, <1>2, NilAssumption DEF Lists
<1>5. Pushed = patches[turn - 1 + 1]
  BY <1>4 DEF Pushed
<1>6. patches[turn] = ToApply[turn]
  BY <1>1, <1>2, <1>3, StartOf
<1>7. turn - 1 + 1 = turn
  BY <1>2, <1>3 DEF Lists
<1>8. QED
  BY <1>1, <1>3, <1>4, <1>5, <1>6, <1>7

LEMMA CleanStepKeeps == ASSUME PatchInv, CleanStep PROVE PatchInv'
<1> DEFINE p == Last(left)
           gone == p \notin copies
<1>1. /\ verdict = "running" /\ phase = "clean" /\ method = "patch" /\ left # <<>>
      /\ urls' = urls /\ method' = method /\ resolver' = resolver /\ series' = series
      /\ copies' = copies /\ stack' = stack /\ amdir' = amdir /\ patches' = patches
      /\ current' = current /\ turn' = turn /\ starts' = starts /\ torn' = torn
  BY DEF CleanStep
<1>2. /\ Lists(ToApply) /\ Len(ToApply) \in Nat /\ ToApply' = ToApply
      /\ \A s : IsStart(s, ToApply) => Len(s) \in Nat /\ Len(s) <= Len(ToApply)
  BY <1>1, ToApplyFacts DEF PatchInv
<1>3. IsStart(applied, ToApply) /\ ~amdir
  BY <1>1 DEF PatchInv, TreeInv, HeadInv, Begins, Sound
<1>4. starts # 0
  BY <1>1 DEF PatchInv, TurnInv
<1>5. ~torn => left = applied /\ p \in copies /\ TopIs(p)
  <2> SUFFICES ASSUME ~torn PROVE left = applied /\ p \in copies /\ TopIs(p)
    OBVIOUS
  <2>1. /\ IsStart(series, ToApply) /\ left = applied /\ Len(left) <= Len(series)
        /\ \A i \in 1..Len(series) : series[i] \in copies
    BY <1>1 DEF PatchInv, SeriesInv, Running, Begins
  <2>2. p = ToApply[Len(left)] /\ Len(left) \in Nat \ {0}
    BY <1>1, <1>2, <1>3, <2>1, StartFront
  <2>3. Len(left) \in 1..Len(series) /\ series[Len(left)] = ToApply[Len(left)]
    BY <1>2, <2>1, <2>2, StartOf
  <2>4. QED
    BY <1>1, <2>1, <2>2, <2>3 DEF TopIs
<1>6. HeadInv' /\ CommitsInv' /\ QuiltInv'
  BY <1>1, <1>2, <1>3 DEF HeadInv, CommitsInv, QuiltInv
<1>7. CASE gone \/ TopIs(p)
  <2>1. /\ applied' = IF gone THEN applied ELSE Front(applied)
        /\ left' = Front(left) /\ phase' = phase /\ verdict' = verdict
    BY <1>7 DEF CleanStep
  <2>2. IsStart(applied', ToApply)
    BY <1>2, <1>3, <1>7, <2>1, StartFront DEF TopIs
  <2>3. TurnInv'
    BY <1>1, <1>2, <2>1 DEF PatchInv, TurnInv, Begins, Running, Taking
  <2>4. TreeInv'
    BY <1>1, <1>2, <2>1, <2>2 DEF TreeInv, Begins, Running
  <2>5. SeriesInv'
    <3> SUFFICES ASSUME ~torn PROVE SeriesInv'
      BY <1>1 DEF SeriesInv
    <3>1. left' = applied' /\ Len(left') = Len(left) - 1 /\ Len(left) \in Nat
      BY <1>1, <1>2, <1>3, <1>5, <2>1, StartFront
    <3>2. IsStart(series, ToApply) /\ Len(left) <= Len(series) /\ \A i \in 1..Len(series) : series[i] \in copies
      BY <1>1 DEF PatchInv, SeriesInv, Running, Begins
    <3>3. Len(left') <= Len(series)
      BY <1>2, <3>1, <3>2
    <3>4. QED
      BY <1>1, <1>2, <2>1, <3>1, <3>2, <3>3 DEF SeriesInv, Running, Begins
  <2>6. VerdictEarned'
    BY <1>1, <2>1 DEF VerdictEarned, DoneMeansPatched, FailsForCause
  <2>7. QED
    BY <1>6, <2>3, <2>4, <2>5, <2>6 DEF PatchInv
<1>8. CASE ~(gone \/ TopIs(p))
  <2>1. verdict' = "failed" /\ phase' = "off" /\ applied' = applied /\ left' = left
    BY <1>8 DEF CleanStep
  <2>2. torn
    BY <1>5, <1>8
  <2>3. TurnInv'
    BY <1>1, <1>2, <1>4, <2>1 DEF PatchInv, TurnInv, Begins, Running
  <2>4. TreeInv'
    BY <1>1, <1>2, <1>3, <2>1 DEF TreeInv, Begins, Running
  <2>5. SeriesInv'
    BY <1>1, <2>2 DEF SeriesInv
  <2>6. VerdictEarned'
    BY <1>1, <2>1, <2>2 DEF VerdictEarned, DoneMeansPatched, FailsForCause
  <2>7. QED
    BY <1>6, <2>3, <2>4, <2>5, <2>6 DEF PatchInv
<1>9. QED
  BY <1>7, <1>8

LEMMA ImportKeeps == ASSUME PatchInv, Import PROVE PatchInv'
<1>1. /\ verdict = "running" /\ phase = "import"
      /\ urls' = urls /\ method' = method /\ resolver' = resolver /\ applied' = applied
      /\ stack' = stack /\ commits' = commits /\ head' = head /\ amdir' = amdir /\ left' = left
      /\ current' = current /\ turn' = turn /\ starts' = starts /\ torn' = torn /\ verdict' = verdict
  BY DEF Import
<1>2. /\ Lists(ToApply) /\ Len(ToApply) \in Nat /\ ToApply' = ToApply
      /\ ToApply = <<>> <=> Len(ToApply) = 0
      /\ NeedDirtyCheck' = NeedDirtyCheck
      /\ \A s : IsStart(s, ToApply) => /\ Len(s) \in Nat /\ Len(s) <= Len(ToApply)
                                       /\ Len(s) = 0 <=> s = <<>>
                                       /\ Len(s) >= Len(ToApply) => s = ToApply
  BY <1>1, ToApplyFacts DEF PatchInv
<1>3. turn \in 1..(Len(ToApply) + 1) /\ ToApply # <<>>
  BY <1>1 DEF PatchInv, TurnInv
<1>4. VerdictEarned'
  BY <1>1 DEF VerdictEarned, DoneMeansPatched, FailsForCause
<1>5. CASE turn > Len(ToApply)
  <2>1. phase' = "end" /\ patches' = patches /\ series' = series /\ copies' = copies
    BY <1>5 DEF Import
  <2>2. turn = Len(ToApply) + 1 /\ turn > 1
    BY <1>2, <1>3, <1>5
  <2>3. TurnInv'
    BY <1>1, <1>2, <2>1 DEF PatchInv, TurnInv, Running, Taking
  <2>4. TreeInv' /\ HeadInv'
    <3>1. TreeInv'
      BY <1>1, <1>2, <2>1, <2>2 DEF PatchInv, TreeInv, Begins, Running, Sound
    <3>2. HeadInv'
      BY <1>1, <1>2, <2>1, <2>2 DEF PatchInv, HeadInv, HeadInTree, Begins, Running, Sound, Taking, Putting
    <3>3. QED
      BY <3>1, <3>2
  <2>5. SeriesInv'
    BY <1>1, <2>1 DEF PatchInv, SeriesInv, Running
  <2>6. CommitsInv'
    BY <1>1, <1>2, <2>1, <2>2 DEF PatchInv, CommitsInv, TurnInv
  <2>7. QuiltInv'
    <3>1. method = "quilt" /\ resolver = "noop" => applied = ToApply /\ applied = stack
      BY <1>1, <1>2, <2>2 DEF PatchInv, QuiltInv, Begins, Running
    <3>2. QED
      BY <1>1, <1>2, <2>1, <3>1 DEF PatchInv, QuiltInv, Begins, Running
  <2>8. QED
    BY <1>4, <2>3, <2>4, <2>5, <2>6, <2>7 DEF PatchInv
<1>6. CASE ~(turn > Len(ToApply))
  <2>1. /\ patches' = InsertAt(patches, Min({ImportPlace(current), Len(patches)}) + 1, ToApply[turn])
        /\ phase' = "push"
        /\ IF method = "quilt" THEN series' = Append(series, ToApply[turn])
                               ELSE series' = series /\ copies' = copies
    BY <1>6 DEF Import
  <2>2. turn \in 1..Len(ToApply)
    BY <1>2, <1>3, <1>6
  <2>3. method # "quilt" => Begins(patches)' /\ Len(patches') = turn
    <3> SUFFICES ASSUME method # "quilt" PROVE Begins(patches)' /\ Len(patches') = turn
      OBVIOUS
    <3>1. /\ IsStart(patches, ToApply) /\ Len(patches) = turn - 1
          /\ current = IF turn = 1 THEN Nil ELSE turn - 2
      BY <1>1 DEF PatchInv, TurnInv, Begins, Taking
    <3>2. ImportPlace(current) = turn - 1
      BY <1>2, <2>2, <3>1, NilAssumption DEF ImportPlace
    <3>3. Min({turn - 1, turn - 1}) = turn - 1
      BY <1>2, <2>2 DEF Min
    <3>4. PICK n \in Nat : n = Len(patches) /\ n = turn - 1 /\ n + 1 = turn
      BY <1>2, <2>2, <3>1
    <3>5. patches' = InsertAt(patches, n + 1, ToApply[n + 1])
      BY <2>1, <3>1, <3>2, <3>3, <3>4
    <3>6. patches' = Append(patches, ToApply[n + 1])
      BY <1>2, <2>2, <3>1, <3>4, <3>5, InsertLast
    <3>7. IsStart(patches', ToApply) /\ Len(patches') = n + 1
      BY <1>2, <2>2, <3>1, <3>4, <3>6, StartAppend
    <3>8. QED
      BY <1>2, <3>4, <3>7 DEF Begins
  <2>4. TurnInv'
    BY <1>1, <1>2, <1>3, <2>1, <2>2, <2>3 DEF PatchInv, TurnInv, Running, Taking
  <2>5. TreeInv' /\ HeadInv'
    <3>1. TreeInv'
      BY <1>1, <1>2, <2>1 DEF PatchInv, TreeInv, Begins, Running, Sound
    <3>2. HeadInv'
      BY <1>1, <1>2, <2>1 DEF PatchInv, HeadInv, HeadInTree, Begins, Running, Sound, Taking, Putting
    <3>3. QED
      BY <3>1, <3>2
  <2>6. SeriesInv'
    BY <1>1, <2>1 DEF PatchInv, SeriesInv, Running
  <2>7. CommitsInv'
    BY <1>1, <1>2, <2>1 DEF PatchInv, CommitsInv, TurnInv
  <2>8. QuiltInv'
    <3> SUFFICES ASSUME method = "quilt", resolver = "noop" PROVE QuiltInv'
      BY <1>1 DEF PatchInv, QuiltInv
    <3> DEFINE S == {ToApply[i] : i \in DOMAIN ToApply}
    <3>1. /\ applied = stack /\ IsStart(stack, ToApply) /\ Len(stack) = turn - 1 /\ series \in Seq(S)
          /\ stack = <<>> => \A i \in 1..Len(series) : series[i] = ToApply[1]
          /\ ~torn => IsStart(series, ToApply) /\ Len(series) = turn - 1
          /\ torn => \/ turn = 1 /\ Len(series) >= 1
                     \/ turn = 2 /\ series[2] = ToApply[1] /\ Len(series) >= 2
      BY <1>1 DEF PatchInv, QuiltInv, Begins, Running
    <3>2. ToApply[turn] \in S
      BY <1>2, <2>2 DEF Lists
    <3> HIDE DEF S
    <3>3. /\ series' = Append(series, ToApply[turn]) /\ series' \in Seq(S)
          /\ Len(series) \in Nat /\ Len(series') = Len(series) + 1
          /\ \A i \in 1..Len(series) : series'[i] = series[i]
          /\ series'[Len(series) + 1] = ToApply[turn]
      <4>1. series' = Append(series, ToApply[turn])
        BY <2>1
      <4>2. series \in Seq(S) /\ ToApply[turn] \in S
        BY <3>1, <3>2
      <4>3. QED
        BY <4>1, <4>2
    <3>4. stack = <<>> => \A i \in 1..Len(series') : series'[i] = ToApply[1]
      <4> SUFFICES ASSUME stack = <<>>, NEW i \in 1..Len(series') PROVE series'[i] = ToApply[1]
        OBVIOUS
      <4>1. turn = 1
        BY <1>2, <2>2, <3>1
      <4>2. CASE i = Len(series) + 1
        BY <3>3, <4>1, <4>2
      <4>3. CASE i \in 1..Len(series)
        BY <3>1, <3>3, <4>3
      <4>4. QED
        BY <3>3, <4>2, <4>3
    <3>5. ~torn => IsStart(series', ToApply) /\ Len(series') = turn
      <4> SUFFICES ASSUME ~torn PROVE IsStart(series', ToApply) /\ Len(series') = turn
        OBVIOUS
      <4>1. PICK n \in Nat : n = Len(series) /\ n + 1 = turn
        BY <1>2, <2>2, <3>1
      <4>2. series' = Append(series, ToApply[Len(series) + 1])
        BY <3>3, <4>1
      <4>3. IsStart(series', ToApply) /\ Len(series') = Len(series) + 1
        BY <1>2, <2>2, <3>1, <4>1, <4>2, StartAppend
      <4>4. QED
        BY <4>1, <4>3
    <3>6. torn => \/ turn = 1 /\ Len(series') >= 2
                  \/ turn = 2 /\ series'[2] = ToApply[1] /\ Len(series') >= 2
      BY <3>1, <3>3
    <3>7. QED
      BY <1>1, <1>2, <1>3, <2>1, <3>1, <3>3, <3>4, <3>5, <3>6 DEF QuiltInv, Begins, Running, S
  <2>9. QED
    BY <1>4, <2>4, <2>5, <2>6, <2>7, <2>8 DEF PatchInv
<1>7. QED
  BY <1>5, <1>6

LEMMA ApplyPatchKeeps == ASSUME PatchInv, ApplyPatch PROVE PatchInv'
<1>1. /\ verdict = "running" /\ phase = (IF method = "patch" THEN "push" ELSE "fallback")
      /\ method # "quilt"
      /\ urls' = urls /\ method' = method /\ resolver' = resolver /\ series' = series
      /\ copies' = copies /\ stack' = stack /\ commits' = commits /\ head' = head
      /\ amdir' = amdir /\ left' = left /\ patches' = patches /\ current' = current
      /\ turn' = turn /\ starts' = starts /\ torn' = torn
  BY DEF ApplyPatch
<1>2. /\ Lists(ToApply) /\ Len(ToApply) \in Nat /\ ToApply' = ToApply
      /\ \A i \in 1..Len(ToApply) : Kind(ToApply[i]) \in Kinds
      /\ NeedDirtyCheck' = NeedDirtyCheck /\ ~IsStart(Whole, ToApply)
      /\ \A s : IsStart(s, ToApply) => Len(s) \in Nat /\ Len(s) <= Len(ToApply)
  BY <1>1, ToApplyFacts DEF PatchInv
<1>3. \/ method = "patch" /\ phase = "push"
      \/ method = "git" /\ phase = "fallback"
  BY <1>1, PatchToolsAssumption DEF PatchInv, TurnInv, Taking
<1>4. Pushed = ToApply[turn] /\ turn \in 1..Len(ToApply)
  BY <1>1, <1>3, PushedRight DEF Taking
<1>5. /\ method = "patch" => Sound
      /\ Sound => /\ ~amdir /\ IsStart(applied, ToApply) /\ Len(applied) \in Nat
                  /\ Len(applied) >= turn - 1
  <2>1. method = "patch" => Sound /\ ~amdir
    BY DEF PatchInv, HeadInv, Sound
  <2>2. Sound => ~amdir
    BY <1>1, <1>3, <2>1 DEF PatchInv, HeadInv, Running
  <2>3. Sound => Begins(applied)
    BY <1>1, <1>3, <2>2 DEF PatchInv, TreeInv
  <2>4. Sound => Len(applied) >= turn - 1 \/ turn = 1
    BY <1>1, <1>2, <1>3, <1>4 DEF PatchInv, TreeInv, Running
  <2>5. QED
    BY <1>2, <2>1, <2>2, <2>3, <2>4 DEF Begins
<1>6. Sound => (InTree(Pushed) <=> turn <= Len(applied))
  BY <1>2, <1>4, <1>5, StartHolds DEF InTree, In
<1>7. starts # 0
  BY <1>1 DEF PatchInv, TurnInv
<1>8. CASE DryRunOk(Pushed)
  <2>1. applied' = Append(applied, Pushed) /\ phase' = "record" /\ verdict' = verdict
    BY <1>8 DEF ApplyPatch
  <2>2. Sound => Len(applied) = turn - 1
    BY <1>4, <1>5, <1>6, <1>8 DEF DryRunOk
  <2>3. ASSUME Sound
        PROVE  IsStart(applied', ToApply) /\ Len(applied') = turn
    <3>1. PICK n \in Nat : n = Len(applied) /\ n + 1 = turn
      BY <1>4, <1>5, <2>2, <2>3
    <3>2. applied' = Append(applied, ToApply[Len(applied) + 1])
      BY <1>4, <2>1, <3>1
    <3>3. IsStart(applied', ToApply) /\ Len(applied') = Len(applied) + 1
      BY <1>2, <1>4, <1>5, <2>3, <3>1, <3>2, StartAppend
    <3>4. QED
      BY <3>1, <3>3
  <2>4. TurnInv'
    BY <1>1, <1>2, <1>3, <2>1 DEF PatchInv, TurnInv, Begins, Running, Taking
  <2>5. TreeInv'
    BY <1>1, <1>2, <2>1, <2>3 DEF TreeInv, Begins, Running, Sound
  <2>6. HeadInv'
    <3>1. CASE method = "patch"
      BY <1>1, <1>2, <3>1 DEF PatchInv, HeadInv
    <3>2. CASE method = "git"
      <4>1. Sound => (HeadInTree => HeadInTree')
        BY <1>1, <1>2, <1>4, <1>5, <2>2, <2>3 DEF HeadInTree
      <4>2. QED
        BY <1>1, <1>2, <1>3, <1>5, <2>1, <3>2, <4>1 DEF PatchInv, HeadInv, Begins, Running, Sound, Taking, Putting
    <3>3. QED
      BY <1>3, <3>1, <3>2
  <2>7. SeriesInv'
    <3> SUFFICES ASSUME method = "patch", ~torn PROVE SeriesInv'
      BY <1>1 DEF SeriesInv
    <3>1. series = applied /\ \A i \in 1..Len(applied) : applied[i] \in copies
      BY <1>1 DEF PatchInv, SeriesInv
    <3>2. QED
      BY <1>1, <1>2, <1>5, <2>1, <2>2, <3>1 DEF SeriesInv, Begins, Running, Sound
  <2>8. CommitsInv'
    BY <1>1, <1>2, <1>3, <1>7, <2>1 DEF PatchInv, CommitsInv
  <2>9. QuiltInv' /\ VerdictEarned'
    BY <1>1, <2>1 DEF QuiltInv, VerdictEarned, DoneMeansPatched, FailsForCause
  <2>10. QED
    BY <2>4, <2>5, <2>6, <2>7, <2>8, <2>9 DEF PatchInv
<1>9. CASE ~DryRunOk(Pushed)
  <2>1. applied' = applied /\ phase' = "off" /\ verdict' = "failed"
    BY <1>9 DEF ApplyPatch
  <2>2. TurnInv'
    BY <1>1, <1>2, <1>7, <2>1 DEF PatchInv, TurnInv, Running
  <2>3. TreeInv' /\ HeadInv'
    <3>1. TreeInv'
      BY <1>1, <1>2, <2>1 DEF PatchInv, TreeInv, Begins, Running, Sound
    <3>2. HeadInv'
      BY <1>1, <1>2, <1>3, <1>5, <2>1, ToApplyFacts DEF PatchInv, HeadInv, HeadInTree, Begins, Running, Sound, Taking, Putting
    <3>3. QED
      BY <3>1, <3>2
  <2>4. SeriesInv'
    BY <1>1, <2>1 DEF PatchInv, SeriesInv, Running
  <2>5. CommitsInv' /\ QuiltInv'
    BY <1>1, <1>7, <2>1 DEF CommitsInv, QuiltInv
  <2>6. ASSUME ~torn, method = "git" => starts = 1 PROVE Kind(ToApply[turn]) = "broken"
    <3>1. Len(applied) = turn - 1
      <4>1. CASE method = "patch"
        BY <1>1, <1>3, <2>6, <4>1 DEF PatchInv, SeriesInv, Running
      <4>2. CASE method = "git"
        BY <1>1, <1>3, <2>6, <4>2 DEF PatchInv, CommitsInv
      <4>3. QED
        BY <1>3, <4>1, <4>2
    <3>2. ~InTree(Pushed)
      BY <1>4, <1>5, <1>6, <2>6, <3>1 DEF Sound
    <3>3. QED
      <4>1. applied # Whole
        BY <1>2, <1>5, <2>6 DEF Sound
      <4>2. QED
        BY <1>4, <1>9, <3>2, <4>1 DEF DryRunOk
  <2>7. DOMAIN ToApply = 1..Len(ToApply)
    BY <1>2 DEF Lists
  <2>8. VerdictEarned'
    BY <1>1, <1>2, <1>4, <2>1, <2>6, <2>7, ToApplyFacts DEF PatchInv, VerdictEarned, DoneMeansPatched, FailsForCause
  <2>9. QED
    BY <2>2, <2>3, <2>4, <2>5, <2>8 DEF PatchInv
<1>10. QED
  BY <1>8, <1>9

LEMMA RecordSeriesKeeps == ASSUME PatchInv, RecordSeries PROVE PatchInv'
<1>1. /\ verdict = "running" /\ phase = "record"
      /\ series' = Append(series, Pushed) /\ phase' = "copy"
      /\ urls' = urls /\ method' = method /\ resolver' = resolver /\ applied' = applied
      /\ copies' = copies /\ stack' = stack /\ commits' = commits /\ head' = head
      /\ amdir' = amdir /\ left' = left /\ patches' = patches /\ current' = current
      /\ turn' = turn /\ starts' = starts /\ torn' = torn /\ verdict' = verdict
  BY DEF RecordSeries
<1>2. /\ Lists(ToApply) /\ Len(ToApply) \in Nat /\ ToApply' = ToApply
      /\ NeedDirtyCheck' = NeedDirtyCheck
      /\ \A s : IsStart(s, ToApply) => Len(s) \in Nat /\ Len(s) <= Len(ToApply)
  BY <1>1, ToApplyFacts DEF PatchInv
<1>3. method # "quilt" /\ method \in {"patch", "git"} /\ starts # 0
  BY <1>1, PatchToolsAssumption DEF PatchInv, TurnInv
<1>4. Pushed = ToApply[turn] /\ turn \in 1..Len(ToApply)
  BY <1>1, <1>3, PushedRight DEF Taking
<1>5. TurnInv'
  BY <1>1, <1>2, <1>3 DEF PatchInv, TurnInv, Begins, Running, Taking
<1>6. TreeInv' /\ HeadInv'
  <2>1. TreeInv'
    BY <1>1, <1>2 DEF PatchInv, TreeInv, Begins, Running, Sound
  <2>2. HeadInv'
    BY <1>1, <1>2 DEF PatchInv, HeadInv, HeadInTree, Begins, Running, Sound, Taking, Putting
  <2>3. QED
    BY <2>1, <2>2
<1>7. SeriesInv'
  <2> SUFFICES ASSUME method = "patch", ~torn PROVE SeriesInv'
    BY <1>1 DEF SeriesInv
  <2>1. /\ IsStart(series, ToApply) /\ Len(series) = turn - 1
        /\ \A i \in 1..Len(series) : series[i] \in copies
    BY <1>1 DEF PatchInv, SeriesInv, Begins, Running
  <2>2. IsStart(applied, ToApply) /\ Len(applied) = turn
    BY <1>1, <1>3 DEF PatchInv, TreeInv, HeadInv, Begins, Running, Sound
  <2>3. PICK n \in Nat : n = Len(series) /\ n + 1 = turn
    BY <1>4, <2>1
  <2>4. series' = Append(series, ToApply[Len(series) + 1])
    BY <1>1, <1>4, <2>3
  <2>5. /\ IsStart(series', ToApply) /\ Len(series') = Len(series) + 1
        /\ \A i \in 1..Len(series) : series'[i] = series[i]
    BY <1>2, <1>4, <2>1, <2>3, <2>4, StartAppend
  <2>6. series' = applied
    BY <1>2, <2>2, <2>3, <2>5, SameStart
  <2>7. \A i \in 1..(Len(series') - 1) : series'[i] \in copies
    BY <2>1, <2>3, <2>5
  <2>8. QED
    BY <1>1, <2>6, <2>7 DEF SeriesInv, Running
<1>8. CommitsInv'
  BY <1>1, <1>2, <1>3 DEF PatchInv, CommitsInv
<1>9. QuiltInv' /\ VerdictEarned'
  BY <1>1, <1>3 DEF QuiltInv, VerdictEarned, DoneMeansPatched, FailsForCause
<1>10. QED
  BY <1>5, <1>6, <1>7, <1>8, <1>9 DEF PatchInv

LEMMA RecordCopyKeeps == ASSUME PatchInv, RecordCopy PROVE PatchInv'
<1>1. /\ verdict = "running" /\ phase = "copy" /\ copies' = copies \cup {Pushed}
      /\ urls' = urls /\ method' = method /\ resolver' = resolver /\ applied' = applied
      /\ series' = series /\ stack' = stack /\ commits' = commits /\ head' = head
      /\ amdir' = amdir /\ left' = left /\ patches' = patches
      /\ starts' = starts /\ torn' = torn /\ verdict' = verdict
  BY DEF RecordCopy
<1>2. /\ Lists(ToApply) /\ Len(ToApply) \in Nat /\ ToApply' = ToApply
      /\ NeedDirtyCheck' = NeedDirtyCheck
      /\ \A s : IsStart(s, ToApply) => Len(s) \in Nat /\ Len(s) <= Len(ToApply)
  BY <1>1, ToApplyFacts DEF PatchInv
<1>3. method # "quilt" /\ method \in {"patch", "git"} /\ starts # 0
  BY <1>1, PatchToolsAssumption DEF PatchInv, TurnInv
<1>4. /\ Pushed = ToApply[turn] /\ turn \in 1..Len(ToApply) /\ Len(patches) = turn
      /\ (IF current = Nil THEN 0 ELSE current + 1) = turn - 1
  BY <1>1, <1>3, PushedRight DEF Taking
<1>5. method = "patch" => IsStart(applied, ToApply) /\ Len(applied) = turn
  BY <1>1, <1>3 DEF PatchInv, TreeInv, HeadInv, Begins, Running, Sound
<1>6. VerdictEarned' /\ QuiltInv'
  BY <1>1, <1>3 DEF QuiltInv, VerdictEarned, DoneMeansPatched, FailsForCause
<1>7. CASE method = "git"
  <2>1. phase' = "commit" /\ current' = current /\ turn' = turn
    BY <1>7 DEF RecordCopy
  <2>2. TurnInv'
    BY <1>1, <1>2, <1>3, <1>7, <2>1 DEF PatchInv, TurnInv, Begins, Running, Taking
  <2>3. TreeInv' /\ HeadInv'
    <3>1. TreeInv'
      BY <1>1, <1>2, <1>3, <2>1 DEF PatchInv, TreeInv, Begins, Running, Sound
    <3>2. HeadInv'
      BY <1>1, <1>2, <1>3, <2>1 DEF PatchInv, HeadInv, HeadInTree, Begins, Running, Sound, Taking, Putting
    <3>3. QED
      BY <3>1, <3>2
  <2>4. SeriesInv'
    BY <1>1, <1>7 DEF SeriesInv
  <2>5. CommitsInv'
    BY <1>1, <1>2, <1>3, <2>1 DEF PatchInv, CommitsInv
  <2>6. QED
    BY <1>6, <2>2, <2>3, <2>4, <2>5 DEF PatchInv
<1>8. CASE method = "patch"
  <2>1. phase' = "import" /\ current' = turn - 1 /\ turn' = turn + 1
    BY <1>4, <1>8 DEF RecordCopy, Advance
  <2>2. turn' # 1 /\ turn' - 2 = turn - 1 /\ turn' - 1 = turn
    BY <1>2, <1>4, <2>1
  <2>3. TurnInv'
    BY <1>1, <1>2, <1>3, <1>4, <1>8, <2>1, <2>2 DEF PatchInv, TurnInv, Begins, Running, Taking
  <2>4. TreeInv' /\ HeadInv'
    BY <1>1, <1>2, <1>4, <1>5, <1>8, <2>1, <2>2 DEF PatchInv, TreeInv, HeadInv, Begins, Running, Sound
  <2>5. SeriesInv'
    <3> SUFFICES ASSUME ~torn PROVE SeriesInv'
      BY <1>1 DEF SeriesInv
    <3>1. series = applied /\ \A i \in 1..(Len(series) - 1) : series[i] \in copies
      BY <1>1, <1>8 DEF PatchInv, SeriesInv, Running
    <3>2. applied[turn] = ToApply[turn]
      BY <1>2, <1>4, <1>5, <1>8, StartOf
    <3>3. \A i \in 1..Len(applied) : applied[i] \in copies'
      BY <1>1, <1>4, <1>5, <1>8, <3>1, <3>2
    <3>4. QED
      BY <1>1, <1>5, <1>8, <2>1, <2>2, <3>1, <3>3 DEF SeriesInv, Running
  <2>6. CommitsInv'
    BY <1>1, <1>8 DEF CommitsInv
  <2>7. QED
    BY <1>6, <2>3, <2>4, <2>5, <2>6 DEF PatchInv
<1>9. QED
  BY <1>3, <1>7, <1>8

LEMMA EndKeeps == ASSUME PatchInv, End PROVE PatchInv'
<1>1. /\ verdict = "running" /\ phase = "end" /\ verdict' = "done" /\ phase' = "off"
      /\ urls' = urls /\ method' = method /\ resolver' = resolver /\ applied' = applied
      /\ series' = series /\ copies' = copies /\ stack' = stack /\ commits' = commits
      /\ head' = head /\ amdir' = amdir /\ left' = left /\ patches' = patches
      /\ current' = current /\ turn' = turn /\ starts' = starts /\ torn' = torn
  BY DEF End, treeVars
<1>2. /\ Lists(ToApply) /\ Len(ToApply) \in Nat /\ ToApply' = ToApply
      /\ NeedDirtyCheck' = NeedDirtyCheck
      /\ \A s : IsStart(s, ToApply) => /\ Len(s) \in Nat /\ Len(s) <= Len(ToApply)
                                       /\ Len(s) >= Len(ToApply) => s = ToApply
  BY <1>1, ToApplyFacts DEF PatchInv
<1>3. starts # 0 /\ method \in {"patch", "git", "quilt"}
  BY <1>1, PatchToolsAssumption DEF PatchInv, TurnInv
<1>4. TurnInv'
  BY <1>1, <1>2, <1>3 DEF PatchInv, TurnInv, Running
<1>5. TreeInv' /\ HeadInv'
  <2>1. TreeInv'
    BY <1>1, <1>2 DEF PatchInv, TreeInv, Begins, Running, Sound
  <2>2. HeadInv'
    BY <1>1, <1>2, <1>3 DEF PatchInv, HeadInv, HeadInTree, Begins, Running, Sound, Taking, Putting
  <2>3. QED
    BY <2>1, <2>2
<1>6. SeriesInv' /\ CommitsInv' /\ QuiltInv'
  BY <1>1, <1>2, <1>3 DEF PatchInv, SeriesInv, CommitsInv, QuiltInv, Running
<1>7. resolver = "noop" /\ Sound => applied = ToApply
  <2>1. method # "quilt" /\ Sound => applied = ToApply
    <3>1. method # "quilt" /\ Sound => ~amdir
      BY <1>1, <1>3 DEF PatchInv, HeadInv, Running
    <3>2. QED
      BY <1>1, <1>2, <3>1 DEF PatchInv, TreeInv, Begins, Running
  <2>2. method = "quilt" /\ resolver = "noop" => applied = ToApply
    BY <1>1 DEF PatchInv, QuiltInv, Running
  <2>3. QED
    BY <2>1, <2>2
<1>8. Sound => ~amdir
  BY <1>1, <1>3 DEF PatchInv, HeadInv, Running
<1>9. ASSUME method = "git", starts = 1
      PROVE  /\ [i \in DOMAIN commits |-> commits[i].patch] = ToApply
             /\ \A i \in DOMAIN commits : Extracted(ToApply[i]) = {i}
  <2>1. /\ DOMAIN commits = 1..Len(ToApply)
        /\ \A i \in 1..Len(ToApply) :
              commits[i] = [patch |-> ToApply[i], notes |-> <<ToApply[i]>>]
    BY <1>1, <1>9 DEF PatchInv, CommitsInv
  <2>2. \A i \in 1..Len(ToApply) : commits[i].patch = ToApply[i] /\ commits[i].notes = <<ToApply[i]>>
    BY <2>1
  <2>3. [i \in DOMAIN commits |-> commits[i].patch] = [i \in 1..Len(ToApply) |-> ToApply[i]]
    BY <2>1, <2>2
  <2>4. [i \in 1..Len(ToApply) |-> ToApply[i]] = ToApply
    <3> DEFINE S == {ToApply[i] : i \in DOMAIN ToApply}
    <3>1. ToApply \in Seq(S)
      BY <1>2 DEF Lists
    <3> HIDE DEF S
    <3>2. QED
      BY <3>1
  <2>5. \A q : <<q>> # <<>> /\ Last(<<q>>) = q
    BY DEF Last
  <2>6. ASSUME NEW i \in 1..Len(ToApply) PROVE Extracted(ToApply[i]) = {i}
    <3>1. Extracted(ToApply[i]) =
             {k \in 1..Len(ToApply) : commits[k].notes # <<>> /\ Last(commits[k].notes) = ToApply[i]}
      BY <2>1 DEF Extracted
    <3>2. \A k \in 1..Len(ToApply) :
             (commits[k].notes # <<>> /\ Last(commits[k].notes) = ToApply[i]) <=> k = i
      <4>1. ASSUME NEW k \in 1..Len(ToApply)
            PROVE  commits[k].notes # <<>> /\ Last(commits[k].notes) = ToApply[k]
        BY <2>2, <2>5
      <4>2. \A k \in 1..Len(ToApply) : ToApply[k] = ToApply[i] <=> k = i
        BY <1>2 DEF Lists
      <4>3. QED
        BY <4>1, <4>2
    <3>3. QED
      BY <3>1, <3>2
  <2>7. QED
    BY <2>1, <2>3, <2>4, <2>6
<1>10. VerdictEarned
  BY DEF PatchInv
<1>11. DoneMeansPatched'
  <2> SUFFICES ASSUME Sound, verdict' = "done" /\ resolver = "noop" PROVE DoneMeansPatched'
    BY <1>1, <1>2 DEF DoneMeansPatched, Sound
  <2>1. \A i : Extracted(ToApply[i])' = Extracted(ToApply[i])
    BY <1>1, <1>2, Zenon DEF Extracted
  <2>2. method = "git" /\ starts = 1 =>
           /\ [i \in DOMAIN commits |-> commits[i].patch] = ToApply
           /\ \A i \in DOMAIN commits : Extracted(ToApply[i])' = {i}
    BY <1>9, <2>1
  <2>3. QED
    BY <1>1, <1>2, <1>7, <1>8, <2>2 DEF DoneMeansPatched
<1>12. FailsForCause'
  BY <1>1 DEF FailsForCause
<1>13. QED
  BY <1>4, <1>5, <1>6, <1>11, <1>12 DEF PatchInv, VerdictEarned

\* One commit more: those before it stay what they are.
LEMMA CommitAdded ==
  ASSUME NEW cs, NEW n \in Nat, cs = [i \in DOMAIN cs |-> cs[i]], DOMAIN cs = 1..n, NEW c
  PROVE  LET t == Append(cs, c)
         IN  /\ t = [i \in DOMAIN t |-> t[i]]
             /\ Len(t) = n + 1 /\ DOMAIN t = 1..(n + 1)
             /\ \A i \in 1..n : t[i] = cs[i]
             /\ t[n + 1] = c
<1> DEFINE S == {cs[i] : i \in 1..n} \cup {c}
<1>1. \A i \in 1..n : cs[i] \in S
  OBVIOUS
<1>2. c \in S
  OBVIOUS
<1> HIDE DEF S
<1>3. cs \in Seq(S) /\ Len(cs) = n
  BY <1>1
<1>4. PICK t : t = Append(cs, c)
  OBVIOUS
<1>5. t \in Seq(S) /\ Len(t) = n + 1 /\ t[n + 1] = c /\ \A i \in 1..n : t[i] = cs[i]
  BY <1>2, <1>3, <1>4
<1>6. DOMAIN t = 1..(n + 1) /\ t = [i \in DOMAIN t |-> t[i]]
  BY <1>5
<1>7. QED
  BY <1>4, <1>5, <1>6

\* The patch of this turn gets its commit, which has no note yet.
LEMMA CommitMade ==
  ASSUME turn \in 1..Len(ToApply), Len(ToApply) \in Nat, Len(commits) = turn - 1,
         DOMAIN commits = 1..Len(commits), commits = [i \in DOMAIN commits |-> commits[i]],
         \A i \in 1..Len(commits) : commits[i] = [patch |-> ToApply[i], notes |-> <<ToApply[i]>>],
         commits' = Append(commits, [patch |-> ToApply[turn], notes |-> <<>>]),
         phase' = "note", turn' = turn, ToApply' = ToApply
  PROVE  /\ commits' = [i \in DOMAIN commits' |-> commits'[i]]
         /\ Len(commits') = turn /\ DOMAIN commits' = 1..turn
         /\ \A i \in 1..Len(commits') :
               commits'[i] = [patch |-> ToApply'[i],
                              notes |-> IF phase' = "note" /\ i = turn' THEN <<>> ELSE <<ToApply'[i]>>]
<1>1. turn - 1 \in Nat /\ (turn - 1) + 1 = turn
  OBVIOUS
<1>2. /\ commits' = [i \in DOMAIN commits' |-> commits'[i]]
      /\ Len(commits') = turn /\ DOMAIN commits' = 1..turn
      /\ \A i \in 1..(turn - 1) : commits'[i] = commits[i]
      /\ commits'[turn] = [patch |-> ToApply[turn], notes |-> <<>>]
  BY <1>1, CommitAdded
<1>3. ASSUME NEW i \in 1..turn
      PROVE  commits'[i] = [patch |-> ToApply[i], notes |-> IF i = turn THEN <<>> ELSE <<ToApply[i]>>]
  <2>1. CASE i = turn
    BY <1>2, <2>1, Zenon
  <2>2. CASE i # turn
    <3>1. i \in 1..(turn - 1) /\ i \in 1..Len(commits)
      BY <2>2
    <3>2. commits'[i] = [patch |-> ToApply[i], notes |-> <<ToApply[i]>>]
      BY <1>2, <3>1
    <3>3. QED
      BY <2>2, <3>2, Zenon
  <2>3. QED
    BY <2>1, <2>2
<1>4. QED
  BY <1>2, <1>3

LEMMA GitDirtyKeeps == ASSUME PatchInv, GitDirty PROVE PatchInv'
<1>1. /\ verdict = "running" /\ phase = "push" /\ method = "git" /\ NeedDirtyCheck /\ phase' = "fallback"
      /\ urls' = urls /\ method' = method /\ resolver' = resolver /\ applied' = applied
      /\ series' = series /\ copies' = copies /\ stack' = stack /\ commits' = commits
      /\ head' = head /\ amdir' = amdir /\ left' = left /\ patches' = patches
      /\ current' = current /\ turn' = turn /\ starts' = starts /\ torn' = torn /\ verdict' = verdict
  BY DEF GitDirty, treeVars
<1>2. /\ Len(ToApply) \in Nat /\ ToApply' = ToApply /\ NeedDirtyCheck' = NeedDirtyCheck
      /\ ToApply = <<>> <=> Len(ToApply) = 0
      /\ \A s : IsStart(s, ToApply) => Len(s) \in Nat /\ Len(s) <= Len(ToApply)
  BY <1>1, ToApplyFacts DEF PatchInv
<1>3. starts # 0 /\ turn \in 1..Len(ToApply)
  BY <1>1, <1>2 DEF PatchInv, TurnInv, Taking
<1>4. TurnInv'
  BY <1>1, <1>2 DEF PatchInv, TurnInv, Begins, Running, Taking
<1>5. TreeInv' /\ HeadInv'
  <2>1. Sound => ~amdir
    BY <1>1 DEF PatchInv, HeadInv, Running
  <2>2. TreeInv'
    BY <1>1, <1>2, <1>3, <2>1 DEF PatchInv, TreeInv, Begins, Running, Sound
  <2>3. HeadInv'
    BY <1>1, <1>2, <1>3, <2>1 DEF PatchInv, HeadInv, HeadInTree, Begins, Running, Sound, Taking, Putting
  <2>4. QED
    BY <2>2, <2>3
<1>6. CommitsInv'
  BY <1>1, <1>2, <1>3 DEF PatchInv, CommitsInv
<1>7. SeriesInv' /\ QuiltInv' /\ VerdictEarned'
  BY <1>1 DEF SeriesInv, QuiltInv, VerdictEarned, DoneMeansPatched, FailsForCause
<1>8. QED
  BY <1>4, <1>5, <1>6, <1>7 DEF PatchInv

LEMMA GitAmKeeps == ASSUME PatchInv, GitAm PROVE PatchInv'
<1>1. /\ verdict = "running" /\ phase = "push" /\ method = "git"
      /\ ~(NeedDirtyCheck /\ applied # head)
      /\ urls' = urls /\ method' = method /\ resolver' = resolver /\ series' = series
      /\ copies' = copies /\ stack' = stack /\ left' = left /\ patches' = patches
      /\ current' = current /\ turn' = turn /\ starts' = starts /\ torn' = torn /\ verdict' = verdict
  BY DEF GitAm
<1>2. /\ Lists(ToApply) /\ Len(ToApply) \in Nat /\ ToApply' = ToApply
      /\ NeedDirtyCheck' = NeedDirtyCheck /\ ~IsStart(Whole, ToApply)
      /\ ToApply = <<>> <=> Len(ToApply) = 0
      /\ \A s : IsStart(s, ToApply) => Len(s) \in Nat /\ Len(s) <= Len(ToApply)
  BY <1>1, ToApplyFacts DEF PatchInv
<1>3. starts # 0
  BY <1>1 DEF PatchInv, TurnInv
<1>4. Pushed = ToApply[turn] /\ turn \in 1..Len(ToApply)
  BY <1>1, PushedRight DEF Taking
<1>5. Sound => /\ Begins(head) /\ Len(head) \in Nat /\ Len(head) >= turn - 1
               /\ NeedDirtyCheck => ~amdir
               /\ turn > 1 => ~amdir /\ Len(applied) >= turn - 1
               /\ ~amdir => /\ Begins(applied) /\ Len(applied) \in Nat
                            /\ Len(head) <= Len(applied) /\ Len(applied) >= turn - 1
  <2> SUFFICES ASSUME Sound PROVE <1>5!2
    OBVIOUS
  <2>1. /\ amdir \/ Begins(applied)
        /\ turn > 1 => Len(applied) >= turn - 1
        /\ Begins(head) \/ (NeedDirtyCheck /\ head = Whole)
        /\ NeedDirtyCheck => ~amdir
        /\ turn > 1 => Len(head) >= turn - 1 /\ ~amdir
        /\ HeadInTree
    BY <1>1 DEF PatchInv, TreeInv, HeadInv, Running, Putting
  <2>2. Begins(head)
    BY <1>1, <1>2, <2>1 DEF Begins
  <2>3. QED
    BY <1>2, <1>4, <2>1, <2>2 DEF Begins, HeadInTree
<1>6. SeriesInv' /\ QuiltInv' /\ VerdictEarned'
  BY <1>1 DEF SeriesInv, QuiltInv, VerdictEarned, DoneMeansPatched, FailsForCause
<1>7. ASSUME phase' = "abort", commits' = commits, head' = head,
             \/ applied' = applied /\ amdir' = amdir
             \/ amdir' = TRUE
      PROVE  PatchInv'
  <2>1. TurnInv'
    BY <1>1, <1>2, <1>4, <1>7 DEF PatchInv, TurnInv, Begins, Running, Taking
  <2>2. TreeInv'
    BY <1>1, <1>2, <1>5, <1>7 DEF TreeInv, Begins, Running, Sound
  <2>3. HeadInv'
    BY <1>1, <1>2, <1>4, <1>5, <1>7 DEF PatchInv, HeadInv, HeadInTree, Begins, Running, Sound, Taking, Putting
  <2>4. CommitsInv'
    BY <1>1, <1>2, <1>3, <1>7 DEF PatchInv, CommitsInv
  <2>5. QED
    BY <1>6, <2>1, <2>2, <2>3, <2>4 DEF PatchInv
<1>8. ASSUME AmFits(Pushed), phase' = "note", amdir' = amdir,
             IF InTree(Pushed) THEN applied' = applied /\ commits' = commits /\ head' = head
             ELSE /\ applied' = Append(applied, Pushed) /\ head' = Append(head, Pushed)
                  /\ commits' = Append(commits, [patch |-> Pushed, notes |-> <<>>])
      PROVE  PatchInv'
  <2>1. ~amdir /\ ~amdir' /\ (InTree(Pushed) => In(Pushed, head))
    BY <1>8 DEF AmFits
  <2>2. TurnInv'
    BY <1>1, <1>2, <1>4, <1>8 DEF PatchInv, TurnInv, Begins, Running, Taking
  <2>3. ASSUME Sound
        PROVE  /\ Begins(applied') /\ Begins(head') /\ Len(head') \in Nat
               /\ Len(head') >= turn /\ Len(applied') >= turn /\ Len(head') <= Len(applied')
               /\ ~InTree(Pushed) => /\ Len(applied) = turn - 1 /\ Len(applied') = turn
                                     /\ Len(head') = turn
    <3>1. /\ IsStart(head, ToApply) /\ Len(head) \in Nat /\ Len(head) >= turn - 1
          /\ IsStart(applied, ToApply) /\ Len(applied) \in Nat
          /\ Len(head) <= Len(applied) /\ Len(applied) >= turn - 1
      BY <1>5, <2>1, <2>3 DEF Begins
    <3>2. (InTree(Pushed) <=> turn <= Len(applied)) /\ (In(Pushed, head) <=> turn <= Len(head))
      BY <1>2, <1>4, <3>1, StartHolds DEF InTree, In
    <3>3. CASE InTree(Pushed)
      BY <1>8, <2>1, <3>1, <3>2, <3>3 DEF Begins
    <3>4. CASE ~InTree(Pushed)
      <4>1. PICK n \in Nat : n = Len(applied) /\ n = Len(head) /\ n + 1 = turn
        BY <1>4, <3>1, <3>2, <3>4
      <4>2. applied' = Append(applied, ToApply[Len(applied) + 1]) /\ head' = Append(head, ToApply[Len(head) + 1])
        BY <1>4, <1>8, <3>4, <4>1
      <4>3. Len(applied) < Len(ToApply) /\ Len(head) < Len(ToApply)
        BY <1>2, <1>4, <4>1
      <4>4. IsStart(applied', ToApply) /\ Len(applied') = Len(applied) + 1
        BY <1>2, <3>1, <4>2, <4>3, StartAppend
      <4>5. IsStart(head', ToApply) /\ Len(head') = Len(head) + 1
        BY <1>2, <3>1, <4>2, <4>3, StartAppend
      <4>6. Begins(applied') /\ Begins(head')
        BY <4>4, <4>5, Zenon DEF Begins
      <4>7. turn \in Nat /\ Len(applied) = turn - 1
        BY <1>2, <1>4, <4>1
      <4>8. Len(applied') = turn /\ Len(head') = turn
        BY <4>1, <4>4, <4>5
      <4>9. QED
        BY <4>6, <4>7, <4>8
    <3>5. QED
      BY <3>3, <3>4
  <2>4. TreeInv'
    BY <1>1, <1>2, <1>8, <2>3 DEF TreeInv, Begins, Running, Sound
  <2>5. HeadInv'
    <3>1. ASSUME Sound PROVE head' # Whole
      BY <1>2, <2>3, <3>1 DEF Begins
    <3>2. QED
      BY <1>1, <1>2, <1>8, <2>1, <2>3, <3>1 DEF HeadInv, HeadInTree, Begins, Running, Sound, Taking, Putting
  <2>6. CommitsInv'
    <3> SUFFICES ASSUME starts = 1 PROVE CommitsInv'
      BY <1>1, <1>3 DEF CommitsInv
    <3>1. /\ left = <<>> /\ Len(commits) = turn - 1 /\ Len(applied) = turn - 1 /\ ~torn
          /\ DOMAIN commits = 1..Len(commits) /\ commits = [i \in DOMAIN commits |-> commits[i]]
          /\ \A i \in 1..Len(commits) : commits[i] = [patch |-> ToApply[i], notes |-> <<ToApply[i]>>]
      BY <1>1 DEF PatchInv, CommitsInv
    <3>2. Sound /\ Begins(applied) /\ Len(applied) \in Nat
      BY <1>5, <2>1, <3>1 DEF Sound
    <3>3. ~InTree(Pushed)
      BY <1>2, <1>4, <3>1, <3>2, StartHolds DEF InTree, In, Begins
    <3>4. commits' = Append(commits, [patch |-> ToApply[turn], notes |-> <<>>])
      BY <1>4, <1>8, <3>3
    <3>5. /\ commits' = [i \in DOMAIN commits' |-> commits'[i]]
          /\ Len(commits') = turn /\ DOMAIN commits' = 1..turn
          /\ \A i \in 1..Len(commits') :
                commits'[i] = [patch |-> ToApply'[i],
                               notes |-> IF phase' = "note" /\ i = turn' THEN <<>> ELSE <<ToApply'[i]>>]
      BY <1>1, <1>2, <1>4, <1>8, <3>1, <3>4, CommitMade
    <3>6. Len(applied') = turn /\ Len(head') = turn
      BY <2>3, <3>2, <3>3
    <3>7. QED
      BY <1>1, <1>2, <1>4, <1>8, <3>1, <3>5, <3>6 DEF CommitsInv
  <2>7. QED
    BY <1>6, <2>2, <2>4, <2>5, <2>6 DEF PatchInv
<1>9. QED
  BY <1>7, <1>8 DEF GitAm

LEMMA GitAbortKeeps == ASSUME PatchInv, GitAbort PROVE PatchInv'
<1>1. /\ verdict = "running" /\ phase = "abort" /\ amdir' = FALSE /\ phase' = "apply" /\ applied' = head
      /\ urls' = urls /\ method' = method /\ resolver' = resolver /\ series' = series
      /\ copies' = copies /\ stack' = stack /\ commits' = commits /\ head' = head
      /\ left' = left /\ patches' = patches /\ current' = current
      /\ turn' = turn /\ starts' = starts /\ torn' = torn /\ verdict' = verdict
  BY DEF GitAbort, AfterAbort
<1>2. /\ ToApply' = ToApply /\ NeedDirtyCheck' = NeedDirtyCheck /\ ~IsStart(Whole, ToApply)
      /\ \A s : IsStart(s, ToApply) => Len(s) \in Nat
  BY <1>1, ToApplyFacts DEF PatchInv
<1>3. method = "git" /\ starts # 0
  BY <1>1, PatchToolsAssumption DEF PatchInv, TurnInv, Taking
<1>4. Sound => IsStart(head, ToApply) /\ Len(head) \in Nat /\ Len(head) >= turn - 1 /\ head # Whole
  BY <1>1, <1>2, <1>3 DEF PatchInv, HeadInv, Begins, Running
<1>5. TurnInv'
  BY <1>1, <1>2, <1>3 DEF PatchInv, TurnInv, Begins, Running, Taking
<1>6. TreeInv' /\ HeadInv'
  BY <1>1, <1>2, <1>3, <1>4 DEF TreeInv, HeadInv, HeadInTree, Begins, Running, Sound, Taking, Putting
<1>7. CommitsInv'
  <2>1. starts = 1 => Sound
    BY <1>1, <1>3 DEF PatchInv, CommitsInv, Sound
  <2>2. QED
    BY <1>1, <1>2, <1>3, <1>4, <2>1 DEF PatchInv, CommitsInv
<1>8. SeriesInv' /\ QuiltInv' /\ VerdictEarned'
  BY <1>1, <1>3 DEF SeriesInv, QuiltInv, VerdictEarned, DoneMeansPatched, FailsForCause
<1>9. QED
  BY <1>5, <1>6, <1>7, <1>8 DEF PatchInv

LEMMA GitApplyKeeps == ASSUME PatchInv, GitApply PROVE PatchInv'
<1>1. /\ verdict = "running" /\ phase = "apply"
      /\ urls' = urls /\ method' = method /\ resolver' = resolver /\ series' = series
      /\ copies' = copies /\ stack' = stack /\ commits' = commits /\ head' = head
      /\ amdir' = amdir /\ left' = left /\ patches' = patches /\ current' = current
      /\ turn' = turn /\ starts' = starts /\ torn' = torn /\ verdict' = verdict
  BY DEF GitApply
<1>2. /\ Lists(ToApply) /\ Len(ToApply) \in Nat /\ ToApply' = ToApply
      /\ NeedDirtyCheck' = NeedDirtyCheck /\ ~IsStart(Whole, ToApply)
      /\ \A s : IsStart(s, ToApply) => Len(s) \in Nat /\ Len(s) <= Len(ToApply)
  BY <1>1, ToApplyFacts DEF PatchInv
<1>3. method = "git" /\ starts # 0
  BY <1>1, PatchToolsAssumption DEF PatchInv, TurnInv, Taking
<1>4. Pushed = ToApply[turn] /\ turn \in 1..Len(ToApply)
  BY <1>1, <1>3, PushedRight DEF Taking
<1>5. Sound => /\ ~amdir /\ IsStart(applied, ToApply) /\ Len(applied) \in Nat /\ Len(applied) >= turn - 1
               /\ IsStart(head, ToApply) /\ Len(head) \in Nat /\ Len(head) <= Len(applied)
  BY <1>1, <1>2, <1>3 DEF PatchInv, TreeInv, HeadInv, HeadInTree, Begins, Running, Sound, Putting
<1>6. SeriesInv' /\ QuiltInv' /\ VerdictEarned'
  BY <1>1, <1>3 DEF SeriesInv, QuiltInv, VerdictEarned, DoneMeansPatched, FailsForCause
<1>7. CASE GitApplyFits(Pushed) /\ DryRunOk(Pushed)
  <2>1. applied' = Append(applied, Pushed) /\ phase' = "commit"
    BY <1>7 DEF GitApply
  <2>2. ASSUME Sound
        PROVE  IsStart(applied', ToApply) /\ Len(applied') = turn /\ Len(head) <= Len(applied')
    <3>1. ~(turn <= Len(applied))
      BY <1>2, <1>4, <1>5, <1>7, <2>2, StartHolds DEF DryRunOk, InTree, In
    <3>2. PICK n \in Nat : n = Len(applied) /\ n + 1 = turn
      BY <1>4, <1>5, <2>2, <3>1
    <3>3. applied' = Append(applied, ToApply[Len(applied) + 1])
      BY <1>4, <2>1, <3>2
    <3>4. IsStart(applied', ToApply) /\ Len(applied') = Len(applied) + 1
      BY <1>2, <1>4, <1>5, <2>2, <3>2, <3>3, StartAppend
    <3>5. QED
      BY <1>5, <2>2, <3>2, <3>4
  <2>3. TurnInv'
    BY <1>1, <1>2, <1>3, <1>4, <2>1 DEF PatchInv, TurnInv, Begins, Running, Taking
  <2>4. TreeInv'
    BY <1>1, <1>2, <2>1, <2>2 DEF TreeInv, Begins, Running, Sound
  <2>5. HeadInv'
    BY <1>1, <1>2, <1>3, <1>5, <2>1, <2>2 DEF PatchInv, HeadInv, HeadInTree, Begins, Running, Sound, Taking, Putting
  <2>6. CommitsInv'
    BY <1>1, <1>2, <1>3, <2>1 DEF PatchInv, CommitsInv
  <2>7. QED
    BY <1>6, <2>3, <2>4, <2>5, <2>6 DEF PatchInv
<1>8. CASE ~(GitApplyFits(Pushed) /\ DryRunOk(Pushed))
  <2>1. applied' = applied /\ phase' = "fallback"
    BY <1>8 DEF GitApply
  <2>2. TurnInv'
    BY <1>1, <1>2, <1>3, <1>4, <2>1 DEF PatchInv, TurnInv, Begins, Running, Taking
  <2>3. TreeInv'
    BY <1>1, <1>2, <1>5, <2>1 DEF TreeInv, Begins, Running, Sound
  <2>4. HeadInv'
    BY <1>1, <1>2, <1>3, <1>5, <2>1 DEF PatchInv, HeadInv, HeadInTree, Begins, Running, Sound, Taking, Putting
  <2>5. CommitsInv'
    BY <1>1, <1>2, <1>3, <2>1 DEF PatchInv, CommitsInv
  <2>6. QED
    BY <1>6, <2>2, <2>3, <2>4, <2>5 DEF PatchInv
<1>9. QED
  BY <1>7, <1>8

LEMMA GitCommitKeeps == ASSUME PatchInv, GitCommit PROVE PatchInv'
<1>1. /\ verdict = "running" /\ phase = "commit"
      /\ urls' = urls /\ method' = method /\ resolver' = resolver /\ applied' = applied
      /\ series' = series /\ copies' = copies /\ stack' = stack /\ amdir' = amdir
      /\ left' = left /\ patches' = patches /\ current' = current
      /\ turn' = turn /\ starts' = starts /\ torn' = torn
  BY DEF GitCommit
<1>2. /\ ToApply' = ToApply /\ Len(ToApply) \in Nat
      /\ NeedDirtyCheck' = NeedDirtyCheck /\ ~IsStart(Whole, ToApply)
      /\ \A s : IsStart(s, ToApply) => Len(s) \in Nat
  BY <1>1, ToApplyFacts DEF PatchInv
<1>3. method = "git" /\ starts # 0
  BY <1>1, PatchToolsAssumption DEF PatchInv, TurnInv, Taking
<1>4. Pushed = ToApply[turn] /\ turn \in 1..Len(ToApply)
  BY <1>1, <1>3, PushedRight DEF Taking
<1>5. Sound => /\ ~amdir /\ IsStart(applied, ToApply) /\ Len(applied) = turn /\ applied # Whole
               /\ HeadInTree
  BY <1>1, <1>2, <1>3 DEF PatchInv, TreeInv, HeadInv, Begins, Running, Sound, Putting
<1>6. SeriesInv' /\ QuiltInv'
  BY <1>1, <1>3 DEF SeriesInv, QuiltInv
<1>7. CASE applied = head
  <2>1. verdict' = "failed" /\ phase' = "off" /\ commits' = commits /\ head' = head
    BY <1>7 DEF GitCommit
  <2>2. starts # 1
    <3> SUFFICES ASSUME starts = 1 PROVE FALSE
      OBVIOUS
    <3>1. ~torn /\ (head = Whole \/ Len(head) = turn - 1)
      BY <1>1, <1>3 DEF PatchInv, CommitsInv
    <3>2. QED
      BY <1>2, <1>4, <1>5, <1>7, <3>1 DEF Sound
  <2>3. TurnInv'
    BY <1>1, <1>2, <1>3, <2>1 DEF PatchInv, TurnInv, Running
  <2>4. TreeInv'
    BY <1>1, <1>2, <1>5, <2>1 DEF TreeInv, Begins, Running, Sound
  <2>5. HeadInv'
    BY <1>1, <1>2, <1>3, <1>5, <1>7, <2>1 DEF PatchInv, HeadInv, HeadInTree, Begins, Running, Sound, Taking, Putting
  <2>6. CommitsInv' /\ VerdictEarned'
    BY <1>1, <1>3, <2>1, <2>2 DEF CommitsInv, VerdictEarned, DoneMeansPatched, FailsForCause
  <2>7. QED
    BY <1>6, <2>3, <2>4, <2>5, <2>6 DEF PatchInv
<1>8. CASE applied # head
  <2>1. /\ commits' = Append(commits, [patch |-> Pushed, notes |-> <<>>])
        /\ head' = applied /\ phase' = "note" /\ verdict' = verdict
    BY <1>8 DEF GitCommit
  <2>2. TurnInv'
    BY <1>1, <1>2, <1>3, <2>1 DEF PatchInv, TurnInv, Begins, Running, Taking
  <2>3. TreeInv'
    BY <1>1, <1>2, <1>4, <1>5, <2>1 DEF TreeInv, Begins, Running, Sound
  <2>4. HeadInv'
    BY <1>1, <1>2, <1>3, <1>4, <1>5, <2>1 DEF PatchInv, HeadInv, HeadInTree, Begins, Running, Sound, Taking, Putting
  <2>5. CommitsInv'
    <3> SUFFICES ASSUME starts = 1 PROVE CommitsInv'
      BY <1>1, <1>3 DEF CommitsInv
    <3>1. /\ left = <<>> /\ ~torn /\ Len(commits) = turn - 1
          /\ DOMAIN commits = 1..Len(commits) /\ commits = [i \in DOMAIN commits |-> commits[i]]
          /\ \A i \in 1..Len(commits) : commits[i] = [patch |-> ToApply[i], notes |-> <<ToApply[i]>>]
      BY <1>1, <1>3 DEF PatchInv, CommitsInv
    <3>2. commits' = Append(commits, [patch |-> ToApply[turn], notes |-> <<>>])
      BY <1>4, <2>1
    <3>3. /\ commits' = [i \in DOMAIN commits' |-> commits'[i]]
          /\ Len(commits') = turn /\ DOMAIN commits' = 1..turn
          /\ \A i \in 1..Len(commits') :
                commits'[i] = [patch |-> ToApply'[i],
                               notes |-> IF phase' = "note" /\ i = turn' THEN <<>> ELSE <<ToApply'[i]>>]
      BY <1>1, <1>2, <1>4, <2>1, <3>1, <3>2, CommitMade
    <3>4. Len(applied) = turn
      BY <1>5, <3>1 DEF Sound
    <3>5. QED
      BY <1>1, <1>2, <1>4, <2>1, <3>1, <3>3, <3>4 DEF CommitsInv
  <2>6. VerdictEarned'
    BY <1>1, <2>1 DEF VerdictEarned, DoneMeansPatched, FailsForCause
  <2>7. QED
    BY <1>6, <2>2, <2>3, <2>4, <2>5, <2>6 DEF PatchInv
<1>9. QED
  BY <1>7, <1>8

LEMMA GitNoteKeeps == ASSUME PatchInv, GitNote PROVE PatchInv'
<1>1. /\ verdict = "running" /\ phase = "note"
      /\ commits' = IF commits = <<>> THEN commits
                    ELSE [commits EXCEPT ![Len(commits)].notes = Append(@, Pushed)]
      /\ urls' = urls /\ method' = method /\ resolver' = resolver /\ applied' = applied
      /\ series' = series /\ copies' = copies /\ stack' = stack /\ head' = head /\ amdir' = amdir
      /\ left' = left /\ patches' = patches /\ starts' = starts /\ torn' = torn /\ verdict' = verdict
  BY DEF GitNote
<1>2. /\ ToApply' = ToApply /\ Len(ToApply) \in Nat /\ (ToApply = <<>> <=> Len(ToApply) = 0)
      /\ NeedDirtyCheck' = NeedDirtyCheck /\ ~IsStart(Whole, ToApply)
      /\ \A s : IsStart(s, ToApply) => Len(s) \in Nat
  BY <1>1, ToApplyFacts DEF PatchInv
<1>3. method = "git" /\ starts # 0
  BY <1>1, PatchToolsAssumption DEF PatchInv, TurnInv, Taking
<1>4. /\ Pushed = ToApply[turn] /\ turn \in 1..Len(ToApply)
      /\ IsStart(patches, ToApply) /\ Len(patches) = turn
      /\ (IF current = Nil THEN 0 ELSE current + 1) = turn - 1
  BY <1>1, <1>3, PushedRight DEF Taking
<1>5. current' = turn - 1 /\ turn' = turn + 1 /\ phase' = "import"
  BY <1>4 DEF GitNote, Advance
<1>6. turn' # 1 /\ turn' - 2 = turn - 1 /\ turn' - 1 = turn /\ turn' \in 1..(Len(ToApply) + 1)
  BY <1>2, <1>4, <1>5
<1>7. TurnInv'
  BY <1>1, <1>2, <1>3, <1>4, <1>5, <1>6 DEF PatchInv, TurnInv, Begins, Running, Taking
<1>8. TreeInv'
  BY <1>1, <1>2, <1>3, <1>5, <1>6 DEF PatchInv, TreeInv, Begins, Running, Sound
<1>9. HeadInv'
  BY <1>1, <1>2, <1>3, <1>4, <1>5, <1>6 DEF PatchInv, HeadInv, HeadInTree, Begins, Running, Sound, Taking, Putting
<1>10. CommitsInv'
  <2> SUFFICES ASSUME starts = 1 PROVE CommitsInv'
    BY <1>1, <1>3 DEF CommitsInv
  <2>1. /\ left = <<>> /\ ~torn /\ Len(commits) = turn /\ Len(applied) = turn /\ Len(head) = turn
        /\ DOMAIN commits = 1..turn /\ commits = [i \in DOMAIN commits |-> commits[i]]
        /\ \A i \in 1..turn :
              commits[i] = [patch |-> ToApply[i], notes |-> IF i = turn THEN <<>> ELSE <<ToApply[i]>>]
    BY <1>1, <1>3 DEF PatchInv, CommitsInv
  <2>2. ~amdir
    BY <1>1, <1>3, <2>1 DEF PatchInv, HeadInv, Running, Sound
  <2>3. turn \in DOMAIN commits /\ commits # <<>>
    BY <1>2, <1>4, <2>1
  <2>4. commits' = [commits EXCEPT ![turn].notes = Append(@, ToApply[turn])]
    BY <1>1, <1>4, <2>1, <2>3
  <2>5. commits[turn] = [patch |-> ToApply[turn], notes |-> <<>>]
    BY <2>1, <2>3, Zenon
  <2>6. commits'[turn] = [patch |-> ToApply[turn], notes |-> <<ToApply[turn]>>]
    <3>1. commits'[turn] = [commits[turn] EXCEPT !.notes = Append(@, ToApply[turn])]
      BY <2>3, <2>4
    <3>2. \A q : Append(<<>>, q) = <<q>>
      OBVIOUS
    <3>3. PICK q : q = ToApply[turn]
      OBVIOUS
    <3>4. commits'[turn] = [[patch |-> q, notes |-> <<>>] EXCEPT !.notes = Append(@, q)]
      BY <2>5, <3>1, <3>3, Zenon
    <3>5. [[patch |-> q, notes |-> <<>>] EXCEPT !.notes = Append(@, q)] = [patch |-> q, notes |-> Append(<<>>, q)]
      OBVIOUS
    <3>6. QED
      BY <3>2, <3>3, <3>4, <3>5
  <2>7. /\ DOMAIN commits' = 1..turn
        /\ commits' = [i \in DOMAIN commits' |-> commits'[i]]
        /\ \A i \in 1..turn : i # turn => commits'[i] = commits[i]
    BY <2>1, <2>3, <2>4
  <2>8. Len(commits') = turn
    BY <1>2, <1>4, <2>7
  <2>9. ASSUME NEW i \in 1..turn PROVE commits'[i] = [patch |-> ToApply[i], notes |-> <<ToApply[i]>>]
    <3>1. CASE i = turn
      BY <2>6, <3>1
    <3>2. CASE i # turn
      <4>1. commits[i] = [patch |-> ToApply[i], notes |-> <<ToApply[i]>>]
        BY <2>1, <3>2, Zenon
      <4>2. QED
        BY <2>7, <3>2, <4>1
    <3>3. QED
      BY <3>1, <3>2
  <2>10. \A i \in 1..Len(commits') :
            commits'[i] = [patch |-> ToApply'[i],
                           notes |-> IF phase' = "note" /\ i = turn' THEN <<>> ELSE <<ToApply'[i]>>]
    BY <1>2, <1>5, <2>8, <2>9
  <2>11. /\ Len(commits') \in 0..Len(ToApply') /\ DOMAIN commits' = 1..Len(commits')
         /\ Len(commits') = turn' - 1 /\ Len(applied') = turn' - 1
         /\ Len(head') = turn' - 1 /\ ~amdir' /\ ~torn' /\ left' = <<>>
    BY <1>1, <1>2, <1>4, <1>6, <2>1, <2>2, <2>7, <2>8
  <2>12. starts' = 1
    BY <1>1
  <2>13. QED
    BY <1>5, <2>7, <2>10, <2>11, <2>12 DEF CommitsInv
<1>11. SeriesInv' /\ QuiltInv' /\ VerdictEarned'
  BY <1>1, <1>3 DEF SeriesInv, QuiltInv, VerdictEarned, DoneMeansPatched, FailsForCause
<1>12. QED
  BY <1>7, <1>8, <1>9, <1>10, <1>11 DEF PatchInv

LEMMA GitRevertKeeps == ASSUME PatchInv, GitRevert PROVE PatchInv'
<1>1. /\ verdict = "running" /\ phase = "clean" /\ method = "git" /\ left # <<>>
      /\ urls' = urls /\ method' = method /\ resolver' = resolver /\ series' = series
      /\ copies' = copies /\ stack' = stack /\ commits' = commits /\ head' = head
      /\ left' = left /\ patches' = patches /\ current' = current /\ turn' = turn
      /\ starts' = starts /\ torn' = torn /\ verdict' = verdict
  BY DEF GitRevert
<1>2. /\ Lists(ToApply) /\ Len(ToApply) \in Nat /\ ToApply' = ToApply
      /\ NeedDirtyCheck' = NeedDirtyCheck /\ ~IsStart(Whole, ToApply)
      /\ \A s : IsStart(s, ToApply) => Len(s) \in Nat
  BY <1>1, ToApplyFacts DEF PatchInv
<1>3. starts # 0 /\ starts # 1
  BY <1>1 DEF PatchInv, TurnInv, CommitsInv
<1>4. Sound => /\ series # <<>> /\ (NeedDirtyCheck => ~amdir) /\ (amdir \/ IsStart(applied, ToApply))
               /\ IsStart(head, ToApply) /\ head # Whole
  BY <1>1, <1>2 DEF PatchInv, TreeInv, HeadInv, Begins, Running, Sound
<1>5. \/ NeedDirtyCheck /\ phase' = "unpatch" /\ applied' = applied /\ amdir' = amdir
      \/ phase' = "unapply" /\ amdir' = FALSE /\ applied' = head
  BY DEF GitRevert, AfterAbort
<1>6. TurnInv'
  BY <1>1, <1>2, <1>3, <1>5 DEF PatchInv, TurnInv, Begins, Running, Taking
<1>7. TreeInv'
  BY <1>1, <1>2, <1>4, <1>5 DEF TreeInv, Begins, Running, Sound
<1>8. HeadInv'
  BY <1>1, <1>2, <1>4, <1>5 DEF HeadInv, HeadInTree, Begins, Running, Sound, Taking, Putting, PatchInv, TurnInv
<1>9. SeriesInv' /\ CommitsInv' /\ QuiltInv' /\ VerdictEarned'
  BY <1>1, <1>3 DEF SeriesInv, CommitsInv, QuiltInv, VerdictEarned, DoneMeansPatched, FailsForCause
<1>10. QED
  BY <1>6, <1>7, <1>8, <1>9 DEF PatchInv

LEMMA GitUnapplyKeeps == ASSUME PatchInv, GitUnapply PROVE PatchInv'
<1>1. /\ verdict = "running" /\ phase = "unapply"
      /\ urls' = urls /\ method' = method /\ resolver' = resolver /\ series' = series
      /\ copies' = copies /\ stack' = stack /\ commits' = commits /\ head' = head
      /\ amdir' = amdir /\ left' = left /\ patches' = patches /\ current' = current
      /\ turn' = turn /\ starts' = starts /\ torn' = torn /\ verdict' = verdict
  BY DEF GitUnapply
<1>2. /\ Lists(ToApply) /\ Len(ToApply) \in Nat /\ ToApply' = ToApply
      /\ NeedDirtyCheck' = NeedDirtyCheck /\ ~IsStart(Whole, ToApply)
      /\ \A s : IsStart(s, ToApply) => Len(s) \in Nat
  BY <1>1, ToApplyFacts DEF PatchInv
<1>3. /\ method = "git" /\ starts # 0 /\ starts # 1
      /\ left # <<>>
  BY <1>1, PatchToolsAssumption DEF PatchInv, TurnInv, CommitsInv, Running, Taking
<1>4. Sound => /\ series # <<>> /\ ~amdir /\ IsStart(applied, ToApply)
               /\ IsStart(head, ToApply) /\ head # Whole
  BY <1>1, <1>2, <1>3 DEF PatchInv, TreeInv, HeadInv, Begins, Running, Sound, Taking
<1>5. SeriesInv' /\ CommitsInv' /\ QuiltInv'
  BY <1>1, <1>3 DEF SeriesInv, CommitsInv, QuiltInv
<1>6. \/ phase' = "uncommit" /\ applied' = Front(applied) /\ TopIs(Last(left))
      \/ phase' = "unpatch" /\ applied' = applied
  BY DEF GitUnapply
<1>7. Sound => IsStart(applied', ToApply)
  BY <1>2, <1>4, <1>6, StartFront DEF TopIs
<1>8. TurnInv'
  BY <1>1, <1>2, <1>3, <1>6 DEF PatchInv, TurnInv, Begins, Running, Taking
<1>9. TreeInv'
  BY <1>1, <1>2, <1>6, <1>7 DEF TreeInv, Begins, Running, Sound
<1>10. HeadInv'
  BY <1>1, <1>2, <1>3, <1>4, <1>6 DEF HeadInv, HeadInTree, Begins, Running, Sound, Taking, Putting, PatchInv, TurnInv
<1>11. VerdictEarned'
  BY <1>1, <1>3, <1>6 DEF VerdictEarned, DoneMeansPatched, FailsForCause
<1>12. QED
  BY <1>5, <1>8, <1>9, <1>10, <1>11 DEF PatchInv

LEMMA GitUnpatchKeeps == ASSUME PatchInv, GitUnpatch PROVE PatchInv'
<1>1. /\ verdict = "running" /\ phase = "unpatch"
      /\ urls' = urls /\ method' = method /\ resolver' = resolver /\ series' = series
      /\ copies' = copies /\ stack' = stack /\ commits' = commits /\ head' = head
      /\ amdir' = amdir /\ left' = left /\ patches' = patches /\ current' = current
      /\ turn' = turn /\ starts' = starts /\ torn' = torn
  BY DEF GitUnpatch
<1>2. /\ Lists(ToApply) /\ Len(ToApply) \in Nat /\ ToApply' = ToApply
      /\ NeedDirtyCheck' = NeedDirtyCheck /\ ~IsStart(Whole, ToApply)
      /\ \A s : IsStart(s, ToApply) => Len(s) \in Nat
  BY <1>1, ToApplyFacts DEF PatchInv
<1>3. /\ method = "git" /\ starts # 0 /\ starts # 1
      /\ left # <<>>
  BY <1>1, PatchToolsAssumption DEF PatchInv, TurnInv, CommitsInv, Running, Taking
<1>4. Sound => /\ series # <<>> /\ ~amdir /\ IsStart(applied, ToApply)
               /\ IsStart(head, ToApply) /\ head # Whole
  BY <1>1, <1>2, <1>3 DEF PatchInv, TreeInv, HeadInv, Begins, Running, Sound, Taking
<1>5. SeriesInv' /\ CommitsInv' /\ QuiltInv'
  BY <1>1, <1>3 DEF SeriesInv, CommitsInv, QuiltInv
<1>6. \/ phase' = "uncommit" /\ verdict' = verdict /\ applied' = Front(applied) /\ TopIs(Last(left))
      \/ phase' = "uncommit" /\ verdict' = verdict /\ applied' = applied
      \/ phase' = "off" /\ verdict' = "failed" /\ applied' = applied
  BY DEF GitUnpatch
<1>7. Sound => IsStart(applied', ToApply)
  BY <1>2, <1>4, <1>6, StartFront DEF TopIs
<1>8. TurnInv'
  BY <1>1, <1>2, <1>3, <1>6 DEF PatchInv, TurnInv, Begins, Running, Taking
<1>9. TreeInv'
  BY <1>1, <1>2, <1>6, <1>7 DEF TreeInv, Begins, Running, Sound
<1>10. HeadInv'
  BY <1>1, <1>2, <1>3, <1>4, <1>6 DEF HeadInv, HeadInTree, Begins, Running, Sound, Taking, Putting, PatchInv, TurnInv
<1>11. VerdictEarned'
  BY <1>1, <1>3, <1>6 DEF VerdictEarned, DoneMeansPatched, FailsForCause
<1>12. QED
  BY <1>5, <1>8, <1>9, <1>10, <1>11 DEF PatchInv

LEMMA GitUncommitKeeps == ASSUME PatchInv, GitUncommit PROVE PatchInv'
<1>1. /\ verdict = "running" /\ phase = "uncommit"
      /\ urls' = urls /\ method' = method /\ resolver' = resolver /\ applied' = applied
      /\ series' = series /\ copies' = copies /\ stack' = stack /\ amdir' = amdir
      /\ left' = left /\ patches' = patches /\ current' = current /\ turn' = turn
      /\ starts' = starts /\ torn' = torn
  BY DEF GitUncommit
<1>2. /\ Lists(ToApply) /\ Len(ToApply) \in Nat /\ ToApply' = ToApply
      /\ NeedDirtyCheck' = NeedDirtyCheck /\ ~IsStart(Whole, ToApply)
      /\ \A s : IsStart(s, ToApply) => Len(s) \in Nat
  BY <1>1, ToApplyFacts DEF PatchInv
<1>3. /\ method = "git" /\ starts # 0 /\ starts # 1
      /\ left # <<>>
  BY <1>1, PatchToolsAssumption DEF PatchInv, TurnInv, CommitsInv, Running, Taking
<1>4. Sound => /\ series # <<>> /\ ~amdir /\ IsStart(applied, ToApply)
               /\ IsStart(head, ToApply) /\ head # Whole
  BY <1>1, <1>2, <1>3 DEF PatchInv, TreeInv, HeadInv, Begins, Running, Sound, Taking
<1>5. SeriesInv' /\ CommitsInv' /\ QuiltInv'
  BY <1>1, <1>3 DEF SeriesInv, CommitsInv, QuiltInv
<1>6. \/ phase' = "off" /\ verdict' = "failed" /\ head' = head
      \/ phase' = "unnote" /\ verdict' = verdict /\ head' = applied
  BY DEF GitUncommit
<1>7. TurnInv'
  BY <1>1, <1>2, <1>3, <1>6 DEF PatchInv, TurnInv, Begins, Running, Taking
<1>8. TreeInv'
  BY <1>1, <1>2, <1>4, <1>6 DEF TreeInv, Begins, Running, Sound
<1>9. HeadInv'
  BY <1>1, <1>2, <1>3, <1>4, <1>6 DEF HeadInv, HeadInTree, Begins, Running, Sound, Taking, Putting, PatchInv, TurnInv
<1>10. VerdictEarned'
  BY <1>1, <1>3, <1>6 DEF VerdictEarned, DoneMeansPatched, FailsForCause
<1>11. QED
  BY <1>5, <1>7, <1>8, <1>9, <1>10 DEF PatchInv

LEMMA GitUnnoteKeeps == ASSUME PatchInv, GitUnnote PROVE PatchInv'
<1>1. /\ verdict = "running" /\ phase = "unnote"
      /\ urls' = urls /\ method' = method /\ resolver' = resolver /\ applied' = applied
      /\ series' = series /\ copies' = copies /\ stack' = stack /\ head' = head
      /\ amdir' = amdir /\ patches' = patches /\ current' = current /\ turn' = turn
      /\ starts' = starts /\ torn' = torn /\ verdict' = verdict
  BY DEF GitUnnote
<1>2. /\ Lists(ToApply) /\ Len(ToApply) \in Nat /\ ToApply' = ToApply
      /\ NeedDirtyCheck' = NeedDirtyCheck /\ ~IsStart(Whole, ToApply)
      /\ \A s : IsStart(s, ToApply) => Len(s) \in Nat
  BY <1>1, ToApplyFacts DEF PatchInv
<1>3. /\ method = "git" /\ starts # 0 /\ starts # 1
      /\ left # <<>>
  BY <1>1, PatchToolsAssumption DEF PatchInv, TurnInv, CommitsInv, Running, Taking
<1>4. Sound => /\ series # <<>> /\ ~amdir /\ IsStart(applied, ToApply)
               /\ IsStart(head, ToApply) /\ head # Whole
  BY <1>1, <1>2, <1>3 DEF PatchInv, TreeInv, HeadInv, Begins, Running, Sound, Taking
<1>5. SeriesInv' /\ CommitsInv' /\ QuiltInv'
  BY <1>1, <1>3 DEF SeriesInv, CommitsInv, QuiltInv
<1>6. phase' = "clean" /\ (Sound => applied = head)
  BY <1>1, <1>3 DEF GitUnnote, PatchInv, HeadInv, Running, Sound
<1>7. TurnInv'
  BY <1>1, <1>2, <1>3, <1>6 DEF PatchInv, TurnInv, Begins, Running, Taking
<1>8. TreeInv'
  BY <1>1, <1>2, <1>4, <1>6 DEF TreeInv, Begins, Running, Sound
<1>9. HeadInv'
  BY <1>1, <1>2, <1>3, <1>4, <1>6 DEF HeadInv, HeadInTree, Begins, Running, Sound, Taking, Putting, PatchInv, TurnInv
<1>10. VerdictEarned'
  BY <1>1 DEF VerdictEarned, DoneMeansPatched, FailsForCause
<1>11. QED
  BY <1>5, <1>7, <1>8, <1>9, <1>10 DEF PatchInv

LEMMA QuiltPushKeeps == ASSUME PatchInv, QuiltPush PROVE PatchInv'
<1> DEFINE S == {ToApply[i] : i \in DOMAIN ToApply}
<1>1. /\ verdict = "running" /\ phase = "push" /\ method = "quilt"
      /\ urls' = urls /\ method' = method /\ resolver' = resolver /\ series' = series
      /\ copies' = copies /\ commits' = commits /\ head' = head /\ amdir' = amdir
      /\ left' = left /\ patches' = patches /\ starts' = starts /\ torn' = torn
  BY DEF QuiltPush
<1>2. /\ Lists(ToApply) /\ Len(ToApply) \in Nat /\ ToApply' = ToApply
      /\ ToApply = <<>> <=> Len(ToApply) = 0
      /\ \A s : IsStart(s, ToApply) => /\ Len(s) \in Nat /\ Len(s) <= Len(ToApply) /\ DOMAIN s = 1..Len(s)
                                       /\ Len(s) = 0 <=> s = <<>>
                                       /\ \A i \in 1..Len(s) : s[i] = ToApply[i]
  BY <1>1, ToApplyFacts DEF PatchInv
<1>3. turn \in 1..Len(ToApply) /\ starts # 0 /\ ToApply # <<>>
  BY <1>1, <1>2 DEF PatchInv, TurnInv, Taking
<1>4. TreeInv' /\ SeriesInv' /\ CommitsInv'
  BY <1>1 DEF TreeInv, SeriesInv, CommitsInv
<1>5. HeadInv'
  BY <1>1, <1>2 DEF PatchInv, HeadInv
<1>6. resolver = "noop" =>
         /\ applied = stack /\ IsStart(stack, ToApply) /\ Len(stack) = turn - 1 /\ series \in Seq(S)
         /\ stack = <<>> => \A i \in 1..Len(series) : series[i] = ToApply[1]
         /\ ~torn => IsStart(series, ToApply) /\ Len(series) = turn
         /\ torn => \/ turn = 1 /\ Len(series) >= 2
                    \/ turn = 2 /\ series[2] = ToApply[1] /\ Len(series) >= 2
  BY <1>1 DEF PatchInv, QuiltInv, Begins, Running
<1> HIDE DEF S
<1>7. ASSUME resolver = "noop", ~InTree(QuiltNext)
      PROVE  QuiltNext = ToApply[turn] /\ (torn => turn = 1 /\ series[2] = ToApply[1])
  <2>1. QuiltNext = series[turn] /\ (turn = 1 => stack = <<>>)
    BY <1>2, <1>3, <1>6, <1>7 DEF QuiltNext
  <2>2. CASE ~torn
    BY <1>2, <1>3, <1>6, <1>7, <2>1, <2>2
  <2>3. CASE torn /\ turn = 1
    <3>1. 1 \in 1..Len(series) /\ 2 \in 1..Len(series)
      BY <1>6, <1>7, <2>3
    <3>2. QED
      BY <1>6, <1>7, <2>1, <2>3, <3>1
  <2>4. CASE torn /\ turn # 1
    <3>1. QuiltNext = ToApply[1] /\ 1 \in 1..Len(ToApply) /\ 1 <= Len(stack)
      BY <1>2, <1>3, <1>6, <1>7, <2>1, <2>4
    <3>2. InTree(QuiltNext)
      BY <1>2, <1>6, <1>7, <3>1, StartHolds DEF InTree, In
    <3>3. QED
      BY <1>7, <3>2
  <2>5. QED
    BY <2>2, <2>3, <2>4
<1>8. ASSUME Kind(QuiltNext) # "broken", ~InTree(QuiltNext),
             applied' = Append(applied, QuiltNext), stack' = Append(stack, QuiltNext),
             turn' = turn + 1, phase' = "import", verdict' = verdict
      PROVE  PatchInv'
  <2>1. turn' \in 1..(Len(ToApply) + 1) /\ turn' - 1 = turn
    BY <1>2, <1>3, <1>8
  <2>2. TurnInv'
    BY <1>1, <1>2, <1>3, <1>8, <2>1 DEF PatchInv, TurnInv, Running, Taking
  <2>3. QuiltInv'
    <3> SUFFICES ASSUME resolver = "noop" PROVE QuiltInv'
      BY <1>1, <1>8 DEF QuiltInv
    <3>1. PICK n \in Nat : n = turn - 1 /\ n + 1 = turn /\ n = Len(stack)
      BY <1>2, <1>3, <1>6
    <3>2. stack' = Append(stack, ToApply[Len(stack) + 1]) /\ applied' = stack'
      BY <1>6, <1>7, <1>8, <3>1
    <3>3. IsStart(stack', ToApply) /\ Len(stack') = Len(stack) + 1
      <4>1. IsStart(stack, ToApply) /\ Len(stack) < Len(ToApply)
        BY <1>2, <1>3, <1>6, <3>1
      <4>2. QED
        BY <1>2, <3>2, <4>1, StartAppend
    <3>4. Len(stack') = turn /\ stack' # <<>>
      BY <1>2, <1>3, <3>1, <3>3
    <3>5. ~torn => IsStart(series', ToApply) /\ Len(series') = turn
      BY <1>1, <1>6
    <3>6. torn => turn' = 2 /\ series'[2] = ToApply[1] /\ Len(series') >= 2
      BY <1>1, <1>6, <1>7, <1>8
    <3>7. QED
      BY <1>1, <1>2, <1>3, <1>6, <1>8, <2>1, <3>2, <3>3, <3>4, <3>5, <3>6 DEF QuiltInv, Begins, Running, S
  <2>4. VerdictEarned'
    BY <1>1, <1>8 DEF VerdictEarned, DoneMeansPatched, FailsForCause
  <2>5. QED
    BY <1>4, <1>5, <2>2, <2>3, <2>4 DEF PatchInv
<1>9. ASSUME Kind(QuiltNext) = "broken" \/ InTree(QuiltNext) \/ Repeats,
             applied' = applied, stack' = stack, current' = current, turn' = turn,
             IF resolver = "noop" THEN verdict' = "failed" /\ phase' = "off"
             ELSE verdict' = verdict /\ phase' = "shell"
      PROVE  PatchInv'
  <2>1. TurnInv'
    BY <1>1, <1>2, <1>3, <1>9 DEF PatchInv, TurnInv, Running, Taking
  <2>2. QuiltInv'
    BY <1>1, <1>2, <1>3, <1>6, <1>9 DEF PatchInv, QuiltInv, Running, S
  <2>3. ASSUME resolver = "noop", ~torn PROVE Kind(ToApply[turn]) = "broken"
    <3>1. ~InTree(QuiltNext)
      <4>1. QuiltNext = ToApply[turn]
        BY <1>2, <1>3, <1>6, <2>3 DEF QuiltNext
      <4>2. ~(turn <= Len(stack))
        BY <1>2, <1>3, <1>6, <2>3
      <4>3. QED
        BY <1>2, <1>3, <1>6, <2>3, <4>1, <4>2, StartHolds DEF InTree, In
    <3>2. ~Repeats
      <4>1. \A i \in 1..Len(series) : i \in 1..Len(ToApply) /\ series[i] = ToApply[i]
        BY <1>2, <1>3, <1>6, <2>3
      <4>2. QED
        BY <1>2, <1>6, <2>3, <4>1 DEF Repeats, Lists
    <3>3. QED
      BY <1>7, <1>9, <2>3, <3>1, <3>2
  <2>4. DOMAIN ToApply = 1..Len(ToApply) /\ DOMAIN ToApply' = DOMAIN ToApply
    BY <1>2 DEF Lists
  <2>5. \A i : Kind(ToApply[i])' = Kind(ToApply[i])
    BY <1>1, <1>2, Zenon DEF Kind
  <2>6. VerdictEarned'
    <3>1. resolver = "noop" /\ ~torn => \E i \in DOMAIN ToApply' : Kind(ToApply[i])' = "broken"
      BY <1>3, <2>3, <2>4, <2>5
    <3>2. QED
      BY <1>1, <1>9, <3>1 DEF VerdictEarned, DoneMeansPatched, FailsForCause
  <2>7. QED
    BY <1>4, <1>5, <2>1, <2>2, <2>6 DEF PatchInv
<1>10. QED
  BY <1>8, <1>9 DEF QuiltPush, Advance

LEMMA UserShellKeeps == ASSUME PatchInv, UserShell PROVE PatchInv'
<1>1. /\ verdict = "running" /\ phase = "shell" /\ turn' = turn + 1 /\ phase' = "import"
      /\ urls' = urls /\ method' = method /\ resolver' = resolver /\ series' = series
      /\ copies' = copies /\ commits' = commits /\ head' = head /\ amdir' = amdir
      /\ left' = left /\ patches' = patches /\ current' = current /\ starts' = starts
      /\ torn' = torn /\ verdict' = verdict
  BY DEF UserShell
<1>2. /\ Lists(ToApply) /\ Len(ToApply) \in Nat /\ ToApply' = ToApply
      /\ ToApply = <<>> <=> Len(ToApply) = 0
  BY <1>1, ToApplyFacts DEF PatchInv
<1>3. method = "quilt"
  BY <1>1, PatchToolsAssumption DEF PatchInv, TurnInv, Taking
<1>4. resolver # "noop"
  BY <1>1, <1>3 DEF PatchInv, QuiltInv
<1>5. turn \in 1..Len(ToApply) /\ turn' \in 1..(Len(ToApply) + 1) /\ starts # 0 /\ ToApply # <<>>
  BY <1>1, <1>2 DEF PatchInv, TurnInv, Taking
<1>6. TurnInv'
  BY <1>1, <1>2, <1>3, <1>5 DEF PatchInv, TurnInv, Running, Taking
<1>7. TreeInv' /\ SeriesInv' /\ CommitsInv'
  BY <1>1, <1>3 DEF TreeInv, SeriesInv, CommitsInv
<1>8. HeadInv'
  BY <1>1, <1>2, <1>3 DEF PatchInv, HeadInv
<1>9. QuiltInv' /\ VerdictEarned'
  BY <1>1, <1>4 DEF QuiltInv, VerdictEarned, DoneMeansPatched, FailsForCause
<1>10. QED
  BY <1>6, <1>7, <1>8, <1>9 DEF PatchInv

\* Nothing of this depends on what the rest of the machine does meanwhile.
LEMMA PatchStutters == ASSUME PatchInv, UNCHANGED patchVars PROVE PatchInv'
<1>1. /\ urls' = urls /\ method' = method /\ resolver' = resolver /\ applied' = applied
      /\ series' = series /\ copies' = copies /\ stack' = stack /\ commits' = commits
      /\ head' = head /\ amdir' = amdir /\ left' = left /\ patches' = patches
      /\ current' = current /\ turn' = turn /\ phase' = phase /\ starts' = starts
      /\ torn' = torn /\ verdict' = verdict
  BY DEF patchVars, treeVars, memVars
<1>2. ToApply' = ToApply /\ NeedDirtyCheck' = NeedDirtyCheck
  BY <1>1, ToApplyFacts DEF PatchInv
<1>3. TurnInv' /\ TreeInv' /\ HeadInv'
  <2>1. TurnInv' /\ TreeInv'
    BY <1>1, <1>2 DEF PatchInv, TurnInv, TreeInv, Begins, Running, Sound
  <2>2. HeadInv'
    BY <1>1, <1>2 DEF PatchInv, HeadInv, HeadInTree, Begins, Running, Sound
  <2>3. QED
    BY <2>1, <2>2
<1>4. SeriesInv' /\ CommitsInv' /\ QuiltInv'
  BY <1>1, <1>2 DEF PatchInv, SeriesInv, CommitsInv, QuiltInv, Begins, Running, StaleSeries
<1>5. \A i : Extracted(ToApply[i])' = Extracted(ToApply[i]) /\ Kind(ToApply[i])' = Kind(ToApply[i])
  BY <1>1, <1>2, Zenon DEF Extracted, Kind
<1>6. DoneMeansPatched' /\ FailsForCause'
  BY <1>1, <1>2, <1>5 DEF PatchInv, VerdictEarned, DoneMeansPatched, FailsForCause, Sound
<1>7. QED
  BY <1>3, <1>4, <1>6 DEF PatchInv, VerdictEarned

\* patch.py: the inductive invariant of a do_patch that is interrupted and run
\* again, with each of the three tools.
THEOREM PatchInvariant == PatchSpec => []PatchInv
<1>1. PatchInit => PatchInv
  BY PatchStarts
<1>2. PatchInv /\ [PatchNext]_patchVars => PatchInv'
  BY BeginKeeps, CleanStepKeeps, CleanEndKeeps, CleanQuiltKeeps, ImportKeeps, ApplyPatchKeeps,
     RecordSeriesKeeps, RecordCopyKeeps, GitDirtyKeeps, GitAmKeeps, GitAbortKeeps, GitApplyKeeps,
     GitCommitKeeps, GitNoteKeeps, GitRevertKeeps, GitUnapplyKeeps, GitUnpatchKeeps,
     GitUncommitKeeps, GitUnnoteKeeps, QuiltPushKeeps, UserShellKeeps, EndKeeps, InterruptKeeps,
     PatchStutters DEF PatchNext
<1>3. QED
  BY <1>1, <1>2, PTL DEF PatchSpec

\* patch.py:187-290, 464-659, 680-754, 834-1003: for every list of SRC_URI
\* entries, every number of starts and every place a start is interrupted at,
\* do_patch ends well only with exactly the wanted patches in the tree, each
\* once and in order (with git and a subpath, as long as no start died between
\* two writes), and fails only for a patch that cannot be applied or after it
\* died between a patch and its record.
THEOREM PatchVerdict == PatchSpec => []VerdictEarned
<1>1. PatchInv => VerdictEarned
  BY DEF PatchInv
<1>2. QED
  BY <1>1, PatchInvariant, PTL

-----------------------------------------------------------------------------
\* c has what Sorted has taken after each of the itself n names.
SortedUpTo(names, c, n) ==
  c = [k \in 0..n |->
          IF k = 0 THEN <<>>
          ELSE IF NameOrder[k] \in names THEN Append(c[k - 1], NameOrder[k])
          ELSE c[k - 1]]

LEMMA SortedExists ==
  ASSUME NEW names, NEW n \in Nat
  PROVE  \E c : SortedUpTo(names, c, n)
<1> DEFINE T == {m \in Nat : ~ \E c : SortedUpTo(names, c, m)}
<1>1. SUFFICES ASSUME T # {} PROVE FALSE
  OBVIOUS
<1>2. PICK m \in T : \A k \in T : m <= k
  <2> HIDE DEF T
  <2>1. T \subseteq Nat
    BY DEF T
  <2> QED
    BY <1>1, <2>1, LeastNumber
<1>3. m # 0
  <2> DEFINE c == [k \in 0..0 |-> <<>>]
  <2>1. SortedUpTo(names, c, 0)
    BY DEF SortedUpTo
  <2>2. QED
    BY <2>1
<1>4. PICK c : SortedUpTo(names, c, m - 1)
  BY <1>2, <1>3
<1> DEFINE Step(f, k) == IF k = 0 THEN <<>>
                         ELSE IF NameOrder[k] \in names THEN Append(f[k - 1], NameOrder[k])
                         ELSE f[k - 1]
<1> DEFINE h == [k \in 0..m |-> IF k = m THEN Step(c, m) ELSE c[k]]
<1>5. SortedUpTo(names, h, m)
  <2>1. ASSUME NEW k \in 0..m PROVE h[k] = Step(h, k)
    <3>1. CASE k = m
      <4>1. m - 1 \in 0..m /\ m - 1 # m
        BY <1>2, <1>3
      <4>2. h[m - 1] = c[m - 1] /\ h[m] = Step(c, m)
        BY <4>1, <1>2
      <4>3. QED
        BY <3>1, <4>2
    <3>2. CASE k # m
      <4>1. k \in 0..(m - 1)
        BY <1>2, <3>2
      <4>2. c[k] = Step(c, k)
        BY <1>4, <4>1 DEF SortedUpTo
      <4>3. h[k] = c[k]
        BY <3>2
      <4>4. k # 0 => k - 1 \in 0..m /\ k - 1 # m
        BY <1>2, <4>1
      <4>5. k # 0 => h[k - 1] = c[k - 1]
        BY <4>4
      <4>6. QED
        BY <4>2, <4>3, <4>5
    <3>3. QED
      BY <3>1, <3>2
  <2>2. h = [k \in 0..m |-> Step(h, k)]
    BY <2>1
  <2>3. QED
    BY <2>2 DEF SortedUpTo
<1>6. QED
  BY <1>2, <1>5

\* The sorted names are the names, whatever order they were listed in.
LEMMA InOrderHolds ==
  ASSUME NEW names, names \subseteq Range(NameOrder), NEW order
  PROVE  InOrder(names, order) \in Seq(names) /\ At(InOrder(names, order)) = names
<1> DEFINE n == Len(NameOrder)
           c == Sorted(names)
           First(k) == names \cap {NameOrder[j] : j \in 1..k}
           Good(k) == c[k] \in Seq(names) /\ At(c[k]) = First(k)
           T == {k \in 0..n : ~Good(k)}
<1>1. /\ n \in Nat /\ DOMAIN NameOrder = 1..n
      /\ \A j \in 1..n : NameOrder[j] \in Range(NameOrder)
  BY NameOrderAssumption
<1>2. SortedUpTo(names, c, n)
  <2>1. c = CHOOSE f : SortedUpTo(names, f, n)
    BY DEF Sorted, SortedUpTo
  <2>2. QED
    BY <1>1, <2>1, SortedExists
<1>3. Range(NameOrder) = {NameOrder[j] : j \in 1..n}
  BY <1>1 DEF Range
<1>4. First(n) = names
  BY <1>3
<1>5. Good(n) => InOrder(names, order) \in Seq(names) /\ At(InOrder(names, order)) = names
  BY <1>4 DEF InOrder
<1> HIDE DEF n, c
<1>6. T = {}
  <2> HIDE DEF Good
  <2>1. SUFFICES ASSUME T # {} PROVE FALSE
    OBVIOUS
  <2>2. PICK k \in T : \A h \in T : k <= h
    <3>1. T \subseteq Nat
      BY <1>1
    <3> HIDE DEF T
    <3> QED
      BY <2>1, <3>1, LeastNumber
  <2>3. k \in 0..n /\ ~Good(k)
    OBVIOUS
  <2>4. k # 0 => k \in 1..n /\ k - 1 \in 0..n /\ Good(k - 1)
    BY <1>1, <2>2, <2>3
  <2> HIDE DEF T
  <2>5. k # 0
    <3>1. c[0] = <<>>
      BY <1>1, <1>2 DEF SortedUpTo
    <3>2. First(0) = {} /\ At(<<>>) = {} /\ <<>> \in Seq(names)
      BY DEF At
    <3>3. QED
      BY <2>3, <3>1, <3>2 DEF Good
  <2>6. c[k - 1] \in Seq(names) /\ At(c[k - 1]) = First(k - 1)
    BY <2>4, <2>5 DEF Good
  <2>7. c[k] = IF NameOrder[k] \in names THEN Append(c[k - 1], NameOrder[k]) ELSE c[k - 1]
    <3>1. c[k] = IF k = 0 THEN <<>>
                 ELSE IF NameOrder[k] \in names THEN Append(c[k - 1], NameOrder[k]) ELSE c[k - 1]
      BY <1>2, <2>3, Zenon DEF SortedUpTo
    <3>2. QED
      BY <2>5, <3>1, Zenon
  <2>8. 1..k = (1..(k - 1)) \cup {k}
    BY <1>1, <2>4, <2>5
  <2>9. First(k) = IF NameOrder[k] \in names THEN First(k - 1) \cup {NameOrder[k]} ELSE First(k - 1)
    BY <2>8
  <2>10. CASE NameOrder[k] \in names
    <3> HIDE DEF First
    <3>1. At(c[k]) = At(c[k - 1]) \cup {NameOrder[k]} /\ c[k] \in Seq(names)
      BY <2>6, <2>7, <2>10, AtAppend
    <3>2. QED
      BY <2>3, <2>6, <2>9, <2>10, <3>1 DEF Good
  <2>11. CASE NameOrder[k] \notin names
    <3> HIDE DEF First
    <3> QED
      BY <2>3, <2>6, <2>7, <2>9, <2>11 DEF Good
  <2>12. QED
    BY <2>10, <2>11
<1>7. Good(n)
  <2> HIDE DEF Good
  <2> QED
    BY <1>1, <1>6
<1>8. QED
  BY <1>5, <1>7

-----------------------------------------------------------------------------
Letters == Range(NameOrder)

Dirs(t) == {p \in DOMAIN t : t[p].type = "dir"}

\* What a path leads through are directories of the tree.
Tree(t) ==
  /\ Root \in Dirs(t)
  /\ \A p \in DOMAIN t : /\ p \in Seq(Letters)
                         /\ \A n \in 0..(Len(p) - 1) : SubSeq(p, 1, n) \in Dirs(t)

LEMMA PathSplit ==
  ASSUME NEW S, NEW p \in Seq(S), p # <<>>
  PROVE  /\ Front(p) \in Seq(S) /\ Last(p) \in S
         /\ p = Append(Front(p), Last(p))
<1>1. Len(p) \in Nat /\ Len(p) # 0
  OBVIOUS
<1>2. Front(p) = SubSeq(p, 1, Len(p) - 1) /\ Last(p) = p[Len(p)]
  BY DEF Front, Last
<1>3. QED
  BY <1>1, <1>2

\* The paths in a directory are named by their last names, each found.
LEMMA NamedHolds ==
  ASSUME NEW t, Tree(t), NEW dir, NEW ps, ps \subseteq Children(t, dir), NEW order
  PROVE  Named(dir, Names(ps), order) \in Seq(ps) /\ At(Named(dir, Names(ps), order)) = ps
<1> DEFINE sorted == InOrder(Names(ps), order)
           named == Named(dir, Names(ps), order)
<1>1. ASSUME NEW p \in ps
      PROVE  p = Append(dir, Last(p)) /\ Last(p) \in Letters
  <2>1. p \in Seq(Letters) /\ p # <<>> /\ Front(p) = dir
    BY DEF Tree, Children, Root
  <2>2. QED
    BY <2>1, PathSplit
<1>2. Names(ps) \subseteq Letters
  BY <1>1 DEF Names
<1>3. sorted \in Seq(Names(ps)) /\ At(sorted) = Names(ps)
  BY <1>2, InOrderHolds DEF Letters
<1>4. named = [i \in DOMAIN sorted |-> Append(dir, sorted[i])]
  BY DEF Named
<1> HIDE DEF sorted, named
<1>5. DOMAIN sorted = 1..Len(sorted) /\ Len(sorted) \in Nat
      /\ \A i \in 1..Len(sorted) : sorted[i] \in Names(ps)
  BY <1>3
<1>6. \A x \in Names(ps) : Append(dir, x) \in ps
  BY <1>1 DEF Names
<1>7. DOMAIN named = 1..Len(sorted) /\ \A i \in 1..Len(sorted) : named[i] = Append(dir, sorted[i])
  BY <1>4, <1>5
<1>8. named \in Seq(ps) /\ Len(named) = Len(sorted)
  <2>1. \A i \in 1..Len(sorted) : Append(dir, sorted[i]) \in ps
    BY <1>5, <1>6
  <2>2. named = [i \in 1..Len(sorted) |-> Append(dir, sorted[i])]
    BY <1>4, <1>5
  <2>3. QED
    BY <1>5, <2>1, <2>2
<1>9. ASSUME NEW p \in ps PROVE p \in At(named)
  <2>1. Last(p) \in At(sorted)
    BY <1>3 DEF Names
  <2>2. PICK i \in 1..Len(sorted) : sorted[i] = Last(p)
    BY <2>1 DEF At
  <2>3. named[i] = p
    BY <1>1, <1>7, <2>2
  <2>4. QED
    BY <1>8, <2>3 DEF At
<1>10. At(named) \subseteq ps
  BY <1>8 DEF At
<1>11. QED
  BY <1>8, <1>9, <1>10 DEF named

LEMMA HeadTail ==
  ASSUME NEW S, NEW s \in Seq(S), s # <<>>
  PROVE  /\ Head(s) \in S /\ Tail(s) \in Seq(S)
         /\ At(s) = {Head(s)} \cup At(Tail(s))
<1>1. Len(s) \in Nat \ {0} /\ Head(s) = s[1] /\ s[1] \in S
  OBVIOUS
<1>2. /\ Tail(s) \in Seq(S) /\ Len(Tail(s)) = Len(s) - 1
      /\ \A i \in 1..(Len(s) - 1) : Tail(s)[i] = s[i + 1]
  OBVIOUS
<1>3. ASSUME NEW x \in At(s) PROVE x = Head(s) \/ x \in At(Tail(s))
  <2>1. PICK i \in 1..Len(s) : x = s[i]
    BY DEF At
  <2>2. CASE i = 1
    BY <1>1, <2>1, <2>2
  <2>3. CASE i # 1
    <3>1. i - 1 \in 1..(Len(s) - 1) /\ (i - 1) + 1 = i
      BY <1>1, <2>3
    <3>2. Tail(s)[i - 1] = x
      BY <1>2, <2>1, <3>1
    <3>3. QED
      BY <1>2, <3>1, <3>2 DEF At
  <2>4. QED
    BY <2>2, <2>3
<1>4. ASSUME NEW x \in At(Tail(s)) PROVE x \in At(s)
  <2>1. PICK i \in 1..(Len(s) - 1) : x = Tail(s)[i]
    BY <1>2 DEF At
  <2>2. i + 1 \in 1..Len(s) /\ x = s[i + 1]
    BY <1>1, <1>2, <2>1
  <2>3. QED
    BY <2>2 DEF At
<1>5. Head(s) \in At(s)
  BY <1>1 DEF At
<1>6. At(s) = {Head(s)} \cup At(Tail(s))
  BY <1>3, <1>4, <1>5
<1>7. QED
  BY <1>1, <1>2, <1>6

LEMMA AtConcat ==
  ASSUME NEW S, NEW s \in Seq(S), NEW r \in Seq(S)
  PROVE  s \o r \in Seq(S) /\ Len(s \o r) = Len(s) + Len(r) /\ At(s \o r) = At(s) \cup At(r)
<1>1. s \o r \in Seq(S) /\ Len(s \o r) = Len(s) + Len(r) /\ Len(s) \in Nat /\ Len(r) \in Nat
  OBVIOUS
<1>2. \A i \in 1..Len(s) : (s \o r)[i] = s[i]
  OBVIOUS
<1>3. \A i \in 1..Len(r) : (s \o r)[Len(s) + i] = r[i]
  OBVIOUS
<1>4. At(s) \subseteq At(s \o r)
  BY <1>1, <1>2 DEF At
<1>5. ASSUME NEW x \in At(r) PROVE x \in At(s \o r)
  <2>1. PICK i \in 1..Len(r) : x = r[i]
    BY DEF At
  <2>2. Len(s) + i \in 1..Len(s \o r) /\ (s \o r)[Len(s) + i] = x
    BY <1>1, <1>3, <2>1
  <2>3. QED
    BY <2>2 DEF At
<1>6. ASSUME NEW x \in At(s \o r) PROVE x \in At(s) \cup At(r)
  <2>1. PICK i \in 1..(Len(s) + Len(r)) : x = (s \o r)[i]
    BY <1>1 DEF At
  <2>2. CASE i \in 1..Len(s)
    BY <1>2, <2>1, <2>2 DEF At
  <2>3. CASE i \notin 1..Len(s)
    <3>1. i - Len(s) \in 1..Len(r) /\ i = Len(s) + (i - Len(s))
      BY <1>1, <2>3
    <3>2. x = r[i - Len(s)]
      BY <1>3, <2>1, <3>1
    <3>3. QED
      BY <3>1, <3>2 DEF At
  <2>4. QED
    BY <2>2, <2>3
<1>7. QED
  BY <1>1, <1>4, <1>5, <1>6

\* One step of the walk lists the directory if it shows, and all that shows in it
\* and is no directory.
InDir(t, dir) ==
  {p \in Shown(t) : p = dir \/ (p \in Children(t, dir) /\ t[p].type # "dir")}

LEMMA EntriesHold ==
  ASSUME NEW t, Tree(t), NEW dir \in Dirs(t), NEW order
  PROVE  Entries(t, dir, order) \in Seq(Shown(t)) /\ At(Entries(t, dir, order)) = InDir(t, dir)
<1> DEFINE S == Shown(t)
           itself == IF option.root \/ dir # Root THEN <<dir>> ELSE <<>>
           pf == PlainFiles(t, dir)
           ld == LinksToDirs(t, dir)
           f == Named(dir, Names(pf), order)
           l == Named(dir, Names(ld), order)
<1>1. /\ pf \subseteq Children(t, dir) /\ ld \subseteq Children(t, dir)
      /\ pf \subseteq S /\ ld \subseteq S
      /\ pf \cup ld = {p \in S : p \in Children(t, dir) /\ t[p].type # "dir"}
  BY DEF PlainFiles, LinksToDirs, Shown, Children, Root
<1>2. f \in Seq(pf) /\ At(f) = pf /\ l \in Seq(ld) /\ At(l) = ld
  BY <1>1, NamedHolds
<1>3. itself \in Seq(S) /\ At(itself) = {p \in S : p = dir}
  <2>1. dir \in S <=> option.root \/ dir # Root
    BY DEF Shown, Dirs
  <2>2. CASE option.root \/ dir # Root
    <3>1. itself = <<dir>> /\ dir \in S
      BY <2>1, <2>2
    <3>2. At(<<dir>>) = {dir}
      BY DEF At
    <3> HIDE DEF S, itself
    <3>3. QED
      BY <3>1, <3>2
  <2>3. CASE ~(option.root \/ dir # Root)
    <3>1. itself = <<>> /\ dir \notin S
      BY <2>1, <2>3
    <3>2. At(<<>>) = {}
      BY DEF At
    <3> HIDE DEF S, itself
    <3>3. QED
      BY <3>1, <3>2
  <2>4. QED
    BY <2>2, <2>3
<1>4. Entries(t, dir, order) = itself \o f \o l
  BY DEF Entries
<1> HIDE DEF S, itself, f, l, pf, ld
<1>5. f \in Seq(S) /\ l \in Seq(S)
  BY <1>1, <1>2
<1>6. itself \o f \in Seq(S) /\ At(itself \o f) = At(itself) \cup At(f)
  BY <1>3, <1>5, AtConcat
<1>7. itself \o f \o l \in Seq(S) /\ At(itself \o f \o l) = At(itself \o f) \cup At(l)
  <2> DEFINE begun == itself \o f
  <2>1. begun \in Seq(S)
    BY <1>6
  <2> HIDE DEF begun
  <2>2. begun \o l \in Seq(S) /\ At(begun \o l) = At(begun) \cup At(l)
    BY <1>5, <2>1, AtConcat
  <2>3. QED
    BY <2>2 DEF begun
<1>8. QED
  BY <1>1, <1>2, <1>3, <1>4, <1>6, <1>7 DEF InDir, S

LineSet(t) == {Line(p, t[p]) : p \in Shown(t)}

LEMMA LinesHold ==
  ASSUME NEW t, Tree(t), NEW dir \in Dirs(t), NEW order
  PROVE  /\ Lines(t, dir, order) \in Seq(LineSet(t))
         /\ \A p \in InDir(t, dir) : Line(p, t[p]) \in At(Lines(t, dir, order))
<1> DEFINE these == Entries(t, dir, order)
           lines == Lines(t, dir, order)
<1>1. these \in Seq(Shown(t)) /\ At(these) = InDir(t, dir)
  BY EntriesHold
<1>2. lines = [i \in DOMAIN these |-> Line(these[i], t[these[i]])]
  BY DEF Lines
<1> HIDE DEF these, lines
<1>3. /\ Len(these) \in Nat /\ DOMAIN these = 1..Len(these)
      /\ \A i \in 1..Len(these) : these[i] \in Shown(t)
  BY <1>1
<1>4. \A i \in 1..Len(these) : Line(these[i], t[these[i]]) \in LineSet(t)
  BY <1>3 DEF LineSet
<1>5. lines = [i \in 1..Len(these) |-> Line(these[i], t[these[i]])]
  BY <1>2, <1>3
<1>6. lines \in Seq(LineSet(t)) /\ Len(lines) = Len(these)
  BY <1>3, <1>4, <1>5
<1>7. ASSUME NEW p \in InDir(t, dir) PROVE Line(p, t[p]) \in At(lines)
  <2>1. PICK i \in 1..Len(these) : these[i] = p
    BY <1>1 DEF At
  <2>2. lines[i] = Line(p, t[p])
    BY <1>5, <2>1
  <2>3. QED
    BY <1>6, <2>2 DEF At
<1>8. QED
  BY <1>6, <1>7 DEF lines

\* The directories in a directory.
DirsIn(t, dir) == {p \in Children(t, dir) : t[p].type = "dir"}

LEMMA SubdirsHold ==
  ASSUME NEW t, Tree(t), NEW dir, NEW order
  PROVE  /\ Subdirs(t, dir, order) \in Seq(Dirs(t))
         /\ At(Subdirs(t, dir, order)) = DirsIn(t, dir)
<1> DEFINE ps == DirsIn(t, dir)
           named == Named(dir, Names(ps), order)
<1>1. ps \subseteq Children(t, dir) /\ ps \subseteq Dirs(t)
  BY DEF DirsIn, Dirs, Children
<1>2. Subdirs(t, dir, order) = named
  BY DEF Subdirs, DirsIn
<1> HIDE DEF ps
<1>3. named \in Seq(ps) /\ At(named) = ps
  BY <1>1, NamedHolds
<1> HIDE DEF named
<1>4. named \in Seq(Dirs(t))
  BY <1>1, <1>3
<1>5. QED
  BY <1>2, <1>3, <1>4 DEF ps

-----------------------------------------------------------------------------
\* Trees that agree in what matters are walked alike.
Alike(t, u) ==
  /\ Tree(t) /\ Tree(u)
  /\ Matter(t) = Matter(u)
  /\ \A p \in DOMAIN t \cap DOMAIN u : t[p].host = u[p].host

LEMMA AlikeShown ==
  ASSUME NEW t, NEW u, Alike(t, u)
  PROVE  /\ Alike(u, t)
         /\ \A p \in Shown(t) : /\ p \in Shown(u) /\ p \in DOMAIN t /\ p \in DOMAIN u
                                /\ Line(p, t[p]) = Line(p, u[p])
                                /\ t[p].type = u[p].type /\ t[p].host = u[p].host
<1>1. DOMAIN Matter(t) = Shown(t) /\ DOMAIN Matter(u) = Shown(u)
  BY DEF Matter
<1>2. Shown(t) = Shown(u)
  BY <1>1 DEF Alike
<1>3. ASSUME NEW p \in Shown(t)
      PROVE  Line(p, t[p]) = Line(p, u[p])
  <2>1. Matter(t)[p] = Line(p, t[p]) /\ Matter(u)[p] = Line(p, u[p])
    BY <1>2, Zenon DEF Matter
  <2>2. QED
    BY <2>1 DEF Alike
<1>4. \A p, e : Line(p, e).type = e.type
  BY DEF Line
<1>5. \A p \in Shown(t) : t[p].type = u[p].type
  BY <1>3, <1>4
<1>6. Shown(t) \subseteq DOMAIN t /\ Shown(u) \subseteq DOMAIN u
  BY DEF Shown
<1>7. \A p \in Shown(t) : t[p].host = u[p].host
  BY <1>2, <1>6 DEF Alike
<1>8. Alike(u, t)
  BY DEF Alike
<1>9. QED
  BY <1>2, <1>3, <1>5, <1>6, <1>7, <1>8

LEMMA AlikeIn ==
  ASSUME NEW t, NEW u, Alike(t, u), NEW dir
  PROVE  /\ Dirs(t) \subseteq Dirs(u)
         /\ PlainFiles(t, dir) \subseteq PlainFiles(u, dir)
         /\ LinksToDirs(t, dir) \subseteq LinksToDirs(u, dir)
         /\ DirsIn(t, dir) \subseteq DirsIn(u, dir)
<1>1. ASSUME NEW p \in DOMAIN t, p # Root, t[p].type = "dir"
      PROVE  p \in Dirs(u)
  <2>1. p \in Shown(t)
    BY <1>1 DEF Shown
  <2>2. QED
    BY <1>1, <2>1, AlikeShown DEF Dirs
<1>2. Root \in Dirs(u)
  BY DEF Alike, Tree
<1>3. ASSUME NEW p \in PlainFiles(t, dir) PROVE p \in PlainFiles(u, dir)
  <2>1. /\ p \in DOMAIN t /\ p # Root /\ Front(p) = dir
        /\ t[p].type # "dir" /\ Last(p) # "fixmepath"
        /\ ~(t[p].type = "link" /\ t[p].host)
    BY DEF PlainFiles, LinksToDirs, Children
  <2>2. p \in Shown(t)
    BY <2>1 DEF Shown
  <2>3. p \in DOMAIN u /\ t[p].type = u[p].type /\ t[p].host = u[p].host
    BY <2>2, AlikeShown
  <2>4. QED
    BY <2>1, <2>3, Zenon DEF PlainFiles, LinksToDirs, Children
<1>4. ASSUME NEW p \in LinksToDirs(t, dir) PROVE p \in LinksToDirs(u, dir)
  <2>1. /\ p \in DOMAIN t /\ p # Root /\ Front(p) = dir
        /\ t[p].type = "link" /\ t[p].host
    BY DEF LinksToDirs, Children
  <2>2. p \in Shown(t)
    BY <2>1 DEF Shown
  <2>3. p \in DOMAIN u /\ t[p].type = u[p].type /\ t[p].host = u[p].host
    BY <2>2, AlikeShown
  <2>4. QED
    BY <2>1, <2>3, Zenon DEF LinksToDirs, Children
<1>5. DirsIn(t, dir) \subseteq DirsIn(u, dir)
  BY <1>1 DEF DirsIn, Dirs, Children
<1>6. Dirs(t) \subseteq Dirs(u)
  BY <1>1, <1>2 DEF Dirs
<1>7. QED
  BY <1>3, <1>4, <1>5, <1>6

LEMMA AlikeSteps ==
  ASSUME NEW t, NEW u, Alike(t, u), NEW dir \in Dirs(t), NEW o, NEW q
  PROVE  Lines(t, dir, o) = Lines(u, dir, q) /\ Subdirs(t, dir, o) = Subdirs(u, dir, q)
<1>1. Alike(u, t)
  BY AlikeShown
<1>2. /\ PlainFiles(t, dir) = PlainFiles(u, dir)
      /\ LinksToDirs(t, dir) = LinksToDirs(u, dir)
      /\ DirsIn(t, dir) = DirsIn(u, dir)
  <2>1. /\ PlainFiles(t, dir) \subseteq PlainFiles(u, dir)
        /\ LinksToDirs(t, dir) \subseteq LinksToDirs(u, dir)
        /\ DirsIn(t, dir) \subseteq DirsIn(u, dir)
    BY AlikeIn
  <2>2. /\ PlainFiles(u, dir) \subseteq PlainFiles(t, dir)
        /\ LinksToDirs(u, dir) \subseteq LinksToDirs(t, dir)
        /\ DirsIn(u, dir) \subseteq DirsIn(t, dir)
    BY <1>1, AlikeIn
  <2>3. QED
    BY <2>1, <2>2
<1>3. \A ps : Named(dir, Names(ps), o) = Named(dir, Names(ps), q)
  BY Zenon DEF Named, InOrder
<1>4. Subdirs(t, dir, o) = Subdirs(u, dir, q)
  BY <1>2, <1>3, Zenon DEF Subdirs, DirsIn
<1> DEFINE these == Entries(t, dir, o)
<1>5. these = Entries(u, dir, q)
  BY <1>2, <1>3, Zenon DEF Entries
<1>6. these \in Seq(Shown(t))
  BY EntriesHold DEF Alike
<1>7. /\ Lines(t, dir, o) = [i \in DOMAIN these |-> Line(these[i], t[these[i]])]
      /\ Lines(u, dir, q) = [i \in DOMAIN these |-> Line(these[i], u[these[i]])]
  BY <1>5, Zenon DEF Lines
<1> HIDE DEF these
<1>8. ASSUME NEW i \in DOMAIN these
      PROVE  Line(these[i], t[these[i]]) = Line(these[i], u[these[i]])
  <2>1. these[i] \in Shown(t)
    BY <1>6
  <2>2. QED
    BY <2>1, AlikeShown
<1>9. Lines(t, dir, o) = Lines(u, dir, q)
  BY <1>7, <1>8, Zenon
<1>10. QED
  BY <1>4, <1>9

-----------------------------------------------------------------------------
Under(d, p) == Len(d) <= Len(p) /\ SubSeq(p, 1, Len(d)) = d

\* What lies under a directory is listed with it or lies under one of the
\* directories in it.
LEMMA Below ==
  ASSUME NEW t, Tree(t), NEW dir \in Dirs(t), NEW p \in Shown(t), Under(dir, p)
  PROVE  p \in InDir(t, dir) \/ \E d \in DirsIn(t, dir) : Under(d, p)
<1> DEFINE n == Len(dir)
<1>1. /\ dir \in Seq(Letters) /\ p \in Seq(Letters) /\ p \in DOMAIN t
      /\ n \in Nat /\ Len(p) \in Nat /\ n <= Len(p) /\ SubSeq(p, 1, n) = dir
  BY DEF Tree, Dirs, Shown, Under
<1>2. CASE Len(p) = n
  <2>1. p = dir
    BY <1>1, <1>2
  <2>2. QED
    BY <2>1 DEF InDir
<1>3. CASE Len(p) = n + 1
  <2>1. Front(p) = SubSeq(p, 1, Len(p) - 1) /\ Len(p) - 1 = n
    BY <1>1, <1>3 DEF Front
  <2>2. p # Root
    BY <1>1, <1>3 DEF Root
  <2>3. p \in Children(t, dir)
    BY <1>1, <2>1, <2>2 DEF Children
  <2>4. Under(p, p)
    BY <1>1 DEF Under
  <2>5. QED
    BY <2>3, <2>4 DEF InDir, DirsIn
<1>4. CASE Len(p) > n + 1
  <2> DEFINE c == SubSeq(p, 1, n + 1)
  <2>1. c \in Dirs(t)
    BY <1>1, <1>4 DEF Tree
  <2>2. c \in Seq(Letters) /\ Len(c) = n + 1
    BY <1>1, <1>4
  <2>3. Front(c) = SubSeq(c, 1, n)
    <3>1. Front(c) = SubSeq(c, 1, Len(c) - 1)
      BY DEF Front
    <3>2. Len(c) - 1 = n
      BY <1>1, <2>2
    <3>3. QED
      BY <3>1, <3>2
  <2>4. SubSeq(c, 1, n) = SubSeq(p, 1, n)
    BY <1>1, <1>4
  <2>5. c # Root
    <3> HIDE DEF c
    <3>1. Len(c) # 0 /\ Len(<<>>) = 0
      BY <1>1, <2>2
    <3>2. QED
      BY <3>1 DEF Root
  <2>6. c \in DirsIn(t, dir)
    BY <1>1, <2>1, <2>3, <2>4, <2>5 DEF DirsIn, Children, Dirs
  <2>7. Under(c, p)
    BY <1>1, <1>4, <2>2 DEF Under
  <2>8. QED
    BY <2>6, <2>7
<1>5. QED
  BY <1>1, <1>2, <1>3, <1>4

\* A walk over tree t with n steps: d has the directories to walk after each, l the
\* lines written.  What shows is written or lies under a directory to walk.
Told(t, todos, lines) ==
  \A p \in Shown(t) : Line(p, t[p]) \in At(lines) \/ \E d \in At(todos) : Under(d, p)

Walked(t, o, d, l, n) ==
  /\ d[0] = <<Root>> /\ l[0] = <<>>
  /\ \A k \in 0..n : d[k] \in Seq(Dirs(t)) /\ l[k] \in Seq(LineSet(t)) /\ Told(t, d[k], l[k])
  /\ \A k \in 0..(n - 1) : /\ d[k] # <<>>
                           /\ d[k + 1] = Subdirs(t, Head(d[k]), o) \o Tail(d[k])
                           /\ l[k + 1] = l[k] \o Lines(t, Head(d[k]), o)

Header == [task |-> option.task]

\* A build with these directories to walk and this output came there by a walk.
Going(t, o, todos, fed) ==
  \E n \in Nat : \E d, l : Walked(t, o, d, l, n) /\ todos = d[n] /\ fed = <<Header>> \o l[n]

LEMMA WalkTold ==
  ASSUME NEW t, Tree(t), NEW o, NEW todos \in Seq(Dirs(t)), todos # <<>>,
         NEW lines \in Seq(LineSet(t)), Told(t, todos, lines)
  PROVE  /\ Subdirs(t, Head(todos), o) \o Tail(todos) \in Seq(Dirs(t))
         /\ lines \o Lines(t, Head(todos), o) \in Seq(LineSet(t))
         /\ Told(t, Subdirs(t, Head(todos), o) \o Tail(todos), lines \o Lines(t, Head(todos), o))
<1> DEFINE dir == Head(todos)
           subs == Subdirs(t, dir, o)
           more == Lines(t, dir, o)
           rest == Tail(todos)
<1>1. dir \in Dirs(t) /\ rest \in Seq(Dirs(t))
  BY HeadTail
<1>2. subs \in Seq(Dirs(t)) /\ At(subs) = DirsIn(t, dir)
  BY SubdirsHold
<1>3. more \in Seq(LineSet(t)) /\ \A p \in InDir(t, dir) : Line(p, t[p]) \in At(more)
  BY <1>1, LinesHold
<1>4. At(todos) \subseteq {dir} \cup At(rest)
  BY HeadTail
<1> HIDE DEF dir, subs, more, rest
<1>5. subs \o rest \in Seq(Dirs(t)) /\ At(subs \o rest) = At(subs) \cup At(rest)
  BY <1>1, <1>2, AtConcat
<1>6. lines \o more \in Seq(LineSet(t)) /\ At(lines \o more) = At(lines) \cup At(more)
  BY <1>3, AtConcat
<1>7. ASSUME NEW p \in Shown(t), Line(p, t[p]) \notin At(lines \o more)
      PROVE  \E d \in At(subs \o rest) : Under(d, p)
  <2>1. PICK d \in At(todos) : Under(d, p)
    BY <1>6, <1>7 DEF Told
  <2>2. CASE d \in At(rest)
    BY <1>5, <2>1, <2>2
  <2>3. CASE d = dir
    <3>1. p \notin InDir(t, dir)
      BY <1>3, <1>6, <1>7
    <3>2. \E c \in DirsIn(t, dir) : Under(c, p)
      BY <1>1, <2>1, <2>3, <3>1, Below
    <3>3. QED
      BY <1>2, <1>5, <3>2
  <2>4. QED
    BY <1>4, <2>1, <2>2, <2>3
<1>8. Told(t, subs \o rest, lines \o more)
  BY <1>7 DEF Told
<1>9. QED
  BY <1>5, <1>6, <1>8 DEF dir, subs, more, rest

LEMMA GoingStarts ==
  ASSUME NEW t, Tree(t), NEW o
  PROVE  Going(t, o, <<Root>>, <<Header>>)
<1> DEFINE d == [k \in 0..0 |-> <<Root>>]
           l == [k \in 0..0 |-> <<>>]
<1>1. d[0] = <<Root>> /\ l[0] = <<>>
  OBVIOUS
<1>2. <<Root>> \in Seq(Dirs(t)) /\ <<>> \in Seq(LineSet(t))
  <2>1. Root \in Dirs(t)
    BY DEF Tree
  <2> DEFINE r == Root
  <2> HIDE DEF r
  <2>2. <<r>> \in Seq(Dirs(t))
    BY <2>1 DEF r
  <2>3. QED
    BY <2>2 DEF r
<1>3. Told(t, <<Root>>, <<>>)
  <2>1. Root \in At(<<Root>>)
    BY DEF At
  <2>2. ASSUME NEW p \in Shown(t) PROVE Under(Root, p)
    <3>1. p \in Seq(Letters)
      BY DEF Tree, Shown
    <3>2. QED
      BY <3>1 DEF Under, Root
  <2>3. QED
    BY <2>1, <2>2 DEF Told
<1> HIDE DEF d, l
<1>4. \A k \in 0..0 : d[k] \in Seq(Dirs(t)) /\ l[k] \in Seq(LineSet(t)) /\ Told(t, d[k], l[k])
  <2>1. \A k \in 0..0 : k = 0
    OBVIOUS
  <2>2. QED
    BY <1>1, <1>2, <1>3, <2>1, Zenon
<1>5. 0..(0 - 1) = {}
  OBVIOUS
<1>6. Walked(t, o, d, l, 0)
  BY <1>1, <1>4, <1>5, Zenon DEF Walked
<1>7. <<Header>> = <<Header>> \o <<>>
  <2> DEFINE h == Header
  <2> HIDE DEF h
  <2>1. <<h>> = <<h>> \o <<>>
    OBVIOUS
  <2>2. QED
    BY <2>1 DEF h
<1>8. 0 \in Nat
  OBVIOUS
<1>9. <<Root>> = d[0] /\ <<Header>> = <<Header>> \o l[0]
  BY <1>1, <1>7
<1>10. QED
  BY <1>6, <1>8, <1>9, Zenon DEF Going

\* Sequences one after another, however they are grouped.
LEMMA ConcatGroups ==
  ASSUME NEW S, NEW x, NEW s \in Seq(S), NEW r \in Seq(S)
  PROVE  (<<x>> \o s) \o r = <<x>> \o (s \o r)
<1> DEFINE U == S \cup {x}
<1>1. <<x>> \in Seq(U) /\ s \in Seq(U) /\ r \in Seq(U)
  <2>1. x \in U /\ S \subseteq U
    OBVIOUS
  <2> HIDE DEF U
  <2>2. QED
    BY <2>1
<1> DEFINE h == <<x>>
<1> HIDE DEF U, h
<1>2. (h \o s) \o r = h \o (s \o r)
  <2>1. h \in Seq(U)
    BY <1>1 DEF h
  <2>2. QED
    BY <1>1, <2>1
<1>3. QED
  BY <1>2 DEF h

LEMMA GoingGoes ==
  ASSUME NEW t, Tree(t), NEW o, NEW todos, NEW fed, Going(t, o, todos, fed), todos # <<>>
  PROVE  Going(t, o, Subdirs(t, Head(todos), o) \o Tail(todos), fed \o Lines(t, Head(todos), o))
<1>n. PICK n \in Nat : \E d, l : Walked(t, o, d, l, n) /\ todos = d[n] /\ fed = <<Header>> \o l[n]
  BY Zenon DEF Going
<1>1. PICK d, l : Walked(t, o, d, l, n) /\ todos = d[n] /\ fed = <<Header>> \o l[n]
  BY <1>n
<1> DEFINE subs == Subdirs(t, Head(todos), o)
           more == Lines(t, Head(todos), o)
           dn == [k \in 0..(n + 1) |-> IF k = n + 1 THEN subs \o Tail(todos) ELSE d[k]]
           ln == [k \in 0..(n + 1) |-> IF k = n + 1 THEN l[n] \o more ELSE l[k]]
<1>2. n \in 0..n
  OBVIOUS
<1>3. todos \in Seq(Dirs(t)) /\ l[n] \in Seq(LineSet(t)) /\ Told(t, todos, l[n])
  BY <1>1, <1>2, Zenon DEF Walked
<1>4. /\ subs \o Tail(todos) \in Seq(Dirs(t)) /\ l[n] \o more \in Seq(LineSet(t))
      /\ Told(t, subs \o Tail(todos), l[n] \o more)
  BY <1>3, WalkTold
<1>5. more \in Seq(LineSet(t))
  <2>1. Head(todos) \in Dirs(t)
    BY <1>3, HeadTail
  <2>2. QED
    BY <2>1, LinesHold
<1>6. (<<Header>> \o l[n]) \o more = <<Header>> \o (l[n] \o more)
  <2> DEFINE s == l[n]
  <2>1. s \in Seq(LineSet(t))
    BY <1>3
  <2> HIDE DEF more, s
  <2>2. \A x : (<<x>> \o s) \o more = <<x>> \o (s \o more)
    BY <1>5, <2>1, ConcatGroups
  <2>3. (<<Header>> \o s) \o more = <<Header>> \o (s \o more)
    BY <2>2, Zenon
  <2>4. QED
    BY <2>3 DEF s
<1>7. /\ dn[n + 1] = subs \o Tail(todos) /\ ln[n + 1] = l[n] \o more
      /\ \A k \in 0..n : dn[k] = d[k] /\ ln[k] = l[k]
  <2>1. n + 1 \in 0..(n + 1) /\ \A k \in 0..n : k \in 0..(n + 1) /\ k # n + 1
    OBVIOUS
  <2> HIDE DEF subs, more
  <2>2. QED
    BY <2>1, Zenon
<1> HIDE DEF dn, ln
<1>8. dn[0] = <<Root>> /\ ln[0] = <<>>
  <2>1. 0 \in 0..n
    OBVIOUS
  <2>2. dn[0] = d[0] /\ ln[0] = l[0]
    BY <1>7, <2>1, Zenon
  <2>3. QED
    BY <1>1, <2>2, Zenon DEF Walked
<1>9. ASSUME NEW k \in 0..(n + 1)
      PROVE  dn[k] \in Seq(Dirs(t)) /\ ln[k] \in Seq(LineSet(t)) /\ Told(t, dn[k], ln[k])
  <2>1. CASE k = n + 1
    BY <1>4, <1>7, <2>1, Zenon
  <2>2. CASE k \in 0..n
    <3>1. dn[k] = d[k] /\ ln[k] = l[k]
      BY <1>7, <2>2, Zenon
    <3>2. QED
      BY <1>1, <2>2, <3>1, Zenon DEF Walked
  <2>3. QED
    BY <2>1, <2>2
<1>10. ASSUME NEW k \in 0..((n + 1) - 1)
       PROVE  /\ dn[k] # <<>>
              /\ dn[k + 1] = Subdirs(t, Head(dn[k]), o) \o Tail(dn[k])
              /\ ln[k + 1] = ln[k] \o Lines(t, Head(dn[k]), o)
  <2>1. k \in 0..n
    OBVIOUS
  <2>2. dn[k] = d[k] /\ ln[k] = l[k]
    BY <1>7, <2>1, Zenon
  <2>3. CASE k = n
    BY <1>1, <1>7, <2>2, <2>3, Zenon
  <2>4. CASE k # n
    <3>1. k \in 0..(n - 1) /\ k + 1 \in 0..n
      BY <2>1, <2>4
    <3>2. dn[k + 1] = d[k + 1] /\ ln[k + 1] = l[k + 1]
      BY <1>7, <3>1, Zenon
    <3>3. QED
      BY <1>1, <2>2, <3>1, <3>2, Zenon DEF Walked
  <2>5. QED
    BY <2>3, <2>4
<1>11. Walked(t, o, dn, ln, n + 1)
  BY <1>8, <1>9, <1>10, Zenon DEF Walked
<1>12. fed \o more = <<Header>> \o ln[n + 1]
  BY <1>1, <1>6, <1>7, Zenon
<1>13. n + 1 \in Nat
  OBVIOUS
<1>14. QED
  BY <1>7, <1>11, <1>12, <1>13, Zenon DEF Going

\* Two walks over trees that agree in what matters go the same way.
LEMMA SameWay ==
  ASSUME NEW t, NEW u, Alike(t, u), NEW o, NEW q, NEW n \in Nat, NEW m \in Nat,
         NEW d, NEW l, Walked(t, o, d, l, n),
         NEW e, NEW r, Walked(u, q, e, r, m)
  PROVE  \A k \in Nat : k <= n /\ k <= m => d[k] = e[k] /\ l[k] = r[k]
<1> DEFINE Same(k) == d[k] = e[k] /\ l[k] = r[k]
           T == {k \in Nat : k <= n /\ k <= m /\ ~Same(k)}
<1>1. SUFFICES ASSUME T # {} PROVE FALSE
  OBVIOUS
<1>2. PICK k \in T : \A h \in T : k <= h
  <2>1. T \subseteq Nat
    OBVIOUS
  <2> HIDE DEF T
  <2> QED
    BY <1>1, <2>1, LeastNumber
<1>3. k \in Nat /\ k <= n /\ k <= m /\ ~Same(k)
  OBVIOUS
<1>4. Same(0)
  BY Zenon DEF Walked
<1> HIDE DEF Same
<1>5. k # 0
  BY <1>3, <1>4
<1> DEFINE h == k - 1
<1>6. h \in Nat /\ h <= n /\ h <= m /\ h + 1 = k /\ ~(k <= h)
  BY <1>3, <1>5
<1>7. h \in 0..(n - 1) /\ h \in 0..(m - 1) /\ h \in 0..n
  BY <1>3, <1>5
<1>8. Same(h)
  BY <1>2, <1>6
<1> HIDE DEF h, T
<1>9. /\ d[h] # <<>> /\ d[h] \in Seq(Dirs(t))
      /\ d[k] = Subdirs(t, Head(d[h]), o) \o Tail(d[h])
      /\ l[k] = l[h] \o Lines(t, Head(d[h]), o)
  BY <1>6, <1>7, Zenon DEF Walked
<1>10. /\ e[k] = Subdirs(u, Head(e[h]), q) \o Tail(e[h])
       /\ r[k] = r[h] \o Lines(u, Head(e[h]), q)
  BY <1>6, <1>7, Zenon DEF Walked
<1>11. Head(d[h]) \in Dirs(t)
  BY <1>9, HeadTail
<1>12. /\ Lines(t, Head(d[h]), o) = Lines(u, Head(d[h]), q)
       /\ Subdirs(t, Head(d[h]), o) = Subdirs(u, Head(d[h]), q)
  BY <1>11, AlikeSteps
<1>13. Same(k)
  BY <1>8, <1>9, <1>10, <1>12, Zenon DEF Same
<1>14. QED
  BY <1>3, <1>13

\* Trees that agree in what matters give one output.
LEMMA SameOutput ==
  ASSUME NEW t, NEW u, Alike(t, u), NEW o, NEW q, NEW fed, NEW eaten,
         Going(t, o, <<>>, fed), Going(u, q, <<>>, eaten)
  PROVE  fed = eaten
<1>n. PICK n \in Nat : \E d, l : Walked(t, o, d, l, n) /\ <<>> = d[n] /\ fed = <<Header>> \o l[n]
  BY Zenon DEF Going
<1>1. PICK d, l : Walked(t, o, d, l, n) /\ <<>> = d[n] /\ fed = <<Header>> \o l[n]
  BY <1>n
<1>m. PICK m \in Nat : \E e, r : Walked(u, q, e, r, m) /\ <<>> = e[m] /\ eaten = <<Header>> \o r[m]
  BY Zenon DEF Going
<1>2. PICK e, r : Walked(u, q, e, r, m) /\ <<>> = e[m] /\ eaten = <<Header>> \o r[m]
  BY <1>m
<1>3. \A k \in Nat : k <= n /\ k <= m => d[k] = e[k] /\ l[k] = r[k]
  <2>1. Walked(t, o, d, l, n) /\ Walked(u, q, e, r, m)
    BY <1>1, <1>2
  <2>2. QED
    BY <2>1, SameWay, SMTT(30)
<1>4. ~(n < m)
  <2>1. SUFFICES ASSUME n < m PROVE FALSE
    OBVIOUS
  <2>2. n \in 0..(m - 1) /\ n <= n /\ n <= m
    BY <2>1
  <2>3. e[n] # <<>>
    BY <1>2, <2>2, Zenon DEF Walked
  <2>4. QED
    BY <1>1, <1>3, <2>2, <2>3, Zenon
<1>5. ~(m < n)
  <2>1. SUFFICES ASSUME m < n PROVE FALSE
    OBVIOUS
  <2>2. m \in 0..(n - 1) /\ m <= n /\ m <= m
    BY <2>1
  <2>3. d[m] # <<>>
    BY <1>1, <2>2, Zenon DEF Walked
  <2>4. QED
    BY <1>2, <1>3, <2>2, <2>3, Zenon
<1>6. n = m /\ n <= n
  BY <1>4, <1>5
<1>7. QED
  BY <1>1, <1>2, <1>3, <1>6, Zenon

\* One sequence after another.
LEMMA ConcatHolds ==
  ASSUME NEW S, NEW s \in Seq(S), NEW r \in Seq(S)
  PROVE  /\ s \o r \in Seq(S) /\ Len(s \o r) = Len(s) + Len(r)
         /\ \A i \in 1..Len(s) : (s \o r)[i] = s[i]
         /\ \A i \in 1..Len(r) : (s \o r)[Len(s) + i] = r[i]
<1>1. s \o r \in Seq(S) /\ Len(s \o r) = Len(s) + Len(r)
  BY SMTT(30)
<1>2. \A i \in 1..Len(s) : (s \o r)[i] = s[i]
  BY SMTT(30)
<1>3. \A i \in 1..Len(r) : (s \o r)[Len(s) + i] = r[i]
  BY SMTT(30)
<1>4. QED
  BY <1>1, <1>2, <1>3

\* Sequences that hold the same are one.
LEMMA SameElements ==
  ASSUME NEW S, NEW s \in Seq(S), NEW r \in Seq(S), Len(s) = Len(r), \A i \in 1..Len(s) : s[i] = r[i]
  PROVE  s = r
BY SMTT(30)

LEMMA SameAfter ==
  ASSUME NEW S, NEW h \in Seq(S), NEW s \in Seq(S), NEW v \in Seq(S), h \o s = h \o v
  PROVE  s = v
<1>1. /\ Len(h) \in Nat /\ Len(s) \in Nat /\ Len(v) \in Nat
      /\ Len(h \o s) = Len(h) + Len(s) /\ Len(h \o v) = Len(h) + Len(v)
  OBVIOUS
<1>2. Len(s) = Len(v)
  BY <1>1
<1>3. ASSUME NEW i \in 1..Len(s) PROVE s[i] = v[i]
  <2>1. (h \o s)[Len(h) + i] = s[i]
    BY ConcatHolds
  <2>2. (h \o v)[Len(h) + i] = v[i]
    BY <1>2, ConcatHolds
  <2>3. QED
    BY <2>1, <2>2
<1>4. QED
  BY <1>2, <1>3, SameElements

\* One output tells what matters of the tree.
LEMMA OutputTells ==
  ASSUME NEW t, NEW u, Tree(t), Tree(u), NEW o, NEW q, NEW fed,
         Going(t, o, <<>>, fed), Going(u, q, <<>>, fed)
  PROVE  \A p \in Shown(t) : p \in Shown(u) /\ Line(p, t[p]) = Line(p, u[p])
<1>n. PICK n \in Nat : \E d, l : Walked(t, o, d, l, n) /\ <<>> = d[n] /\ fed = <<Header>> \o l[n]
  BY Zenon DEF Going
<1>1. PICK d, l : Walked(t, o, d, l, n) /\ <<>> = d[n] /\ fed = <<Header>> \o l[n]
  BY <1>n
<1>m. PICK m \in Nat : \E e, r : Walked(u, q, e, r, m) /\ <<>> = e[m] /\ fed = <<Header>> \o r[m]
  BY Zenon DEF Going
<1>2. PICK e, r : Walked(u, q, e, r, m) /\ <<>> = e[m] /\ fed = <<Header>> \o r[m]
  BY <1>m
<1>3. n \in 0..n /\ m \in 0..m
  OBVIOUS
<1>4. /\ l[n] \in Seq(LineSet(t)) /\ Told(t, <<>>, l[n])
      /\ r[m] \in Seq(LineSet(u)) /\ Told(u, <<>>, r[m])
  BY <1>1, <1>2, <1>3, Zenon DEF Walked
<1> DEFINE s == l[n]
           v == r[m]
           S == LineSet(t) \cup LineSet(u)
<1>5. s \in Seq(S) /\ v \in Seq(S) /\ v \in Seq(LineSet(u))
  <2>1. LineSet(t) \subseteq S /\ LineSet(u) \subseteq S
    OBVIOUS
  <2>2. s \in Seq(LineSet(t)) /\ v \in Seq(LineSet(u))
    BY <1>4
  <2> HIDE DEF s, v, S
  <2>3. QED
    BY <2>1, <2>2
<1>6. <<Header>> \o s = <<Header>> \o v
  BY <1>1, <1>2
<1>7. Told(t, <<>>, s)
  BY <1>4
<1> HIDE DEF s, v, S
<1>8. \A x : <<x>> \o s = <<x>> \o v => s = v
  <2>1. ASSUME NEW x, <<x>> \o s = <<x>> \o v PROVE s = v
    <3> DEFINE U == S \cup {x}
               h == <<x>>
    <3>1. x \in U /\ S \subseteq U
      OBVIOUS
    <3> HIDE DEF U
    <3>2. h \in Seq(U) /\ s \in Seq(U) /\ v \in Seq(U) /\ h \o s = h \o v
      BY <1>5, <2>1, <3>1
    <3> HIDE DEF h
    <3>3. QED
      BY <3>2, SameAfter
  <2>2. QED
    BY <2>1
<1>9. s = v
  BY <1>6, <1>8, Zenon
<1>10. ASSUME NEW p \in Shown(t)
       PROVE  p \in Shown(u) /\ Line(p, t[p]) = Line(p, u[p])
  <2>1. At(<<>>) = {}
    BY DEF At
  <2>2. Line(p, t[p]) \in At(v)
    BY <1>7, <1>9, <2>1 DEF Told
  <2>3. At(v) \subseteq LineSet(u)
    BY <1>5 DEF At
  <2>4. PICK w \in Shown(u) : Line(p, t[p]) = Line(w, u[w])
    BY <2>2, <2>3 DEF LineSet
  <2>5. \A x, y : Line(x, y).path = x
    BY DEF Line
  <2>6. p = w
    <3>1. Line(p, t[p]).path = p /\ Line(w, u[w]).path = w
      BY <2>5, Zenon
    <3>2. QED
      BY <2>4, <3>1, Zenon
  <2>7. QED
    BY <2>4, <2>6
<1>11. QED
  BY <1>10

LEMMA OutputTellsMatter ==
  ASSUME NEW t, NEW u, Tree(t), Tree(u), NEW o, NEW q, NEW fed,
         Going(t, o, <<>>, fed), Going(u, q, <<>>, fed)
  PROVE  Matter(t) = Matter(u)
<1>1. \A p \in Shown(t) : p \in Shown(u) /\ Line(p, t[p]) = Line(p, u[p])
  BY OutputTells
<1>2. \A p \in Shown(u) : p \in Shown(t)
  BY OutputTells
<1>3. Shown(t) = Shown(u)
  BY <1>1, <1>2
<1>4. QED
  BY <1>1, <1>3, Zenon DEF Matter

\* Each build has walked to where it is.
HashInv ==
  /\ trees \in TreePairs
  /\ todo = [b \in Builds |-> todo[b]] /\ hashed = [b \in Builds |-> hashed[b]]
  /\ \A b \in Builds : Going(trees[b], listing[b], todo[b], hashed[b])

LEMMA TreesHold == ASSUME trees \in TreePairs, NEW b \in Builds PROVE Tree(trees[b])
<1>1. \A p \in DOMAIN trees[b] :
         /\ p \in Seq(Range(NameOrder))
         /\ \A n \in 0..(Len(p) - 1) : /\ SubSeq(p, 1, n) \in DOMAIN trees[b]
                                       /\ trees[b][SubSeq(p, 1, n)].type = "dir"
  BY TreesAssumption, Zenon DEF Builds
<1>2. <<>> \in DOMAIN trees[b] /\ trees[b][<<>>].type = "dir"
  BY RootAssumption, Zenon DEF Builds
<1>3. QED
  BY <1>1, <1>2, Zenon DEF Tree, Dirs, Letters, Root

LEMMA HashStarts == HashInit => HashInv
<1>1. SUFFICES ASSUME HashInit PROVE HashInv
  OBVIOUS
<1>2. trees \in TreePairs
  BY <1>1 DEF HashInit
<1>3. /\ todo = [b \in Builds |-> <<Root>>]
      /\ hashed = [b \in Builds |-> <<Header>>]
  BY <1>1, Zenon DEF HashInit, Header
<1>4. ASSUME NEW b \in Builds PROVE Going(trees[b], listing[b], todo[b], hashed[b])
  <2>1. Going(trees[b], listing[b], <<Root>>, <<Header>>)
    BY <1>2, TreesHold, GoingStarts
  <2>2. todo[b] = <<Root>> /\ hashed[b] = <<Header>>
    BY <1>3, Zenon
  <2>3. QED
    BY <2>1, <2>2, Zenon
<1>5. todo = [b \in Builds |-> todo[b]] /\ hashed = [b \in Builds |-> hashed[b]]
  BY <1>3, Zenon
<1>6. QED
  BY <1>2, <1>4, <1>5, Zenon DEF HashInv

\* Where the options stay, what a walk is stays.
LEMMA GoingStays ==
  ASSUME option' = option, NEW t, NEW o, NEW todos, NEW fed, Going(t, o, todos, fed)
  PROVE  Going(t, o, todos, fed)'
<1>1. ASSUME NEW p, NEW x PROVE Line(p, x)' = Line(p, x)
  <2>1. Filtered(p)' <=> Filtered(p)
    BY DEF Filtered, Root
  <2>2. QED
    BY <2>1 DEF Line
<1>2. Shown(t)' = Shown(t)
  BY Zenon DEF Shown, Root
<1>3. ASSUME NEW dir PROVE Entries(t, dir, o)' = Entries(t, dir, o)
  BY Zenon DEF Entries, Root, Named, Names, InOrder, Sorted, PlainFiles, LinksToDirs, Children
<1>4. ASSUME NEW dir PROVE Lines(t, dir, o)' = Lines(t, dir, o)
  <2>1. PICK es : es = Entries(t, dir, o)
    OBVIOUS
  <2>2. Lines(t, dir, o) = [i \in DOMAIN es |-> Line(es[i], t[es[i]])]
    BY <2>1, Zenon DEF Lines
  <2>3. Entries(t, dir, o)' = es
    BY <1>3, <2>1, Zenon
  <2>4. ASSUME NEW i PROVE Line(es[i], t[es[i]])' = Line(es[i], t[es[i]])
    BY <1>1
  <2>5. Lines(t, dir, o)' = [i \in DOMAIN es |-> Line(es[i], t[es[i]])]
    BY <2>3, <2>4, SMT DEF Lines
  <2>6. QED
    BY <2>2, <2>5, Zenon
<1>5. LineSet(t)' = LineSet(t)
  BY <1>1, <1>2, Zenon DEF LineSet
<1>6. ASSUME NEW td, NEW ls, Told(t, td, ls) PROVE Told(t, td, ls)'
  BY <1>1, <1>2, <1>6, Zenon DEF Told, At, Under
<1>7. ASSUME NEW d, NEW l, NEW n, Walked(t, o, d, l, n) PROVE Walked(t, o, d, l, n)'
  <2>1. d[0] = <<Root>> /\ l[0] = <<>>
    BY <1>7, Zenon DEF Walked
  <2>2. ASSUME NEW k \in 0..n
        PROVE  d[k] \in Seq(Dirs(t)) /\ l[k] \in Seq(LineSet(t)') /\ Told(t, d[k], l[k])'
    BY <1>5, <1>6, <1>7, Zenon DEF Walked
  <2>3. ASSUME NEW k \in 0..(n - 1)
        PROVE  /\ d[k] # <<>>
               /\ d[k + 1] = Subdirs(t, Head(d[k]), o) \o Tail(d[k])
               /\ l[k + 1] = l[k] \o Lines(t, Head(d[k]), o)'
    BY <1>4, <1>7, Zenon DEF Walked
  <2>4. QED
    BY <2>1, <2>2, <2>3, Zenon DEF Walked, Root, Dirs, Subdirs, Named, Names, InOrder, Sorted, Children
<1>8. Header' = Header
  BY Zenon DEF Header
<1>9. PICK n \in Nat : \E d, l : Walked(t, o, d, l, n) /\ todos = d[n] /\ fed = <<Header>> \o l[n]
  BY Zenon DEF Going
<1>10. PICK d, l : Walked(t, o, d, l, n) /\ todos = d[n] /\ fed = <<Header>> \o l[n]
  BY <1>9
<1>11. Walked(t, o, d, l, n)' /\ fed = <<Header'>> \o l[n]
  BY <1>7, <1>8, <1>10, Zenon
<1>12. QED
  BY <1>10, <1>11, Zenon DEF Going

LEMMA WalkKeeps == ASSUME HashInv, NEW b \in Builds, Walk(b) PROVE HashInv'
<1> DEFINE dir == Head(todo[b])
<1>1. /\ trees' = trees /\ option' = option /\ listing' = listing
      /\ todo[b] # <<>>
      /\ hashed' = [hashed EXCEPT ![b] = @ \o Lines(trees[b], dir, listing[b])]
      /\ todo' = [todo EXCEPT ![b] = Subdirs(trees[b], dir, listing[b]) \o Tail(@)]
  BY Zenon DEF Walk
<1>2. /\ trees \in TreePairs
      /\ todo = [a \in Builds |-> todo[a]] /\ hashed = [a \in Builds |-> hashed[a]]
      /\ \A a \in Builds : Going(trees[a], listing[a], todo[a], hashed[a])
  BY Zenon DEF HashInv
<1>3. DOMAIN todo = Builds /\ DOMAIN hashed = Builds
  BY <1>2, Zenon
<1>4. /\ todo' = [a \in Builds |-> todo'[a]] /\ hashed' = [a \in Builds |-> hashed'[a]]
      /\ \A a \in Builds : a # b => todo'[a] = todo[a] /\ hashed'[a] = hashed[a]
      /\ todo'[b] = Subdirs(trees[b], dir, listing[b]) \o Tail(todo[b])
      /\ hashed'[b] = hashed[b] \o Lines(trees[b], dir, listing[b])
  BY <1>1, <1>3, Zenon
<1>5. ASSUME NEW a \in Builds
      PROVE  Going(trees[a], listing[a], todo'[a], hashed'[a])
  <2>1. CASE a = b
    <3>1. Tree(trees[b])
      BY <1>2, TreesHold
    <3>2. Going(trees[b], listing[b], todo[b], hashed[b])
      BY <1>2
    <3>3. Going(trees[b], listing[b], Subdirs(trees[b], Head(todo[b]), listing[b]) \o Tail(todo[b]),
                hashed[b] \o Lines(trees[b], Head(todo[b]), listing[b]))
      BY <1>1, <3>1, <3>2, GoingGoes, Zenon
    <3>4. QED
      BY <1>4, <2>1, <3>3, Zenon
  <2>2. CASE a # b
    BY <1>2, <1>4, <2>2, Zenon
  <2>3. QED
    BY <2>1, <2>2
<1>6. ASSUME NEW a \in Builds
      PROVE  Going(trees[a], listing[a], todo[a], hashed[a])'
  <2>1. PICK t, o, td, ot : t = trees[a] /\ o = listing[a] /\ td = todo'[a] /\ ot = hashed'[a]
    OBVIOUS
  <2>2. Going(t, o, td, ot)
    BY <1>5, <2>1, Zenon
  <2>3. Going(t, o, td, ot)'
    BY <1>1, <2>2, GoingStays
  <2>4. t = trees'[a] /\ o = listing'[a]
    BY <1>1, <2>1
  <2>5. QED
    BY <2>1, <2>3, <2>4, Zenon
<1>7. QED
  BY <1>1, <1>2, <1>4, <1>6, Zenon DEF HashInv, Builds

LEMMA HashStutters == ASSUME HashInv, UNCHANGED hashVars PROVE HashInv'
<1>1. trees' = trees /\ option' = option /\ listing' = listing /\ todo' = todo /\ hashed' = hashed
  BY DEF hashVars
<1>2. ASSUME NEW a \in Builds
      PROVE  Going(trees[a], listing[a], todo[a], hashed[a])'
  <2>1. PICK t, o, td, ot : t = trees[a] /\ o = listing[a] /\ td = todo[a] /\ ot = hashed[a]
    OBVIOUS
  <2>2. Going(t, o, td, ot)
    BY <2>1, Zenon DEF HashInv
  <2>3. Going(t, o, td, ot)'
    BY <1>1, <2>2, GoingStays
  <2>4. t = trees'[a] /\ o = listing'[a] /\ td = todo'[a] /\ ot = hashed'[a]
    BY <1>1, <2>1
  <2>5. QED
    BY <2>3, <2>4, Zenon
<1>3. QED
  BY <1>1, <1>2, Zenon DEF HashInv, Builds

\* Each build has walked, step by step, to the directories it has left and the lines
\* it has fed: what shows of its tree is fed or lies under what is left, and nothing
\* else is fed.
THEOREM HashInvariant == HashSpec => []HashInv
<1>1. HashInit => HashInv
  BY HashStarts
<1>2. HashInv /\ [HashNext]_hashVars => HashInv'
  BY WalkKeeps, HashStutters DEF HashNext
<1>3. QED
  BY <1>1, <1>2, PTL DEF HashSpec

LEMMA HashTells == HashInv => HashTellsOutput
<1>1. SUFFICES ASSUME HashInv, todo = [b \in Builds |-> <<>>]
               PROVE  /\ hashed[1] = hashed[2] => Matter(trees[1]) = Matter(trees[2])
                      /\ SameHost /\ Matter(trees[1]) = Matter(trees[2]) => hashed[1] = hashed[2]
  BY Zenon DEF HashTellsOutput
<1>2. 1 \in Builds /\ 2 \in Builds
  BY DEF Builds
<1>3. Tree(trees[1]) /\ Tree(trees[2])
  <2>1. trees \in TreePairs
    BY <1>1 DEF HashInv
  <2>2. QED
    BY <1>2, <2>1, TreesHold
<1>4. /\ Going(trees[1], listing[1], <<>>, hashed[1])
      /\ Going(trees[2], listing[2], <<>>, hashed[2])
  BY <1>1, <1>2, Zenon DEF HashInv
<1>5. hashed[1] = hashed[2] => Matter(trees[1]) = Matter(trees[2])
  BY <1>3, <1>4, OutputTellsMatter
<1>6. ASSUME SameHost, Matter(trees[1]) = Matter(trees[2]) PROVE hashed[1] = hashed[2]
  <2>1. Alike(trees[1], trees[2])
    BY <1>3, <1>6, Zenon DEF Alike, SameHost
  <2>2. QED
    BY <1>4, <2>1, SameOutput
<1>7. QED
  BY <1>5, <1>6

\* Of the output of OEOuthashBasic: whatever the trees, the names, the options and
\* the order in which the file systems list, two builds have one hash exactly if
\* their outputs agree in what matters.
THEOREM HashIsTheOutput == HashSpec => []HashTellsOutput
<1>1. QED
  BY HashInvariant, HashTells, PTL

-----------------------------------------------------------------------------
(* The report on a build history.                                           *)

IsPath(p) == p \in Seq(STRING)

\* A piece of a sequence.
LEMMA PieceHolds ==
  ASSUME NEW S, NEW s \in Seq(S), NEW k \in 0..Len(s)
  PROVE  /\ SubSeq(s, k + 1, Len(s)) \in Seq(S) /\ Len(SubSeq(s, k + 1, Len(s))) = Len(s) - k
         /\ \A i \in 1..(Len(s) - k) : SubSeq(s, k + 1, Len(s))[i] = s[k + i]
<1>1. Len(s) \in Nat /\ k \in Nat /\ k <= Len(s)
  OBVIOUS
<1>2. SubSeq(s, k + 1, Len(s)) \in Seq(S) /\ Len(SubSeq(s, k + 1, Len(s))) = Len(s) - k
  BY <1>1
<1>3. \A i \in 1..(Len(s) - k) : SubSeq(s, k + 1, Len(s))[i] = s[k + i]
  BY <1>1
<1>4. QED
  BY <1>2, <1>3

\* Two paths of the same text but for digits share the directories in which
\* they differ first: a first part of each.
LEMMA CommonDirIsFirst ==
  ASSUME NEW p, NEW q, IsPath(p), IsPath(q), p # q, Translate(p) = Translate(q)
  PROVE  \E n \in 1..Len(p) : CommonDir(p, q) = SubSeq(p, 1, n)
<1>1. DOMAIN p = 1..Len(p) /\ DOMAIN q = 1..Len(q) /\ Len(p) \in Nat /\ Len(q) \in Nat
  BY DEF IsPath
<1>2. DOMAIN Translate(p) = DOMAIN p /\ DOMAIN Translate(q) = DOMAIN q
  BY DEF Translate
<1>3. DOMAIN p = DOMAIN q
  BY <1>2
<1> DEFINE T == {i \in DOMAIN p : p[i] # q[i]}
<1>4. T # {} /\ T \subseteq Nat
  BY <1>1, <1>3 DEF IsPath
<1>5. PICK m \in T : \A k \in T : m <= k
  <2> HIDE DEF T
  <2> QED BY <1>4, LeastNumber
<1> DEFINE IsDiff(i) == p[i] # q[i] /\ \A j \in 1..(i - 1) : p[j] = q[j]
<1>6. m \in DOMAIN p /\ IsDiff(m)
  <2>1. \A j \in 1..(m - 1) : j \in DOMAIN p /\ j < m
    BY <1>1, <1>5
  <2>2. QED
    BY <2>1, <1>1, <1>5
<1> DEFINE diff == CHOOSE i \in DOMAIN p : IsDiff(i)
<1>7. diff \in 1..Len(p)
  <2> HIDE DEF IsDiff
  <2> QED BY <1>1, <1>6
<1> DEFINE Ends(d) == {i \in d..Len(p) : i = Len(p) \/ p[i + 1] = "/"}
<1>8. Ends(diff) # {} /\ Ends(diff) \subseteq 1..Len(p)
  <2> HIDE DEF diff
  <2> QED BY <1>1, <1>7
<1>9. PICK e \in Ends(diff) : \A k \in Ends(diff) : e <= k
  <2> HIDE DEF Ends, diff
  <2>1. Ends(diff) \subseteq Nat
    BY <1>8
  <2> QED BY <1>8, <2>1, LeastNumber
<1> DEFINE n == CHOOSE i \in Ends(diff) : \A j \in Ends(diff) : i <= j
<1>10. n \in Ends(diff)
  <2> HIDE DEF Ends, diff
  <2> QED BY <1>9
<1>11. CommonDir(p, q) = SubSeq(p, 1, n)
  BY DEF CommonDir
<1>12. n \in 1..Len(p)
  <2> HIDE DEF Ends, n, diff
  <2> QED BY <1>8, <1>10
<1>13. QED
  BY <1>11, <1>12

\* A path that begins with a directory is called something else when that is
\* renamed, and gets its name back when it is renamed back.
LEMMA RenamedBack ==
  ASSUME NEW p, NEW to, NEW from, IsPath(p), IsPath(to), IsPath(from), StartsWith(p, to)
  PROVE  LET q == Renamed(p, to, from)
         IN  IsPath(q) /\ StartsWith(q, from) /\ Renamed(q, from, to) = p
<1> DEFINE rest == SubSeq(p, Len(to) + 1, Len(p))
           q == from \o rest
<1>1. /\ Len(p) \in Nat /\ Len(to) \in Nat /\ Len(from) \in Nat /\ Len(to) <= Len(p)
      /\ SubSeq(p, 1, Len(to)) = to
  BY DEF IsPath, StartsWith
<1>2. /\ rest \in Seq(STRING) /\ Len(rest) = Len(p) - Len(to)
      /\ \A i \in 1..(Len(p) - Len(to)) : rest[i] = p[Len(to) + i]
  BY <1>1 DEF IsPath
<1> HIDE DEF rest
<1>3. /\ q \in Seq(STRING) /\ Len(q) = Len(from) + Len(rest)
      /\ \A i \in 1..Len(from) : q[i] = from[i]
      /\ \A i \in 1..Len(rest) : q[Len(from) + i] = rest[i]
  <2>1. from \in Seq(STRING) /\ rest \in Seq(STRING)
    BY <1>2 DEF IsPath
  <2>2. QED
    BY <2>1, ConcatHolds
<1>4. q = Renamed(p, to, from)
  BY DEF Renamed, rest
<1> HIDE DEF q
<1>5. SubSeq(q, 1, Len(from)) = from
  <2>1. /\ SubSeq(q, 1, Len(from)) \in Seq(STRING) /\ Len(SubSeq(q, 1, Len(from))) = Len(from)
        /\ \A i \in 1..Len(from) : SubSeq(q, 1, Len(from))[i] = q[i]
    BY <1>1, <1>2, <1>3
  <2>2. QED
    BY <2>1, <1>3 DEF IsPath
<1>6. StartsWith(q, from)
  BY <1>1, <1>2, <1>3, <1>5 DEF StartsWith
<1>7. SubSeq(q, Len(from) + 1, Len(q)) = rest
  <2> DEFINE t == SubSeq(q, Len(from) + 1, Len(q))
  <2>1. /\ t \in Seq(STRING) /\ Len(t) = Len(rest)
        /\ \A i \in 1..Len(rest) : t[i] = q[Len(from) + i]
    <3>1. Len(from) \in 0..Len(q) /\ Len(q) - Len(from) = Len(rest)
      BY <1>1, <1>2, <1>3
    <3>2. QED
      BY <1>3, <3>1, PieceHolds
  <2>2. QED
    BY <2>1, <1>2, <1>3
<1>8. to \o rest = p
  <2> DEFINE t == to \o rest
  <2>1. /\ t \in Seq(STRING) /\ Len(t) = Len(p)
        /\ \A i \in 1..Len(to) : t[i] = to[i]
        /\ \A i \in 1..Len(rest) : t[Len(to) + i] = rest[i]
    <3>1. Len(to) + Len(rest) = Len(p)
      BY <1>1, <1>2
    <3>2. QED
      BY <1>2, <3>1, ConcatHolds DEF IsPath
  <2> HIDE DEF t
  <2>2. \A i \in 1..Len(to) : to[i] = p[i]
    <3>1. \A i \in 1..Len(to) : SubSeq(p, 1, Len(to))[i] = p[i]
      BY <1>1 DEF IsPath
    <3>2. QED
      BY <3>1, <1>1
  <2>3. ASSUME NEW i \in 1..Len(p) PROVE t[i] = p[i]
    <3>1. CASE i <= Len(to)
      BY <3>1, <2>1, <2>2, <1>1
    <3>2. CASE i > Len(to)
      <4>1. i - Len(to) \in 1..Len(rest) /\ Len(to) + (i - Len(to)) = i
        BY <3>2, <1>1, <1>2
      <4>2. t[i] = rest[i - Len(to)] /\ rest[i - Len(to)] = p[i]
        BY <4>1, <2>1, <1>2
      <4>3. QED
        BY <4>2
    <3>3. QED
      BY <3>1, <3>2, <1>1
  <2>4. t = p
    BY <2>1, <2>3, SameElements DEF IsPath
  <2>5. QED
    BY <2>4 DEF t
<1>9. Renamed(q, from, to) = p
  BY <1>7, <1>8 DEF Renamed
<1>10. QED
  BY <1>3, <1>4, <1>6, <1>9 DEF IsPath

\* A moved file is its own directory.
LEMMA RenamedWhole ==
  ASSUME NEW p, NEW r, IsPath(p), IsPath(r)
  PROVE  StartsWith(p, p) /\ Renamed(p, p, r) = r
<1> DEFINE e == SubSeq(p, Len(p) + 1, Len(p))
<1>1. Len(p) \in Nat /\ SubSeq(p, 1, Len(p)) = p
  BY DEF IsPath
<1>2. e \in Seq(STRING) /\ Len(e) = 0
  <2>1. Len(p) \in 0..Len(p) /\ Len(p) - Len(p) = 0
    BY <1>1
  <2>2. QED
    BY <2>1, PieceHolds DEF IsPath
<1>3. e = <<>>
  BY <1>2
<1>4. r \o <<>> = r
  BY DEF IsPath
<1>5. Renamed(p, p, r) = r
  BY <1>3, <1>4 DEF Renamed
<1>6. QED
  BY <1>1, <1>5 DEF StartsWith

\* What compare_file_lists has at each turn: every addition and every removal is
\* still listed, or a rename or move maps it to the other list.
Pairing(s, gone, fresh) ==
  /\ DOMAIN s = {"adds", "rems", "renames", "moves"}
  /\ s.adds \subseteq fresh /\ s.rems \subseteq gone
  /\ \A p \in fresh : p \in s.adds \/ \E m \in s.renames \cup s.moves :
        StartsWith(p, m[2]) /\ Renamed(p, m[2], m[1]) \in gone
  /\ \A q \in gone : q \in s.rems \/ \E m \in s.renames \cup s.moves :
        StartsWith(q, m[1]) /\ Renamed(q, m[1], m[2]) \in fresh
  /\ \A m \in s.renames \cup s.moves : \E p \in fresh : StartsWith(p, m[2])

\* A turn of the loop keeps that.
LEMMA PairUpKeeps ==
  ASSUME NEW s, NEW p, NEW gone, NEW fresh, NEW a, Pairing(s, gone, fresh),
         \A q \in gone \cup fresh : IsPath(q), gone \cap fresh = {}
  PROVE  Pairing(PairUp(s, p, gone, fresh, a), gone, fresh)
<1> DEFINE alike == {r \in gone : Translate(r) = Translate(p)}
           rr == CHOOSE x \in alike : TRUE
           to == CommonDir(p, rr)
           from == CommonDir(rr, p)
           with == FollowersOf(s, to, from)
           t == PairUp(s, p, gone, fresh, a)
<1>1. CASE p \notin s.adds \/ Cardinality(alike) # 1
  BY <1>1 DEF PairUp
<1>2. CASE p \in s.adds /\ Cardinality(alike) = 1
  <2>1. alike # {}
    BY <1>2, FS_EmptySet
  <2>2. rr \in gone /\ Translate(rr) = Translate(p)
    BY <2>1
  <2> HIDE DEF rr, alike
  <2>3. p \in fresh /\ IsPath(p) /\ IsPath(rr) /\ p # rr
    BY <1>2, <2>2 DEF Pairing
  <2>4. PICK n \in 1..Len(p) : to = SubSeq(p, 1, n)
    BY <2>2, <2>3, CommonDirIsFirst
  <2>5. PICK k \in 1..Len(rr) : from = SubSeq(rr, 1, k)
    BY <2>2, <2>3, CommonDirIsFirst
  <2>6. IsPath(to) /\ IsPath(from) /\ StartsWith(p, to)
    <3>1. IsPath(to) /\ Len(to) = n /\ Len(p) \in Nat
      BY <2>3, <2>4 DEF IsPath
    <3>2. IsPath(from)
      BY <2>3, <2>5 DEF IsPath
    <3>3. QED
      BY <3>1, <3>2, <2>4 DEF StartsWith
  <2> HIDE DEF to, from
  <2> DEFINE renamed == [s EXCEPT !.renames = @ \cup {<<from, to>>},
                                  !.adds = @ \ with,
                                  !.rems = @ \ {Renamed(q, to, from) : q \in with}]
             moved == [s EXCEPT !.moves = @ \cup {<<rr, p>>},
                                !.adds = @ \ {p},
                                !.rems = @ \ {rr}]
  <2>7. t = renamed \/ t = moved
    BY <1>2 DEF PairUp, alike, rr, to, from
  <2>8. Pairing(renamed, gone, fresh)
    <3>1. /\ DOMAIN renamed = {"adds", "rems", "renames", "moves"}
          /\ renamed.adds = s.adds \ with /\ renamed.moves = s.moves
          /\ renamed.rems = s.rems \ {Renamed(q, to, from) : q \in with}
          /\ renamed.renames = s.renames \cup {<<from, to>>}
      BY DEF Pairing
    <3> HIDE DEF renamed
    <3>2. \A q \in with : q \in fresh /\ StartsWith(q, to) /\ Renamed(q, to, from) \in gone
      BY DEF FollowersOf, Pairing
    <3>3. \A q \in with : StartsWith(Renamed(q, to, from), from)
                          /\ Renamed(Renamed(q, to, from), from, to) = q
      BY <3>2, <2>6, RenamedBack
    <3> HIDE DEF with
    <3>4. ASSUME NEW x \in fresh
          PROVE  x \in renamed.adds \/ \E m \in renamed.renames \cup renamed.moves :
                    StartsWith(x, m[2]) /\ Renamed(x, m[2], m[1]) \in gone
      <4>1. CASE x \in with
        <5>1. <<from, to>> \in renamed.renames
          BY <3>1
        <5>2. QED
          BY <4>1, <5>1, <3>2
      <4>2. CASE x \notin with
        BY <4>2, <3>1 DEF Pairing
      <4>3. QED
        BY <4>1, <4>2
    <3>5. ASSUME NEW x \in gone
          PROVE  x \in renamed.rems \/ \E m \in renamed.renames \cup renamed.moves :
                    StartsWith(x, m[1]) /\ Renamed(x, m[1], m[2]) \in fresh
      <4>1. CASE \E q \in with : x = Renamed(q, to, from)
        <5>1. <<from, to>> \in renamed.renames
          BY <3>1
        <5>2. QED
          BY <4>1, <5>1, <3>2, <3>3
      <4>2. CASE ~ \E q \in with : x = Renamed(q, to, from)
        BY <4>2, <3>1 DEF Pairing
      <4>3. QED
        BY <4>1, <4>2
    <3>6. ASSUME NEW m \in renamed.renames \cup renamed.moves
          PROVE  \E x \in fresh : StartsWith(x, m[2])
      <4>1. CASE m = <<from, to>>
        BY <4>1, <2>3, <2>6
      <4>2. CASE m \in s.renames \cup s.moves
        BY <4>2 DEF Pairing
      <4>3. QED
        BY <4>1, <4>2, <3>1
    <3>7. renamed.adds \subseteq fresh /\ renamed.rems \subseteq gone
      BY <3>1 DEF Pairing
    <3>8. QED
      BY <3>1, <3>4, <3>5, <3>6, <3>7 DEF Pairing
  <2>9. Pairing(moved, gone, fresh)
    <3>1. /\ DOMAIN moved = {"adds", "rems", "renames", "moves"}
          /\ moved.adds = s.adds \ {p} /\ moved.renames = s.renames
          /\ moved.rems = s.rems \ {rr}
          /\ moved.moves = s.moves \cup {<<rr, p>>}
      BY DEF Pairing
    <3> HIDE DEF moved
    <3>2. /\ StartsWith(p, p) /\ Renamed(p, p, rr) = rr
          /\ StartsWith(rr, rr) /\ Renamed(rr, rr, p) = p
      BY <2>3, RenamedWhole
    <3>3. <<rr, p>> \in moved.moves
      BY <3>1
    <3>4. ASSUME NEW x \in fresh
          PROVE  x \in moved.adds \/ \E m \in moved.renames \cup moved.moves :
                    StartsWith(x, m[2]) /\ Renamed(x, m[2], m[1]) \in gone
      <4>1. CASE x = p
        BY <4>1, <3>2, <3>3, <2>2
      <4>2. CASE x # p
        BY <4>2, <3>1 DEF Pairing
      <4>3. QED
        BY <4>1, <4>2
    <3>5. ASSUME NEW x \in gone
          PROVE  x \in moved.rems \/ \E m \in moved.renames \cup moved.moves :
                    StartsWith(x, m[1]) /\ Renamed(x, m[1], m[2]) \in fresh
      <4>1. CASE x = rr
        BY <4>1, <3>2, <3>3, <2>3
      <4>2. CASE x # rr
        BY <4>2, <3>1 DEF Pairing
      <4>3. QED
        BY <4>1, <4>2
    <3>6. ASSUME NEW m \in moved.renames \cup moved.moves
          PROVE  \E x \in fresh : StartsWith(x, m[2])
      <4>1. CASE m = <<rr, p>>
        BY <4>1, <2>3, <3>2
      <4>2. CASE m \in s.renames \cup s.moves
        BY <4>2 DEF Pairing
      <4>3. QED
        BY <4>1, <4>2, <3>1
    <3>7. moved.adds \subseteq fresh /\ moved.rems \subseteq gone
      BY <3>1 DEF Pairing
    <3>8. QED
      BY <3>1, <3>4, <3>5, <3>6, <3>7 DEF Pairing
  <2>10. QED
    BY <2>7, <2>8, <2>9
<1>3. QED
  BY <1>1, <1>2


\* c is what compare_file_lists has after each of the first n paths.
TurnsUpTo(c, gone, fresh, a, n) ==
  c = [i \in 0..n |->
          IF i = 0 THEN [adds |-> fresh, rems |-> gone, renames |-> {}, moves |-> {}]
          ELSE PairUp(c[i - 1], PathOrder[i], gone, fresh, a)]

LEMMA TurnsExist ==
  ASSUME NEW gone, NEW fresh, NEW a, NEW n \in Nat
  PROVE  \E c : TurnsUpTo(c, gone, fresh, a, n)
<1> DEFINE T == {m \in Nat : ~ \E c : TurnsUpTo(c, gone, fresh, a, m)}
           Step(f, i) ==
             IF i = 0 THEN [adds |-> fresh, rems |-> gone, renames |-> {}, moves |-> {}]
             ELSE PairUp(f[i - 1], PathOrder[i], gone, fresh, a)
<1>1. SUFFICES ASSUME T # {} PROVE FALSE
  OBVIOUS
<1>2. PICK m \in T : \A k \in T : m <= k
  <2> HIDE DEF T
  <2>1. T \subseteq Nat
    BY DEF T
  <2> QED
    BY <1>1, <2>1, LeastNumber
<1>3. m # 0
  <2> DEFINE d == [i \in 0..0 |-> [adds |-> fresh, rems |-> gone, renames |-> {}, moves |-> {}]]
  <2>1. TurnsUpTo(d, gone, fresh, a, 0)
    BY DEF TurnsUpTo
  <2>2. QED
    BY <2>1
<1>4. PICK c : TurnsUpTo(c, gone, fresh, a, m - 1)
  BY <1>2, <1>3
<1> DEFINE h == [i \in 0..m |-> IF i = m THEN Step(c, m) ELSE c[i]]
<1>5. TurnsUpTo(h, gone, fresh, a, m)
  <2>1. ASSUME NEW k \in 0..m PROVE h[k] = Step(h, k)
    <3>1. CASE k = m
      <4>1. m - 1 \in 0..m /\ m - 1 # m
        BY <1>2, <1>3
      <4>2. h[m - 1] = c[m - 1] /\ h[m] = Step(c, m)
        <5> HIDE DEF Step
        <5> QED BY <4>1, <1>2
      <4>3. Step(c, m) = Step(h, m)
        <5> HIDE DEF h
        <5> QED BY <4>2
      <4>4. QED
        BY <3>1, <4>2, <4>3
    <3>2. CASE k # m
      <4>1. k \in 0..(m - 1)
        BY <1>2, <3>2
      <4>2. c[k] = Step(c, k)
        BY <1>4, <4>1 DEF TurnsUpTo
      <4>3. h[k] = c[k]
        <5> HIDE DEF Step
        <5> QED BY <3>2
      <4>4. k # 0 => k - 1 \in 0..m /\ k - 1 # m
        BY <1>2, <4>1
      <4>5. k # 0 => h[k - 1] = c[k - 1]
        <5> HIDE DEF Step
        <5> QED BY <4>4
      <4>6. Step(c, k) = Step(h, k)
        <5> HIDE DEF h
        <5> QED BY <4>5
      <4>7. QED
        BY <4>2, <4>3, <4>6
    <3>3. QED
      BY <3>1, <3>2
  <2>2. h = [k \in 0..m |-> Step(h, k)]
    <3>1. h = [k \in 0..m |-> h[k]]
      <4> HIDE DEF Step
      <4> QED OBVIOUS
    <3> HIDE DEF h, Step
    <3>2. QED
      BY <2>1, <3>1
  <2> HIDE DEF h
  <2>3. QED
    BY <2>2 DEF TurnsUpTo
<1>6. QED
  BY <1>2, <1>5

\* What the loop over all paths comes to.
LEMMA TurnsHold ==
  ASSUME NEW c, NEW gone, NEW fresh, NEW a, NEW n \in Nat, TurnsUpTo(c, gone, fresh, a, n),
         \A q \in gone \cup fresh : IsPath(q), gone \cap fresh = {}
  PROVE  Pairing(c[n], gone, fresh)
<1> DEFINE T == {m \in 0..n : ~ Pairing(c[m], gone, fresh)}
<1>1. SUFFICES ASSUME T # {} PROVE FALSE
  OBVIOUS
<1>2. PICK m \in T : \A k \in T : m <= k
  <2> HIDE DEF T
  <2>1. T \subseteq Nat
    BY DEF T
  <2> QED
    BY <1>1, <2>1, LeastNumber
<1>3. m # 0
  <2>1. c[0] = [adds |-> fresh, rems |-> gone, renames |-> {}, moves |-> {}]
    BY DEF TurnsUpTo
  <2>2. Pairing(c[0], gone, fresh)
    BY <2>1 DEF Pairing
  <2>3. QED
    BY <2>2
<1>4. m - 1 \in 0..n /\ m - 1 < m /\ m \in 0..n
  BY <1>2, <1>3
<1>5. Pairing(c[m - 1], gone, fresh)
  BY <1>2, <1>4
<1>6. c[m] = PairUp(c[m - 1], PathOrder[m], gone, fresh, a)
  BY <1>3, <1>4 DEF TurnsUpTo
<1>7. Pairing(c[m], gone, fresh)
  BY <1>5, <1>6, PairUpKeeps
<1>8. QED
  BY <1>2, <1>7

\* F names all files that came or went, and no addition or removal that is none.
Tells(F, came, went) ==
  /\ \A p \in came : \E c \in F :
        \/ c.change = "add" /\ c.path = p
        \/ c.change = "move" /\ StartsWith(p, c.to) /\ Renamed(p, c.to, c.path) \in went
  /\ \A p \in went : \E c \in F :
        \/ c.change = "remove" /\ c.path = p
        \/ c.change = "move" /\ StartsWith(p, c.path) /\ Renamed(p, c.path, c.to) \in came
  /\ \A c \in F : /\ c.change = "add" => c.path \in came
                  /\ c.change = "remove" => c.path \in went
                  /\ c.change = "move" => \E p \in came : StartsWith(p, c.to)

\* What compare_file_lists reports of two file lists.
LEMMA FilesCompared ==
  ASSUME HistoryAssumption, NEW x \in FileLists, NEW y \in FileLists
  PROVE  Tells(CompareFileLists(x, y, TRUE), DOMAIN y \ DOMAIN x, DOMAIN x \ DOMAIN y)
<1> DEFINE came == DOMAIN y \ DOMAIN x
           went == DOMAIN x \ DOMAIN y
           F == CompareFileLists(x, y, TRUE)
           end == PairAll(went, came, x)
           attrs == UNION {{[change |-> c, path |-> p, to |-> p] : c \in AttrChanges(p, x[p], y[p], TRUE)} :
                             p \in DOMAIN x \cap DOMAIN y}
           moves == {[change |-> "move", path |-> m[1], to |-> m[2]] : m \in end.renames \cup end.moves}
           adds == {[change |-> "add", path |-> p, to |-> p] : p \in end.adds}
           rems == {[change |-> "remove", path |-> p, to |-> p] : p \in end.rems}
<1>1. Len(PathOrder) \in Nat /\ \A q \in went \cup came : IsPath(q)
  <2>1. PathOrder \in Seq(Seq(STRING))
    BY DEF HistoryAssumption
  <2>2. Len(PathOrder) \in Nat /\ \A i \in DOMAIN PathOrder : PathOrder[i] \in Seq(STRING)
    BY <2>1
  <2>3. \A q \in DOMAIN x \cup DOMAIN y : \E i \in DOMAIN PathOrder : q = PathOrder[i]
    BY DEF HistoryAssumption
  <2>4. QED
    BY <2>2, <2>3 DEF IsPath
<1>3. Pairing(end, went, came)
  <2> DEFINE turns == CHOOSE c : TurnsUpTo(c, went, came, x, Len(PathOrder))
  <2>1. end = turns[Len(PathOrder)]
    BY DEF PairAll, TurnsUpTo
  <2>2. TurnsUpTo(turns, went, came, x, Len(PathOrder))
    <3> HIDE DEF came, went
    <3> QED BY <1>1, TurnsExist
  <2> HIDE DEF turns, end
  <2>3. QED
    BY <1>1, <2>1, <2>2, TurnsHold
<1>4. F = attrs \cup moves \cup adds \cup rems
  BY DEF CompareFileLists
<1> HIDE DEF F, end
<1>5. \A c \in attrs : c.change \notin {"add", "remove", "move"}
  BY DEF AttrChanges
<1> HIDE DEF attrs
<1>6. \A m \in end.renames \cup end.moves :
         \E c \in F : c.change = "move" /\ c.path = m[1] /\ c.to = m[2]
  <2> SUFFICES ASSUME NEW m \in end.renames \cup end.moves
               PROVE \E c \in F : c.change = "move" /\ c.path = m[1] /\ c.to = m[2]
    OBVIOUS
  <2>1. [change |-> "move", path |-> m[1], to |-> m[2]] \in F
    BY <1>4
  <2>2. QED
    BY <2>1
<1>7. ASSUME NEW p \in came
      PROVE  \E c \in F :
                \/ c.change = "add" /\ c.path = p
                \/ c.change = "move" /\ StartsWith(p, c.to) /\ Renamed(p, c.to, c.path) \in went
  <2>1. CASE p \in end.adds
    <3>1. [change |-> "add", path |-> p, to |-> p] \in F
      BY <1>4, <2>1
    <3>2. QED
      BY <3>1
  <2>2. CASE p \notin end.adds
    <3>1. PICK m \in end.renames \cup end.moves : StartsWith(p, m[2]) /\ Renamed(p, m[2], m[1]) \in went
      BY <1>3, <2>2 DEF Pairing
    <3>2. PICK c \in F : c.change = "move" /\ c.path = m[1] /\ c.to = m[2]
      BY <1>6
    <3>3. QED
      BY <3>1, <3>2
  <2>3. QED
    BY <2>1, <2>2
<1>8. ASSUME NEW p \in went
      PROVE  \E c \in F :
                \/ c.change = "remove" /\ c.path = p
                \/ c.change = "move" /\ StartsWith(p, c.path) /\ Renamed(p, c.path, c.to) \in came
  <2>1. CASE p \in end.rems
    <3>1. [change |-> "remove", path |-> p, to |-> p] \in F
      BY <1>4, <2>1
    <3>2. QED
      BY <3>1
  <2>2. CASE p \notin end.rems
    <3>1. PICK m \in end.renames \cup end.moves : StartsWith(p, m[1]) /\ Renamed(p, m[1], m[2]) \in came
      BY <1>3, <2>2 DEF Pairing
    <3>2. PICK c \in F : c.change = "move" /\ c.path = m[1] /\ c.to = m[2]
      BY <1>6
    <3>3. QED
      BY <3>1, <3>2
  <2>3. QED
    BY <2>1, <2>2
<1>9. ASSUME NEW c \in F
      PROVE  /\ c.change = "add" => c.path \in came
             /\ c.change = "remove" => c.path \in went
             /\ c.change = "move" => \E p \in came : StartsWith(p, c.to)
  <2>1. CASE c \in attrs
    BY <2>1, <1>5
  <2>2. CASE c \in moves
    <3>1. PICK m \in end.renames \cup end.moves : c = [change |-> "move", path |-> m[1], to |-> m[2]]
      BY <2>2
    <3>2. \E p \in came : StartsWith(p, m[2])
      BY <1>3 DEF Pairing
    <3>3. QED
      BY <3>1, <3>2
  <2>3. CASE c \in adds
    BY <2>3, <1>3 DEF Pairing
  <2>4. CASE c \in rems
    BY <2>4, <1>3 DEF Pairing
  <2>5. QED
    BY <1>4, <2>1, <2>2, <2>3, <2>4
<1>10. QED
  BY <1>7, <1>8, <1>9 DEF F, Tells

\* pairs has the directories detect_renamed_dirs has paired after each of the
\* first n it goes through.
PairsUpTo(c, x, y, order, n) ==
  c = [i \in 0..n |->
        IF i = 0 THEN {}
        ELSE LET free == {d \in DirsOf(y) \ DirsOf(x) :
                            /\ d \notin {m[2] : m \in c[i - 1]}
                            /\ NamesIn(x, order[i]) = NamesIn(y, d)}
             IN  c[i - 1] \cup (IF free = {} THEN {} ELSE {<<order[i], CHOOSE d \in free : TRUE>>})]

LEMMA PairsExist ==
  ASSUME NEW x, NEW y, NEW order, NEW n \in Nat
  PROVE  \E c : PairsUpTo(c, x, y, order, n)
<1> DEFINE Free(f, i) == {d \in DirsOf(y) \ DirsOf(x) :
                            /\ d \notin {m[2] : m \in f[i - 1]}
                            /\ NamesIn(x, order[i]) = NamesIn(y, d)}
           Step(f, i) ==
             IF i = 0 THEN {}
             ELSE f[i - 1] \cup (IF Free(f, i) = {} THEN {}
                                 ELSE {<<order[i], CHOOSE d \in Free(f, i) : TRUE>>})
           T == {m \in Nat : ~ \E c : PairsUpTo(c, x, y, order, m)}
<1>1. SUFFICES ASSUME T # {} PROVE FALSE
  OBVIOUS
<1>2. PICK m \in T : \A k \in T : m <= k
  <2> HIDE DEF T
  <2>1. T \subseteq Nat
    BY DEF T
  <2> QED
    BY <1>1, <2>1, LeastNumber
<1>3. m # 0
  <2> DEFINE d == [i \in 0..0 |-> {}]
  <2>1. PairsUpTo(d, x, y, order, 0)
    BY DEF PairsUpTo
  <2>2. QED
    BY <2>1
<1>4. PICK c : PairsUpTo(c, x, y, order, m - 1)
  BY <1>2, <1>3
<1> DEFINE h == [k \in 0..m |-> IF k = m THEN Step(c, m) ELSE c[k]]
<1>5. PairsUpTo(h, x, y, order, m)
  <2>1. ASSUME NEW k \in 0..m PROVE h[k] = Step(h, k)
    <3>1. CASE k = m
      <4>1. m - 1 \in 0..m /\ m - 1 # m
        BY <1>2, <1>3
      <4>2. h[m - 1] = c[m - 1] /\ h[m] = Step(c, m)
        <5> HIDE DEF Step
        <5> QED BY <4>1, <1>2
      <4>3. Step(c, m) = Step(h, m)
        <5> HIDE DEF h
        <5> QED BY <4>2
      <4>4. QED
        BY <3>1, <4>2, <4>3
    <3>2. CASE k # m
      <4>1. k \in 0..(m - 1)
        BY <1>2, <3>2
      <4>2. c[k] = Step(c, k)
        BY <1>4, <4>1 DEF PairsUpTo
      <4>3. h[k] = c[k]
        <5> HIDE DEF Step
        <5> QED BY <3>2
      <4>4. k # 0 => k - 1 \in 0..m /\ k - 1 # m
        BY <1>2, <4>1
      <4>5. k # 0 => h[k - 1] = c[k - 1]
        <5> HIDE DEF Step
        <5> QED BY <4>4
      <4>6. Step(c, k) = Step(h, k)
        <5> HIDE DEF h
        <5> QED BY <4>5
      <4>7. QED
        BY <4>2, <4>3, <4>6
    <3>3. QED
      BY <3>1, <3>2
  <2>2. h = [k \in 0..m |-> Step(h, k)]
    <3>1. h = [k \in 0..m |-> h[k]]
      <4> HIDE DEF Step
      <4> QED OBVIOUS
    <3> HIDE DEF h, Step
    <3>2. QED
      BY <2>1, <3>1
  <2> HIDE DEF h
  <2>3. QED
    BY <2>2 DEF PairsUpTo
<1>6. QED
  BY <1>2, <1>5

\* A renamed directory is one that went, with one that came.
LEMMA RenamedDirsGone ==
  ASSUME NEW x, NEW y, IsFiniteSet(x)
  PROVE  \A m \in RenamedDirs(x, y) : /\ m[1] \in DirsOf(x) \ DirsOf(y)
                                      /\ m[2] \in DirsOf(y) \ DirsOf(x)
<1> DEFINE ab == DirsOf(x) \ DirsOf(y)
           ba == DirsOf(y) \ DirsOf(x)
           order == SetToSeq(ab)
           c == CHOOSE f : PairsUpTo(f, x, y, order, Len(order))
<1>1. IsFiniteSet(ab)
  <2>1. IsFiniteSet(DirsOf(x))
    <3> DEFINE dirOf == [f \in x |-> f[1]]
    <3>1. dirOf \in Surjection(x, DirsOf(x))
      BY DEF Surjection, DirsOf
    <3>2. QED
      BY <3>1, FS_Surjection
  <2>2. QED
    BY <2>1, FS_Subset
<1>2. Cardinality(ab) \in Nat /\ order \in [1..Cardinality(ab) -> ab]
  <2>1. Cardinality(ab) \in Nat /\ Bijection(1..Cardinality(ab), ab) # {}
    BY <1>1, FS_CardinalityType DEF ExistsBijection
  <2>2. \E f \in [1..Cardinality(ab) -> ab] : IsInjective(f)
    BY <2>1 DEF Bijection, Injection
  <2> HIDE DEF ab
  <2>3. QED
    BY <2>1, <2>2 DEF SetToSeq
<1> HIDE DEF order
<1>3. Len(order) \in Nat /\ \A i \in 1..Len(order) : order[i] \in ab
  <2> HIDE DEF ab
  <2>1. Len(order) = Cardinality(ab)
    BY <1>2
  <2>2. QED
    BY <2>1, <1>2
<1>4. PairsUpTo(c, x, y, order, Len(order))
  BY <1>3, PairsExist
<1>5. RenamedDirs(x, y) = c[Len(order)]
  BY DEF RenamedDirs, PairsUpTo, order
<1> HIDE DEF c
<1> DEFINE Gone(s) == \A m \in s : m[1] \in ab /\ m[2] \in ba
           T == {m \in 0..Len(order) : ~Gone(c[m])}
<1>6. SUFFICES ASSUME T # {} PROVE FALSE
  <2>1. T = {} => Gone(c[Len(order)])
    BY <1>3
  <2>2. QED
    BY <2>1, <1>5
<1>7. PICK m \in T : \A k \in T : m <= k
  <2>1. T \subseteq Nat
    OBVIOUS
  <2> HIDE DEF T
  <2> QED
    BY <1>6, <2>1, LeastNumber
<1>8. m # 0
  <2>1. c[0] = {}
    BY <1>3, <1>4 DEF PairsUpTo
  <2>2. Gone(c[0])
    BY <2>1
  <2>3. QED
    BY <2>2
<1>9. m \in 0..Len(order) /\ m - 1 \in 0..Len(order) /\ m - 1 < m /\ m \in 1..Len(order)
  BY <1>3, <1>7, <1>8
<1>10. Gone(c[m - 1])
  BY <1>7, <1>9
<1> DEFINE free == {d \in ba : /\ d \notin {k[2] : k \in c[m - 1]}
                               /\ NamesIn(x, order[m]) = NamesIn(y, d)}
<1>11. c[m] = c[m - 1] \cup (IF free = {} THEN {} ELSE {<<order[m], CHOOSE d \in free : TRUE>>})
  BY <1>4, <1>8, <1>9 DEF PairsUpTo
<1>12. Gone(c[m])
  <2>1. free \subseteq ba /\ order[m] \in ab
    BY <1>3, <1>9
  <2> HIDE DEF free, ab, ba
  <2>2. QED
    BY <1>10, <1>11, <2>1
<1>13. QED
  BY <1>7, <1>12

\* A dependency that came or went is reported, whatever report_all says.
LEMMA DepsReported ==
  ASSUME NEW x, NEW y, NEW rall \in BOOLEAN, NEW p \in Packages,
         NotThere \notin {x.latest[p], y.latest[p]},
         NEW n \in (DOMAIN x.latest[p].deps \cup DOMAIN y.latest[p].deps)
                   \ (DOMAIN x.latest[p].deps \cap DOMAIN y.latest[p].deps),
         n # p
  PROVE  \E c \in Report(x, y, rall) : c.what = "field" /\ c.field = "RDEPENDS" /\ c.path = p
<1> DEFINE u == x.latest[p]
           v == y.latest[p]
           d == ComparePkgLists(u.deps, v.deps)
           c == [what |-> "field", path |-> p, field |-> "RDEPENDS", old |-> u, new |-> v, files |-> {}]
<1>1. d.a # d.b
  <2> DEFINE strip == {k \in DOMAIN u.deps \cap DOMAIN v.deps :
                         \/ u.deps[k] = v.deps[k]
                         \/ u.deps[k].op = v.deps[k].op /\ u.deps[k].op \in {">=", "="}
                            /\ u.deps[k].ver <= v.deps[k].ver}
             strips == {k \in strip : u.deps[k].op # "" /\ v.deps[k].op # ""}
  <2>1. strips \subseteq DOMAIN u.deps \cap DOMAIN v.deps
    OBVIOUS
  <2>2. d = [a |-> [k \in DOMAIN u.deps \ strips |-> u.deps[k]],
             b |-> [k \in DOMAIN v.deps \ strips |-> v.deps[k]]]
    BY DEF ComparePkgLists
  <2> HIDE DEF strips, d
  <2>3. DOMAIN d.a = DOMAIN u.deps \ strips /\ DOMAIN d.b = DOMAIN v.deps \ strips
    BY <2>2
  <2>4. QED
    BY <2>1, <2>3
<1>2. u.deps # v.deps
  OBVIOUS
<1>3. ~PassedOver("RDEPENDS", p, u, v)
  <2>1. ~([k \in DOMAIN u.deps \ {p} |-> u.deps[k]] = v.deps)
    <3>1. DOMAIN [k \in DOMAIN u.deps \ {p} |-> u.deps[k]] = DOMAIN u.deps \ {p}
      OBVIOUS
    <3>2. QED
      BY <3>1
  <2>2. QED
    BY <1>1, <2>1 DEF PassedOver
<1>4. c \in CompareDictBlobs(p, u, v, rall)
  BY <1>2, <1>3 DEF CompareDictBlobs, Differs
<1>5. c \in ProcessChanges(x, y, rall)
  BY <1>4 DEF ProcessChanges
<1>6. Printed(c)
  BY <1>1 DEF Printed
<1>7. QED
  BY <1>5, <1>6 DEF Report

\* An item that came to or went from a directory that stays is reported.
LEMMA ItemsReported ==
  ASSUME NEW x, NEW y, NEW rall \in BOOLEAN, NEW p \in Packages,
         NotThere \notin {x.latest[p], y.latest[p]}, IsFiniteSet(x.latest[p].files),
         NEW f \in (x.latest[p].files \ y.latest[p].files) \cup (y.latest[p].files \ x.latest[p].files),
         f[1] \in DirsOf(x.latest[p].files) \cap DirsOf(y.latest[p].files),
         Last(p) \notin {"dbg", "src"}
  PROVE  \E c \in Report(x, y, rall) :
            /\ c.what = "field" /\ c.field = "FILELIST" /\ c.path = p
            /\ LET s == ShownItems(c.old.files, c.new.files)
               IN  f \in s.removed \cup s.added
<1> DEFINE u == x.latest[p]
           v == y.latest[p]
           s == ShownItems(u.files, v.files)
           c == [what |-> "field", path |-> p, field |-> "FILELIST", old |-> u, new |-> v, files |-> {}]
           dirs == UNION {{m[1], m[2]} : m \in RenamedDirs(u.files, v.files)}
<1>1. f[1] \notin dirs
  BY RenamedDirsGone
<1>2. f \in s.removed \cup s.added
  <2>1. s = [renamed |-> RenamedDirs(u.files, v.files),
             removed |-> {g \in u.files : g[1] \notin dirs} \ {g \in v.files : g[1] \notin dirs},
             added |-> {g \in v.files : g[1] \notin dirs} \ {g \in u.files : g[1] \notin dirs}]
    BY DEF ShownItems
  <2> HIDE DEF s, dirs
  <2>2. QED
    BY <1>1, <2>1
<1>3. u.files # v.files
  OBVIOUS
<1>4. ~PassedOver("FILELIST", p, u, v)
  BY DEF PassedOver
<1>5. c \in CompareDictBlobs(p, u, v, rall)
  BY <1>3, <1>4 DEF CompareDictBlobs, Differs
<1>6. c \in ProcessChanges(x, y, rall)
  BY <1>5 DEF ProcessChanges
<1> HIDE DEF s
<1>7. Printed(c)
  BY <1>2 DEF Printed, s
<1>8. c \in Report(x, y, rall)
  BY <1>6, <1>7 DEF Report
<1>9. c.what = "field" /\ c.field = "FILELIST" /\ c.path = p /\ c.old = u /\ c.new = v
  OBVIOUS
<1>10. QED
  BY <1>2, <1>8, <1>9 DEF s

\* The files of a report are what compare_file_lists found.
LEMMA FilesReported ==
  ASSUME NEW x, NEW y, NEW rall
  PROVE  UNION {c.files : c \in Report(x, y, rall)} = CompareFileLists(x.image, y.image, TRUE)
<1> DEFINE F == CompareFileLists(x.image, y.image, TRUE)
           image == [what |-> "image", path |-> <<>>, field |-> "files-in-image.txt",
                     old |-> NotThere, new |-> NotThere, files |-> F]
           fields == UNION {CompareDictBlobs(p, x.latest[p], y.latest[p], rall) :
                              p \in {q \in Packages : NotThere \notin {x.latest[q], y.latest[q]}}}
<1>1. ProcessChanges(x, y, rall) = fields \cup ScriptChanges(x, y) \cup (IF F = {} THEN {} ELSE {image})
  BY DEF ProcessChanges
<1>2. \A c \in fields : c.files = {}
  BY DEF CompareDictBlobs
<1>3. \A c \in ScriptChanges(x, y) : c.files = {}
  BY DEF ScriptChanges
<1>4. image.files = F /\ image.what = "image"
  OBVIOUS
<1> HIDE DEF fields, F, image
<1>5. F # {} => image \in Report(x, y, rall)
  BY <1>1, <1>4 DEF Report, Printed
<1>6. \A c \in Report(x, y, rall) : c.files \in {{}, F}
  BY <1>1, <1>2, <1>3, <1>4 DEF Report
<1>7. UNION {c.files : c \in Report(x, y, rall)} \subseteq F
  BY <1>6
<1>8. F \subseteq UNION {c.files : c \in Report(x, y, rall)}
  BY <1>4, <1>5
<1>9. UNION {c.files : c \in Report(x, y, rall)} = F
  BY <1>7, <1>8
<1>10. QED
  BY <1>9 DEF F

\* The report that is told is of the two revisions as they are.
HistoryInv ==
  /\ revision1 \in Revisions /\ revision2 \in Revisions /\ reportAll \in BOOLEAN
  /\ told # NotThere => told = Report(revision1, revision2, reportAll)

\* A report is of the revision compared with and of the head, whatever was
\* built and however often it was asked for.
THEOREM HistoryInvariant == HistorySpec => []HistoryInv
<1>1. HistoryInit => HistoryInv
  BY HistoryAssumption DEF HistoryInit, HistoryInv, HistoryAssumption
<1>2. ASSUME HistoryInv, [HistoryNext]_historyVars PROVE HistoryInv'
  <2>1. CASE BuildImage
    <3>1. PICK t \in FileLists : Commit([revision2 EXCEPT !.image = t])
      BY <2>1 DEF BuildImage
    <3>2. [revision2 EXCEPT !.image = t] \in Revisions
      BY <1>2 DEF HistoryInv, Revisions
    <3>3. QED
      BY <1>2, <3>1, <3>2 DEF Commit, HistoryInv
  <2>2. CASE BuildPackage
    <3>1. PICK p \in Packages, f \in Fields, t \in Scripts \cup {NotThere} :
             Commit([revision2 EXCEPT !.latest[p] = f, !.script[p] = t])
      BY <2>2 DEF BuildPackage
    <3>2. [revision2 EXCEPT !.latest[p] = f, !.script[p] = t] \in Revisions
      BY <1>2 DEF HistoryInv, Revisions
    <3>3. QED
      BY <1>2, <3>1, <3>2 DEF Commit, HistoryInv
  <2>3. CASE DropPackage
    <3>1. PICK p \in Packages : Commit([revision2 EXCEPT !.latest[p] = NotThere, !.script[p] = NotThere])
      BY <2>3 DEF DropPackage
    <3>2. [revision2 EXCEPT !.latest[p] = NotThere, !.script[p] = NotThere] \in Revisions
      BY <1>2 DEF HistoryInv, Revisions
    <3>3. QED
      BY <1>2, <3>1, <3>2 DEF Commit, HistoryInv
  <2>4. CASE Diff
    BY <1>2, <2>4 DEF Diff, HistoryInv
  <2>5. CASE UNCHANGED historyVars
    BY <1>2, <2>5 DEF historyVars, HistoryInv
  <2>6. QED
    BY <1>2, <2>1, <2>2, <2>3, <2>4, <2>5 DEF HistoryNext
<1>3. QED
  BY <1>1, <1>2, PTL DEF HistorySpec

LEMMA HistoryTells == HistoryInv => HistoryTold
<1> SUFFICES ASSUME HistoryInv, told # NotThere PROVE FilesTold /\ DepsTold /\ ItemsTold
  BY DEF HistoryTold
<1>1. /\ told = Report(revision1, revision2, reportAll) /\ reportAll \in BOOLEAN
      /\ revision1.image \in FileLists /\ revision2.image \in FileLists
      /\ \A p \in Packages : revision1.latest[p] \in Fields \cup {NotThere}
  BY DEF HistoryInv, Revisions
<1>2. FilesTold
  <2>1. UNION {c.files : c \in told} = CompareFileLists(revision1.image, revision2.image, TRUE)
    BY <1>1, FilesReported
  <2>2. Tells(UNION {c.files : c \in told}, DOMAIN revision2.image \ DOMAIN revision1.image,
              DOMAIN revision1.image \ DOMAIN revision2.image)
    BY <1>1, <2>1, FilesCompared, HistoryAssumption
  <2>3. QED
    BY <2>2 DEF FilesTold, Tells
<1>3. DepsTold
  BY <1>1, DepsReported DEF DepsTold
<1>4. ItemsTold
  <2>1. \A p \in Packages : NotThere # revision1.latest[p] => IsFiniteSet(revision1.latest[p].files)
    BY <1>1, HistoryAssumption DEF HistoryAssumption
  <2>2. QED
    BY <1>1, <2>1, ItemsReported DEF ItemsTold
<1>5. QED
  BY <1>2, <1>3, <1>4

\* Whatever of an image's files, and of a package's dependencies and files, came
\* or went between two revisions can be found in the report, for any revisions,
\* names and order of paths.
THEOREM HistoryIsTold == HistorySpec => []HistoryTold
BY HistoryInvariant, HistoryTells, PTL

=============================================================================
