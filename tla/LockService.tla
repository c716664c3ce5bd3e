----------------------------- MODULE LockService -----------------------------
(***************************************************************************)
(* What a user of fcntl-lock is promised: a readers-writers lock on one    *)
(* file, granted to an invocation and kept until that invocation ends.     *)
(* An invocation asks, is granted the lock or is turned away, and ends.    *)
(* FcntlLock is shown to implement this module.                            *)
(***************************************************************************)
CONSTANT Clients

VARIABLES phase,   \* phase[c]: where client c is in its one request
          held     \* held[c]: the lock c holds now

svars == <<phase, held>>

Modes == {"shared", "exclusive"}

\* Two locks may be held together unless one of them is exclusive.
Compatible(m, n) == m = "none" \/ n = "none" \/ (m = "shared" /\ n = "shared")

SInit == /\ phase = [c \in Clients |-> "asking"]
         /\ held = [c \in Clients |-> "none"]

\* The lock goes to c, whatever the others hold being compatible with it.
Grant(c) ==
  /\ phase[c] = "asking"
  /\ \E m \in Modes :
       /\ \A d \in Clients \ {c} : Compatible(m, held[d])
       /\ held' = [held EXCEPT ![c] = m]
  /\ phase' = [phase EXCEPT ![c] = "granted"]

\* c goes on without a lock: it asked for an unlock, which takes none.
Bypass(c) ==
  /\ phase[c] = "asking"
  /\ phase' = [phase EXCEPT ![c] = "granted"]
  /\ UNCHANGED held

\* c ends, whether it was served or not, and what it held is free again.
Leave(c) ==
  /\ phase[c] # "ended"
  /\ phase' = [phase EXCEPT ![c] = "ended"]
  /\ held' = [held EXCEPT ![c] = "none"]

SNext == \E c \in Clients : Grant(c) \/ Bypass(c) \/ Leave(c)

SSpec == SInit /\ [][SNext]_svars
==============================================================================
