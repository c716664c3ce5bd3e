----------------------------- MODULE MCFcntlLock -----------------------------
(* Instances of FcntlLock for TLC.                                          *)
EXTENDS FcntlLock

Req(type, nb, timeout, o, target) ==
  [type |-> type, nb |-> nb, timeout |-> timeout, o |-> o, target |-> target]

\* Every lock type, every class of timeout, -n, -o and the three forms.
MixedRequests ==
  { Req("F_WRLCK", FALSE, "none", TRUE, "file"),
    Req("F_RDLCK", FALSE, "positive", FALSE, "file"),
    Req("F_WRLCK", FALSE, "positive", TRUE, "file"),
    Req("F_WRLCK", FALSE, "zero", FALSE, "file"),
    Req("F_WRLCK", TRUE, "positive", FALSE, "file"),
    Req("F_RDLCK", FALSE, "negative", FALSE, "directory"),
    Req("F_WRLCK", FALSE, "none", FALSE, "fd"),
    Req("F_UNLCK", FALSE, "none", FALSE, "file") }

\* The requests that wait, for the liveness runs.
WaitingRequests ==
  { Req("F_WRLCK", FALSE, "none", FALSE, "file"),
    Req("F_RDLCK", FALSE, "positive", FALSE, "file"),
    Req("F_WRLCK", FALSE, "positive", TRUE, "file") }
==============================================================================
