---------------------------- MODULE CheckPolicy ----------------------------
(***************************************************************************)
(* What a checking command promises, in one step from the command line to  *)
(* the verdict: it passes only what its files and the ledgers' trees bear  *)
(* out, and fails only when something is amiss or it depends on a ledger.  *)
(***************************************************************************)
CONSTANTS
  Commands,
  Grounds(_),   \* what its files decide is in order
  Proven(_),    \* the ledgers registered its envelope
  Settled(_)    \* its trust list shows that without asking them

VARIABLES cmd, verdict

Init == cmd \in Commands /\ verdict = "none"

Decide(how) ==
  /\ verdict = "none"
  /\ verdict' = how
  /\ UNCHANGED cmd

Pass == Decide("passed") /\ Grounds(cmd) /\ Proven(cmd)

Fail == Decide("failed") /\ ~(Grounds(cmd) /\ Settled(cmd))

Next == Pass \/ Fail

Spec == Init /\ [][Next]_<<cmd, verdict>>
=============================================================================
