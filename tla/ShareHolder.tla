----------------------------- MODULE ShareHolder -----------------------------
(***************************************************************************)
(* What a member's key server promises about the share it serves, seen     *)
(* from the outside: it serves the share of one committee version or none, *)
(* never of a version that is not on chain yet, and while it stays up it   *)
(* moves by single versions, forward only.                                 *)
(***************************************************************************)
EXTENDS Integers

CONSTANTS
  MaxVersion,  \* the last version the key server object can have
  NoShare      \* the server serves nothing

VARIABLES
  chain,    \* KeyServerV2's committee version
  serving   \* the version whose share the server answers with, or NoShare

Init ==
  /\ chain = 0
  /\ serving = NoShare

\* seal_committee finalizes a rotation.
Rotate ==
  /\ chain < MaxVersion
  /\ chain' = chain + 1
  /\ UNCHANGED serving

\* A restart may find an older version than the last one it served: full nodes lag.
Start(v) ==
  /\ serving = NoShare
  /\ v <= chain
  /\ serving' = v
  /\ UNCHANGED chain

Switch ==
  /\ serving # NoShare
  /\ serving + 1 <= chain
  /\ serving' = serving + 1
  /\ UNCHANGED chain

Stop ==
  /\ serving # NoShare
  /\ serving' = NoShare
  /\ UNCHANGED chain

Next ==
  \/ Rotate
  \/ \E v \in 0..MaxVersion : Start(v)
  \/ Switch
  \/ Stop

Spec == Init /\ [][Next]_<<chain, serving>>

=============================================================================
