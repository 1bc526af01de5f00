------------------------------ MODULE KeyCustody ------------------------------
(***************************************************************************)
(* What the committee package promises to clients that encrypt to a        *)
(* committee key server (move/committee/sources/committee.move, module     *)
(* comment): one key, created by a fresh committee and handed over by      *)
(* rotations that keep the public key, bump the version by one and keep a  *)
(* quorum of the previous holders.                                         *)
(***************************************************************************)
EXTENDS Integers, FiniteSets

CONSTANTS Address, Pk, None

VARIABLES key, roster, quorum

Init == key = None /\ roster = {} /\ quorum = 0

NewHolders(r, q) == r \subseteq Address /\ q > 1 /\ q <= Cardinality(r)

Create ==
  /\ key = None
  /\ \E pk \in Pk : key' = [pk |-> pk, version |-> 0]
  /\ NewHolders(roster', quorum')

Rotate ==
  /\ key # None
  /\ key' = [key EXCEPT !.version = @ + 1]
  /\ Cardinality(roster \cap roster') >= quorum
  /\ NewHolders(roster', quorum')

Next == Create \/ Rotate

Spec == Init /\ [][Next]_<<key, roster, quorum>>
=============================================================================
