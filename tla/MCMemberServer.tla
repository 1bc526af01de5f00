--------------------------- MODULE MCMemberServer ---------------------------
(* A small instance of MemberServer. *)
EXTENDS MemberServer

\* A member that joins with the first rotation, and so has no share of version 0, and
\* continues under another party id after the second.
MCSeat == [v \in Version |-> IF v = 0 THEN None ELSE IF v = 1 THEN 1 ELSE 0]

\* The committee grows from two to three members with the second rotation.
MCSize == [v \in Version |-> IF v = 2 THEN 3 ELSE 2]

\* Full nodes that are up to date and answer, that fail, and that are behind and fail.
MCRpc == [lag : {0}, fails : BOOLEAN] \cup [lag : {1}, fails : {TRUE}]
=============================================================================
