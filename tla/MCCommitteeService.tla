------------------------- MODULE MCCommitteeService -------------------------
(* A committee of three with threshold two grows by d to four with threshold three; b and  *)
(* c change their party ids.  Member c cannot be relied upon.                               *)
EXTENDS CommitteeService

CONSTANTS a, b, c, d

MCSize == [v \in Version |-> 3 + v]
MCThreshold == [v \in Version |-> 2 + v]

MCSeat == [v \in Version |->
  IF v = 0 THEN (a :> 0) @@ (b :> 1) @@ (c :> 2) @@ (d :> None)
           ELSE (a :> 0) @@ (b :> 2) @@ (c :> 3) @@ (d :> 1)]

\* The aggregator has no credentials for c before the rotation.
MCNoCredentials == {<<0, 2>>}

\* False answers: another error, no keys, a repeated key, a key for another id, keys of
\* the party before the rotation and of another party, and a server too old.
Key(id, share) == [id |-> id, share |-> share]

KeysOf(ids, share, ok) ==
  [kind |-> "keys", version_ok |-> ok, keys |-> [k \in DOMAIN ids |-> Key(ids[k], share)]]

MCAnswer ==
  LET ids == SetToSeq(KeyId)
  IN  {[kind |-> "error", error |-> "NoAccess"], KeysOf(<<>>, <<1, 3>>, TRUE),
       KeysOf(ids \o ids, <<1, 3>>, TRUE), KeysOf(<<None>>, <<1, 3>>, TRUE),
       KeysOf(ids, <<0, 2>>, TRUE), KeysOf(ids, <<1, 0>>, TRUE), KeysOf(ids, <<1, 3>>, FALSE)}
=============================================================================
