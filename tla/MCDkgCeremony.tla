--------------------------- MODULE MCDkgCeremony ---------------------------
(* Small instances of DkgCeremony: fresh ceremonies and rotations. *)
EXTENDS DkgCeremony

CONSTANTS m1, m2, m3

Fresh(members, keys, messages, faults, restarts, reopens) ==
  [members |-> members, rotating |-> FALSE, continuing |-> {}, old_threshold |-> 0,
   keys |-> keys, messages |-> messages,
   faults |-> faults, restarts |-> restarts, reopens |-> reopens]

Rotation(members, continuing, old_threshold, keys, messages, faults, restarts, reopens) ==
  [members |-> members, rotating |-> TRUE, continuing |-> continuing,
   old_threshold |-> old_threshold, keys |-> keys, messages |-> messages,
   faults |-> faults, restarts |-> restarts, reopens |-> reopens]

\* A crash or lost transaction; one, and a second round of messages; a restart with a second
\* committee; a rotation that uses the message of either continuing member; one with a crash or
\* lost transaction; one that is restarted.
MCPlan ==
  {Fresh({m1, m2}, 3, 2, 1, 0, 0),
   Fresh({m1, m2}, 2, 2, 1, 0, 1),
   Fresh({m1, m2}, 2, 2, 0, 1, 0),
   Rotation({m1, m2, m3}, {m1, m2}, 1, 1, 1, 0, 0, 0),
   Rotation({m1, m3}, {m1}, 1, 3, 2, 1, 0, 0),
   Rotation({m1, m3}, {m1}, 1, 2, 2, 0, 1, 0)}

=============================================================================
