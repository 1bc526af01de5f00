----------------------------- MODULE ClientKeys -----------------------------
(***************************************************************************)
(* The clients of a permissioned key server: the entries of its            *)
(* configuration, their validation (crates/key-server/src/                 *)
(* key_server_options.rs) and the keys the server loads for them           *)
(* (master_keys.rs).  The operator registers, imports and exports clients, *)
(* each time editing the configuration and restarting the server; the      *)
(* indices they type may be any.  An edit with which the server does not   *)
(* start is undone.                                                        *)
(*                                                                         *)
(* Keys derived from the seed are known by their index, imported ones by   *)
(* the name of their environment variable.                                 *)
(***************************************************************************)
EXTENDS Integers, Sequences, FiniteSets

CONSTANTS
  Name, ObjectID,
  Client,        \* what a client asks for: [name, key_server_object_id, package_ids]
  EnvVar,        \* names of environment variables
  EnvSet,        \* those of them that hold a key
  MaxDerivation, \* bound on the indices the operator types
  MaxClients,    \* bound on the entries
  None

ASSUME ClientAssumption ==
  /\ Client \subseteq [name : Name, key_server_object_id : ObjectID, package_ids : SUBSET ObjectID]
  /\ MaxDerivation \in Nat /\ MaxClients \in Nat
  /\ EnvSet \subseteq EnvVar

VARIABLES
  client_configs,  \* the configuration the server last started with
  server,          \* the keys of the running server, or None
  served,          \* history: derived keys with the client they were loaded for
  retired          \* history: derived keys a started server knew as exported

cvars == <<client_configs, server, served, retired>>

Indexed(e) == e.type \in {"Derived", "Exported"}
Active(e) == e.type \in {"Derived", "Imported"}

Entry(c, type, ref) ==
  [name |-> c.name, key_server_object_id |-> c.key_server_object_id,
   package_ids |-> c.package_ids, type |-> type, ref |-> ref]

Ids(e) == {e.key_server_object_id} \cup e.package_ids

derivation_indices(cfg) == {cfg[k].ref : k \in {j \in DOMAIN cfg : Indexed(cfg[j])}}

-----------------------------------------------------------------------------
validate_LiveIndices(cfg) ==
  /\ \A k \in DOMAIN cfg : cfg[k].package_ids # {} /\ cfg[k].key_server_object_id \notin cfg[k].package_ids
  /\ \A k, j \in DOMAIN cfg : k # j =>
       /\ cfg[k].name # cfg[j].name
       /\ cfg[k].type = cfg[j].type => cfg[k].ref # cfg[j].ref
       /\ Ids(cfg[k]) \cap Ids(cfg[j]) = {}
  /\ 0..(Cardinality(derivation_indices(cfg)) - 1) \subseteq derivation_indices(cfg)

\* Names, indices, environment variables and object ids are unique among the entries, and
\* the indices of derived and exported keys are those from 0 on.
validate(cfg) ==
  /\ \A k \in DOMAIN cfg : cfg[k].package_ids # {} /\ cfg[k].key_server_object_id \notin cfg[k].package_ids
  /\ \A k, j \in DOMAIN cfg : k # j =>
       /\ cfg[k].name # cfg[j].name
       /\ Indexed(cfg[k]) = Indexed(cfg[j]) => cfg[k].ref # cfg[j].ref
       /\ Ids(cfg[k]) \cap Ids(cfg[j]) = {}
  /\ 0..(Cardinality(derivation_indices(cfg)) - 1) \subseteq derivation_indices(cfg)

master_key(e) == [type |-> e.type, ref |-> e.ref]

\* The key an id is mapped to: the one of the last entry that inserts it.
insert(cfg, entries) == master_key(cfg[CHOOSE k \in entries : \A j \in entries : j <= k])

\* MasterKeys::load: exported keys are skipped; an environment variable without a key, and a
\* configuration without packages, are errors.
load(cfg) ==
  LET active == {k \in DOMAIN cfg : Active(cfg[k])}
      pkgs == UNION {cfg[k].package_ids : k \in active}
      oids == {cfg[k].key_server_object_id : k \in active}
  IN  IF pkgs = {} \/ \E k \in active : cfg[k].type = "Imported" /\ cfg[k].ref \notin EnvSet
      THEN None
      ELSE [pkg_id_to_key |->
              [p \in pkgs |-> insert(cfg, {k \in active : p \in cfg[k].package_ids})],
            key_server_oid_to_key |->
              [o \in oids |-> insert(cfg, {k \in active : o = cfg[k].key_server_object_id})]]

get_supported_key_server_object_ids_All(cfg) ==
  {cfg[k].key_server_object_id : k \in DOMAIN cfg}

get_supported_key_server_object_ids(cfg) ==
  {cfg[k].key_server_object_id : k \in {j \in DOMAIN cfg : Active(cfg[j])}}

get_key_for_package(p) ==
  IF server # None /\ p \in DOMAIN server.pkg_id_to_key THEN server.pkg_id_to_key[p] ELSE None

\* What the server logs at its start for the next client.
next_free_derivation_index(cfg) ==
  IF derivation_indices(cfg) = {} THEN 0
  ELSE 1 + CHOOSE i \in derivation_indices(cfg) : \A j \in derivation_indices(cfg) : j <= i

-----------------------------------------------------------------------------
\* The server is started with an edited configuration.
Start(cfg) ==
  IF validate(cfg) /\ load(cfg) # None
  THEN /\ client_configs' = cfg
       /\ server' = load(cfg)
       /\ served' = served \cup {[index |-> cfg[k].ref, name |-> cfg[k].name] :
                                   k \in {j \in DOMAIN cfg : cfg[j].type = "Derived"}}
       /\ retired' = retired \cup {cfg[k].ref : k \in {j \in DOMAIN cfg : cfg[j].type = "Exported"}}
  ELSE server' = None /\ UNCHANGED <<client_configs, served, retired>>

Register(c, i) ==
  /\ Len(client_configs) < MaxClients
  /\ Start(Append(client_configs, Entry(c, "Derived", i)))

Import(c, v) ==
  /\ Len(client_configs) < MaxClients
  /\ Start(Append(client_configs, Entry(c, "Imported", v)))

\* The entry of an exported client keeps all but its key.
Export(k, i) ==
  /\ client_configs[k].type = "Derived"
  /\ Start([client_configs EXCEPT ![k].type = "Exported", ![k].ref = i])

\* Without an edit.
Restart == server = None /\ Start(client_configs)

CInit ==
  /\ client_configs = <<>> /\ server = None
  /\ served = {} /\ retired = {}

Operate ==
  \/ \E c \in Client : \/ \E i \in 0..MaxDerivation : Register(c, i)
                       \/ \E v \in EnvVar : Import(c, v)
  \/ \E k \in DOMAIN client_configs : \E i \in 0..MaxDerivation : Export(k, i)
  \/ Restart

CSpec == CInit /\ [][Operate]_cvars

-----------------------------------------------------------------------------
\* A derived key is never handed on: whatever indices the operator types, over all restarts
\* a key is loaded for one client only, it is not loaded again once a server was started that
\* had it as exported, and the index the log offers for the next client was nobody's before.
\* KeyServerOptions::validate, MasterKeys::load, log_unassigned_public_keys.
KeysNeverHandedOn ==
  /\ \A x, y \in served : x.index = y.index => x.name = y.name
  /\ server # None =>
       \A p \in DOMAIN server.pkg_id_to_key :
         server.pkg_id_to_key[p].type = "Derived" => server.pkg_id_to_key[p].ref \notin retired
  /\ next_free_derivation_index(client_configs) \notin retired \cup {x.index : x \in served}

\* The start does not panic on a key server object without a key, and the proof of possession
\* it makes for an object is for the key that the packages of that client get.
\* Server::build_key_server_pop_map ("checked already"), MasterKeys::load.
PopsOfServedKeys ==
  server # None =>
    \A k \in DOMAIN client_configs :
      LET e == client_configs[k]
      IN  e.key_server_object_id \in get_supported_key_server_object_ids(client_configs) =>
            /\ e.key_server_object_id \in DOMAIN server.key_server_oid_to_key
            /\ \A p \in e.package_ids :
                 get_key_for_package(p) = server.key_server_oid_to_key[e.key_server_object_id]

=============================================================================
