------------------------------ MODULE KeyServer ------------------------------
(***************************************************************************)
(* The committee flavour of the on-chain key server object                 *)
(* (move/seal/sources/key_server.move): the values a KeyServerV2 with      *)
(* ServerType::Committee takes and the functions that the committee        *)
(* package calls on it.  A function that can abort is split into its       *)
(* assertions (a predicate) and its result.                                *)
(*                                                                         *)
(* Group elements, names and URLs are uninterpreted values.  g2_from_bytes *)
(* aborts on a malformed point and has no other effect, so only            *)
(* well-formed points are among the inputs.                                *)
(*                                                                         *)
(* Definitions whose name ends in _Suffix are faulty variants of the       *)
(* definition they precede; no specification uses them (see README.md).    *)
(***************************************************************************)
EXTENDS Integers, Sequences, FiniteSets

\* PartialKeyServer: one entry per committee member, party_id counted from 0.
PartialKeyServer(Name, Url, PartialPk) ==
  [name : Name, url : Url, partial_pk : PartialPk, party_id : Nat]

\* KeyServerV2 with ServerType::Committee; owner_name is the id of the first committee.
KeyServerV2(OwnerName, Name, Url, PartialPk, Pk) ==
  [name : OwnerName, pk : Pk, version : Nat, threshold : Nat,
   partial_key_servers : Seq(PartialKeyServer(Name, Url, PartialPk))]

create_partial_key_server(name, url, partial_pk, party_id) ==
  [name |-> name, url |-> url, partial_pk |-> partial_pk, party_id |-> party_id]

\* The assertions of validate_partial_key_servers: threshold, party ids, unique names.
validate_partial_key_servers(threshold, partials) ==
  /\ threshold > 1
  /\ Len(partials) >= threshold
  /\ \A i \in DOMAIN partials : partials[i].party_id = i - 1
  /\ \A i, j \in DOMAIN partials : partials[i].name = partials[j].name => i = j

\* Committee key servers start at committee version 0.
create_committee_v2(name, threshold, pk, partials) ==
  [name |-> name, pk |-> pk, version |-> 0, threshold |-> threshold,
   partial_key_servers |-> partials]

update_partial_key_servers_KeepThreshold(ks, threshold, partials) ==
  [ks EXCEPT !.version = @ + 1, !.partial_key_servers = partials]
\* Rotation replaces threshold and entries and bumps the version; the pk is kept.
update_partial_key_servers(ks, threshold, partials) ==
  [name |-> ks.name, pk |-> ks.pk, version |-> ks.version + 1,
   threshold |-> threshold, partial_key_servers |-> partials]

\* The entry of party_id gets a new URL; the caller checks party_id < n.
update_url_of(ks, url, party_id) ==
  [name |-> ks.name, pk |-> ks.pk, version |-> ks.version, threshold |-> ks.threshold,
   partial_key_servers |-> [ks.partial_key_servers EXCEPT ![party_id + 1].url = url]]
=============================================================================
