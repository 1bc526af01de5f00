---------------------- MODULE PermissionedServerProofs ----------------------
(***************************************************************************)
(* Permissioned servers: whatever the operator types, a derived key is of  *)
(* one client for ever; what a request is given is the one client's whose  *)
(* package it names; and what is simulated is what was signed.  For any    *)
(* number of clients, packages and indices and transactions of any size.   *)
(***************************************************************************)
EXTENDS PermissionedServer, FiniteSetTheorems, WellFoundedInduction, TLAPS

-----------------------------------------------------------------------------
\* The inputs the server adds to a transaction follow those of the client.
LEMMA Appended ==
  ASSUME NEW S, NEW s \in Seq(S), NEW a \in S, NEW b \in S, NEW c \in S, NEW two, two = s \o <<a, b>>
  PROVE  /\ two \in Seq(S) /\ Len(two) = Len(s) + 2
         /\ \A i \in 1..Len(s) : two[i] = s[i]
         /\ two[Len(s) + 1] = a /\ two[Len(s) + 2] = b
         /\ Append(two, c) \in Seq(S) /\ Len(Append(two, c)) = Len(s) + 3
         /\ \A i \in 1..(Len(s) + 2) : Append(two, c)[i] = two[i]
         /\ Append(two, c)[Len(s) + 3] = c
<1>1. <<a, b>> \in Seq(S) /\ Len(<<a, b>>) = 2 /\ <<a, b>>[1] = a /\ <<a, b>>[2] = b
  OBVIOUS
<1> DEFINE ab == <<a, b>>
<1>2. ab \in Seq(S) /\ Len(ab) = 2 /\ ab[1] = a /\ ab[2] = b /\ two = s \o ab
  BY <1>1
<1> HIDE DEF ab
<1>3. two \in Seq(S) /\ Len(two) = Len(s) + 2
  BY <1>2
<1>4. \A i \in 1..Len(s) : two[i] = s[i]
  BY <1>2
<1>5. two[Len(s) + 1] = ab[1] /\ two[Len(s) + 2] = ab[2]
  BY <1>2
<1>6. Append(two, c) \in Seq(S) /\ Len(Append(two, c)) = Len(two) + 1
      /\ (\A i \in 1..Len(two) : Append(two, c)[i] = two[i])
      /\ Append(two, c)[Len(two) + 1] = c
  BY <1>3
<1>7. Len(s) \in Nat
  OBVIOUS
<1> QED BY <1>2, <1>3, <1>4, <1>5, <1>6, <1>7

\* The configuration.

\* The entries a configuration may have.
ClientEntry ==
  {e \in [name : Name, key_server_object_id : ObjectID, package_ids : SUBSET ObjectID,
          type : {"Derived", "Imported", "Exported"}, ref : EnvVar \cup (0..MaxDerivation)] :
     Indexed(e) => e.ref \in 0..MaxDerivation}

\* Every entry with an index keeps its place, its index and its name, and exported ones stay so.
Keeps(cfg, new) ==
  \A k \in DOMAIN cfg : Indexed(cfg[k]) =>
    /\ k \in DOMAIN new /\ Indexed(new[k])
    /\ new[k].ref = cfg[k].ref /\ new[k].name = cfg[k].name
    /\ cfg[k].type = "Exported" => new[k].type = "Exported"

\* The running server has the keys of the configuration, which is valid.
ServerInv ==
  /\ client_configs \in Seq(ClientEntry)
  /\ validate(client_configs)
  /\ server # None => server = load(client_configs)

\* Whom a key was ever loaded for still has its index, and what was exported still is.
HistoryInv ==
  /\ \A x \in served : \E k \in DOMAIN client_configs :
       /\ Indexed(client_configs[k])
       /\ client_configs[k].ref = x.index /\ client_configs[k].name = x.name
  /\ \A i \in retired : \E k \in DOMAIN client_configs :
       client_configs[k].type = "Exported" /\ client_configs[k].ref = i

PtbInv == ptb \in [inputs : Seq(ClientInput), commands : Seq(Command)]

PermissionedInv == ServerInv /\ HistoryInv /\ PtbInv

-----------------------------------------------------------------------------
\* The indices of a valid configuration are those from 0 on, without a gap: the code compares
\* them with as many numbers as there are of them.
LEMMA NoGaps ==
  ASSUME NEW cfg \in Seq(ClientEntry), validate(cfg)
  PROVE  /\ IsFiniteSet(derivation_indices(cfg)) /\ Cardinality(derivation_indices(cfg)) \in Nat
         /\ derivation_indices(cfg) = 0..(Cardinality(derivation_indices(cfg)) - 1)
<1> DEFINE D == derivation_indices(cfg)
           c == Cardinality(D)
<1>1. D \subseteq 0..MaxDerivation
  BY DEF derivation_indices, ClientEntry
<1>2. MaxDerivation \in Nat
  BY ClientAssumption
<1>3. IsFiniteSet(0..MaxDerivation)
  BY <1>2, FS_Interval
<1>4. IsFiniteSet(D)
  BY <1>1, <1>3, FS_Subset, ZenonT(30)
<1>5. c \in Nat
  BY <1>4, FS_CardinalityType
<1>6. 0..(c - 1) \subseteq D
  BY DEF validate
<1>7. Cardinality(0..(c - 1)) = c
  <2> HIDE DEF c
  <2>1. Cardinality(0..(c - 1)) = IF 0 > c - 1 THEN 0 ELSE c - 1 - 0 + 1
    BY <1>5, FS_Interval
  <2> QED BY <2>1, <1>5
<1>8. 0..(c - 1) = D
  BY <1>4, <1>6, <1>7, FS_Subset, ZenonT(30)
<1> QED BY <1>4, <1>5, <1>8

\* The index of the next client is the number of the indices there are.
LEMMA NextIsFree ==
  ASSUME NEW cfg \in Seq(ClientEntry), validate(cfg)
  PROVE  next_free_derivation_index(cfg) \notin derivation_indices(cfg)
<1> DEFINE D == derivation_indices(cfg)
           c == Cardinality(D)
<1>1. c \in Nat /\ D = 0..(c - 1)
  BY NoGaps
<1>2. CASE D = {}
  BY <1>2
<1>3. CASE D # {}
  <2> HIDE DEF D, c
  <2>1. c - 1 \in D /\ \A j \in D : j <= c - 1
    BY <1>1, <1>3
  <2> DEFINE m == CHOOSE i \in D : \A j \in D : j <= i
  <2>2. m \in D /\ \A j \in D : j <= m
    BY <2>1
  <2>3. m = c - 1
    BY <2>1, <2>2, <1>1
  <2>4. next_free_derivation_index(cfg) = 1 + m
    BY <1>3 DEF next_free_derivation_index, D
  <2>5. c \notin D
    BY <1>1
  <2> HIDE DEF m
  <2>6. next_free_derivation_index(cfg) = c
    BY <2>3, <2>4, <1>1
  <2> QED BY <2>5, <2>6 DEF D
<1> QED BY <1>2, <1>3

\* What validate compares, in the form the proofs use it.
LEMMA Unique ==
  ASSUME NEW cfg, validate(cfg), NEW k \in DOMAIN cfg, NEW j \in DOMAIN cfg, k # j
  PROVE  /\ cfg[k].name # cfg[j].name
         /\ Indexed(cfg[k]) /\ Indexed(cfg[j]) => cfg[k].ref # cfg[j].ref
         /\ Ids(cfg[k]) \cap Ids(cfg[j]) = {}
<1>1. Indexed(cfg[k]) /\ Indexed(cfg[j]) => (Indexed(cfg[k]) = Indexed(cfg[j]))
  BY DEF Indexed
<1>2. /\ cfg[k].name # cfg[j].name
      /\ Indexed(cfg[k]) = Indexed(cfg[j]) => cfg[k].ref # cfg[j].ref
      /\ Ids(cfg[k]) \cap Ids(cfg[j]) = {}
  BY DEF validate
<1> QED BY <1>1, <1>2

\* An exported entry has the index it had before: with another one there would be a gap.
LEMMA ExportKeepsIndex ==
  ASSUME NEW cfg \in Seq(ClientEntry), validate(cfg), NEW new \in Seq(ClientEntry), validate(new),
         NEW k \in DOMAIN cfg, NEW i \in 0..MaxDerivation, cfg[k].type = "Derived",
         new = [cfg EXCEPT ![k].type = "Exported", ![k].ref = i]
  PROVE  cfg[k].ref = i
<1> DEFINE D == derivation_indices(cfg)
           E == derivation_indices(new)
           j == cfg[k].ref
           F == D \ {j}
<1>1. DOMAIN new = DOMAIN cfg /\ new[k].type = "Exported" /\ new[k].ref = i
      /\ \A h \in DOMAIN cfg \ {k} : new[h] = cfg[h]
  <2>1. cfg[k] \in ClientEntry
    OBVIOUS
  <2>2. DOMAIN cfg[k] = {"name", "key_server_object_id", "package_ids", "type", "ref"}
    BY <2>1 DEF ClientEntry
  <2> QED BY <2>2, ZenonT(30)
<1>2. j \in D /\ j \notin {cfg[h].ref : h \in {g \in DOMAIN cfg \ {k} : Indexed(cfg[g])}}
  <2>1. Indexed(cfg[k])
    BY DEF Indexed
  <2>2. \A h \in DOMAIN cfg \ {k} : Indexed(cfg[h]) => cfg[h].ref # j
    BY <2>1, Unique
  <2> QED BY <2>1, <2>2 DEF derivation_indices
<1>3. F = {cfg[h].ref : h \in {g \in DOMAIN cfg \ {k} : Indexed(cfg[g])}}
  BY <1>2 DEF derivation_indices
<1>4. i \notin F
  <2>1. Indexed(new[k])
    BY <1>1 DEF Indexed
  <2>2. ASSUME NEW h \in DOMAIN new, h # k, Indexed(new[h])
        PROVE  new[h].ref # new[k].ref
    <3>1. k \in DOMAIN new
      BY <1>1
    <3> QED BY <2>1, <2>2, <3>1, Unique, ZenonT(30)
  <2>3. \A h \in DOMAIN cfg \ {k} : Indexed(cfg[h]) => cfg[h].ref # i
    BY <1>1, <2>2
  <2> QED BY <1>3, <2>3
<1>5. E = F \cup {i}
  BY <1>1, <1>3 DEF derivation_indices, Indexed
<1>6. IsFiniteSet(D) /\ Cardinality(D) \in Nat /\ D = 0..(Cardinality(D) - 1)
  BY NoGaps
<1>7. E = 0..(Cardinality(E) - 1)
  BY NoGaps, ZenonT(30)
<1>8. IsFiniteSet(F) /\ Cardinality(F) = Cardinality(D) - 1
  BY <1>2, <1>6, FS_RemoveElement, ZenonT(30)
<1>9. Cardinality(E) = Cardinality(F) + 1
  BY <1>4, <1>5, <1>8, FS_AddElement, ZenonT(30)
<1>10. E = D
  <2> HIDE DEF D, E, F
  <2> QED BY <1>6, <1>7, <1>8, <1>9
<1> QED BY <1>4, <1>5, <1>10, ZenonT(30)

-----------------------------------------------------------------------------
\* The steps of the operator.

\* Every start of the server, when the edit keeps the indices if it is valid.
LEMMA StartKeepsInv ==
  ASSUME ServerInv, HistoryInv, NEW new \in Seq(ClientEntry), Start(new),
         validate(new) => Keeps(client_configs, new)
  PROVE  ServerInv' /\ HistoryInv'
<1>1. CASE validate(new) /\ load(new) # None
  <2>1. /\ client_configs' = new /\ server' = load(new)
        /\ served' = served \cup {[index |-> new[k].ref, name |-> new[k].name] :
                                    k \in {j \in DOMAIN new : new[j].type = "Derived"}}
        /\ retired' = retired \cup {new[k].ref : k \in {j \in DOMAIN new : new[j].type = "Exported"}}
    BY <1>1 DEF Start
  <2>2. Keeps(client_configs, new)
    BY <1>1
  <2>3. ServerInv'
    BY <1>1, <2>1 DEF ServerInv
  <2>4. ASSUME NEW x \in served'
        PROVE  \E k \in DOMAIN new : Indexed(new[k]) /\ new[k].ref = x.index /\ new[k].name = x.name
    <3>1. CASE x \in served
      <4>1. PICK k \in DOMAIN client_configs :
              /\ Indexed(client_configs[k])
              /\ client_configs[k].ref = x.index /\ client_configs[k].name = x.name
        BY <3>1 DEF HistoryInv
      <4>2. k \in DOMAIN new /\ Indexed(new[k]) /\ new[k].ref = x.index /\ new[k].name = x.name
        BY <4>1, <2>2 DEF Keeps
      <4> QED BY <4>2
    <3>2. CASE x \notin served
      <4>1. PICK k \in DOMAIN new : /\ new[k].type = "Derived"
                                    /\ x = [index |-> new[k].ref, name |-> new[k].name]
        BY <3>2, <2>1
      <4>2. Indexed(new[k]) /\ x.index = new[k].ref /\ x.name = new[k].name
        BY <4>1 DEF Indexed
      <4> QED BY <4>2
    <3> QED BY <3>1, <3>2
  <2>5. ASSUME NEW i \in retired'
        PROVE  \E k \in DOMAIN new : new[k].type = "Exported" /\ new[k].ref = i
    <3>1. CASE i \in retired
      <4>1. PICK k \in DOMAIN client_configs :
              client_configs[k].type = "Exported" /\ client_configs[k].ref = i
        BY <3>1 DEF HistoryInv
      <4>2. Indexed(client_configs[k])
        BY <4>1 DEF Indexed
      <4>3. k \in DOMAIN new /\ new[k].type = "Exported" /\ new[k].ref = i
        BY <4>1, <4>2, <2>2, ZenonT(30) DEF Keeps
      <4> QED BY <4>3
    <3>2. CASE i \notin retired
      BY <3>2, <2>1, Zenon
    <3> QED BY <3>1, <3>2
  <2> QED BY <2>1, <2>3, <2>4, <2>5, ZenonT(30) DEF HistoryInv
<1>2. CASE ~(validate(new) /\ load(new) # None)
  <2>1. server' = None /\ UNCHANGED <<client_configs, served, retired>>
    BY <1>2 DEF Start
  <2> QED BY <2>1 DEF ServerInv, HistoryInv
<1> QED BY <1>1, <1>2

\* A new entry leaves the others alone.
LEMMA AppendKeeps ==
  ASSUME NEW cfg \in Seq(ClientEntry), NEW e \in ClientEntry
  PROVE  Append(cfg, e) \in Seq(ClientEntry) /\ Keeps(cfg, Append(cfg, e))
<1>1. Append(cfg, e) \in Seq(ClientEntry) /\ DOMAIN cfg \subseteq DOMAIN Append(cfg, e)
      /\ \A k \in DOMAIN cfg : Append(cfg, e)[k] = cfg[k]
  OBVIOUS
<1> QED BY <1>1 DEF Keeps

LEMMA EntryType ==
  ASSUME NEW c \in Client
  PROVE  /\ \A i \in 0..MaxDerivation : Entry(c, "Derived", i) \in ClientEntry
         /\ \A v \in EnvVar : Entry(c, "Imported", v) \in ClientEntry
<1>1. c.name \in Name /\ c.key_server_object_id \in ObjectID /\ c.package_ids \in SUBSET ObjectID
  BY ClientAssumption
<1> QED BY <1>1 DEF Entry, ClientEntry, Indexed

LEMMA ExportedEntry ==
  ASSUME NEW r \in ClientEntry, NEW i
  PROVE  [[r EXCEPT !.type = "Exported"] EXCEPT !.ref = i]
         = [name |-> r.name, key_server_object_id |-> r.key_server_object_id,
            package_ids |-> r.package_ids, type |-> "Exported", ref |-> i]
<1> DEFINE s == [r EXCEPT !.type = "Exported"]
<1>1. s = [name |-> r.name, key_server_object_id |-> r.key_server_object_id,
           package_ids |-> r.package_ids, type |-> "Exported", ref |-> r.ref]
  BY DEF ClientEntry
<1>2. DOMAIN s = {"name", "key_server_object_id", "package_ids", "type", "ref"}
      /\ s.name = r.name /\ s.key_server_object_id = r.key_server_object_id
      /\ s.package_ids = r.package_ids /\ s.type = "Exported"
  BY <1>1
<1> HIDE DEF s
<1>3. [s EXCEPT !.ref = i]
      = [name |-> s.name, key_server_object_id |-> s.key_server_object_id,
         package_ids |-> s.package_ids, type |-> s.type, ref |-> i]
  BY <1>2
<1>4. [s EXCEPT !.ref = i]
      = [name |-> r.name, key_server_object_id |-> r.key_server_object_id,
         package_ids |-> r.package_ids, type |-> "Exported", ref |-> i]
  BY <1>2, <1>3
<1> QED BY <1>4 DEF s

\* Exporting a client keeps its index, or the server does not start.
LEMMA ExportKeeps ==
  ASSUME NEW cfg \in Seq(ClientEntry), validate(cfg), NEW k \in DOMAIN cfg, NEW i \in 0..MaxDerivation,
         cfg[k].type = "Derived",
         NEW new, new = [cfg EXCEPT ![k].type = "Exported", ![k].ref = i]
  PROVE  new \in Seq(ClientEntry) /\ (validate(new) => Keeps(cfg, new))
<1> DEFINE e == [name |-> cfg[k].name, key_server_object_id |-> cfg[k].key_server_object_id,
                 package_ids |-> cfg[k].package_ids, type |-> "Exported", ref |-> i]
<1>1. cfg[k] \in ClientEntry
  OBVIOUS
<1>2. [[cfg[k] EXCEPT !.type = "Exported"] EXCEPT !.ref = i] = e
  BY <1>1, ExportedEntry, ZenonT(30)
<1>3. e \in ClientEntry
  BY <1>1 DEF ClientEntry
<1>4. new = [cfg EXCEPT ![k] = e]
  BY <1>2, ZenonT(30)
<1> HIDE DEF e
<1>5. new \in Seq(ClientEntry)
  <2>1. k \in 1..Len(cfg)
    OBVIOUS
  <2>2. [cfg EXCEPT ![k] = e] \in Seq(ClientEntry)
    BY <1>3, <2>1
  <2> QED BY <1>4, <2>2, Zenon
<1>6. ASSUME validate(new) PROVE Keeps(cfg, new)
  <2>1. cfg[k].ref = i
    BY <1>5, <1>6, ExportKeepsIndex, ZenonT(30)
  <2>2. DOMAIN new = DOMAIN cfg /\ new[k] = e /\ \A h \in DOMAIN cfg \ {k} : new[h] = cfg[h]
    BY <1>4
  <2>3. e.name = cfg[k].name /\ e.ref = i /\ e.type = "Exported" /\ Indexed(e)
    BY DEF e, Indexed
  <2>4. ASSUME NEW h \in DOMAIN cfg, Indexed(cfg[h])
        PROVE  /\ h \in DOMAIN new /\ Indexed(new[h])
               /\ new[h].ref = cfg[h].ref /\ new[h].name = cfg[h].name
               /\ cfg[h].type = "Exported" => new[h].type = "Exported"
    <3>1. CASE h = k
      BY <2>1, <2>2, <2>3, <3>1, Zenon
    <3>2. CASE h # k
      BY <2>2, <2>4, <3>2, Zenon
    <3> QED BY <3>1, <3>2, Zenon
  <2> QED BY <2>4 DEF Keeps
<1> QED BY <1>5, <1>6

LEMMA OperateKeepsInv ==
  ASSUME ServerInv, HistoryInv, Operate
  PROVE  ServerInv' /\ HistoryInv'
<1>0. client_configs \in Seq(ClientEntry) /\ validate(client_configs)
  BY DEF ServerInv
<1>1. ASSUME NEW c \in Client, NEW i \in 0..MaxDerivation, Register(c, i)
      PROVE  ServerInv' /\ HistoryInv'
  <2> DEFINE e == Entry(c, "Derived", i)
  <2>1. e \in ClientEntry
    BY EntryType
  <2>2. Start(Append(client_configs, e))
    BY <1>1 DEF Register
  <2> HIDE DEF e
  <2> QED BY <1>0, <2>1, <2>2, AppendKeeps, StartKeepsInv, ZenonT(30)
<1>2. ASSUME NEW c \in Client, NEW v \in EnvVar, Import(c, v)
      PROVE  ServerInv' /\ HistoryInv'
  <2> DEFINE e == Entry(c, "Imported", v)
  <2>1. e \in ClientEntry
    BY EntryType
  <2>2. Start(Append(client_configs, e))
    BY <1>2 DEF Import
  <2> HIDE DEF e
  <2> QED BY <1>0, <2>1, <2>2, AppendKeeps, StartKeepsInv, ZenonT(30)
<1>3. ASSUME NEW k \in DOMAIN client_configs, NEW i \in 0..MaxDerivation, Export(k, i)
      PROVE  ServerInv' /\ HistoryInv'
  <2> DEFINE new == [client_configs EXCEPT ![k].type = "Exported", ![k].ref = i]
  <2>1. client_configs[k].type = "Derived" /\ Start(new)
    BY <1>3 DEF Export
  <2>2. new \in Seq(ClientEntry) /\ (validate(new) => Keeps(client_configs, new))
    BY <1>0, <2>1, ExportKeeps, ZenonT(30)
  <2> HIDE DEF new
  <2> QED BY <2>1, <2>2, StartKeepsInv, ZenonT(30)
<1>4. ASSUME Restart PROVE ServerInv' /\ HistoryInv'
  <2>1. Start(client_configs) /\ Keeps(client_configs, client_configs)
    BY <1>4 DEF Restart, Keeps
  <2> QED BY <1>0, <2>1, StartKeepsInv, ZenonT(30)
<1> QED BY <1>1, <1>2, <1>3, <1>4, ZenonT(30) DEF Operate

-----------------------------------------------------------------------------
\* The keys of a valid configuration.

\* An id is of one entry, whose key it is mapped to.
LEMMA LoadedKeys ==
  ASSUME NEW cfg \in Seq(ClientEntry), validate(cfg), load(cfg) # None
  PROVE  /\ \A p \in DOMAIN load(cfg).pkg_id_to_key :
              \E k \in DOMAIN cfg : Active(cfg[k]) /\ p \in cfg[k].package_ids
         /\ \A k \in DOMAIN cfg : Active(cfg[k]) =>
              /\ \A p \in cfg[k].package_ids :
                   /\ p \in DOMAIN load(cfg).pkg_id_to_key
                   /\ load(cfg).pkg_id_to_key[p] = master_key(cfg[k])
              /\ cfg[k].key_server_object_id \in DOMAIN load(cfg).key_server_oid_to_key
              /\ load(cfg).key_server_oid_to_key[cfg[k].key_server_object_id] = master_key(cfg[k])
<1> DEFINE active == {k \in DOMAIN cfg : Active(cfg[k])}
           pkgs == UNION {cfg[k].package_ids : k \in active}
           oids == {cfg[k].key_server_object_id : k \in active}
           of_pkg(p) == {k \in active : p \in cfg[k].package_ids}
           of_oid(o) == {k \in active : o = cfg[k].key_server_object_id}
           P == [p \in pkgs |-> insert(cfg, of_pkg(p))]
           O == [o \in oids |-> insert(cfg, of_oid(o))]
<1>1. load(cfg) = [pkg_id_to_key |-> P, key_server_oid_to_key |-> O]
  BY DEF load
<1>2. load(cfg).pkg_id_to_key = P /\ load(cfg).key_server_oid_to_key = O
  <2> HIDE DEF P, O
  <2> QED BY <1>1
<1>3. ASSUME NEW k \in DOMAIN cfg PROVE insert(cfg, {k}) = master_key(cfg[k])
  <2>1. k <= k
    OBVIOUS
  <2>2. (CHOOSE h \in {k} : \A j \in {k} : j <= h) = k
    BY <2>1, Zenon
  <2> QED BY <2>2, Zenon DEF insert
<1>4. ASSUME NEW k \in active, NEW p \in cfg[k].package_ids
      PROVE  p \in pkgs /\ of_pkg(p) = {k}
  <2>1. \A h \in active : p \in cfg[h].package_ids => h = k
    BY <1>4, Unique, Zenon DEF Ids
  <2> QED BY <1>4, <2>1, Zenon
<1>5. ASSUME NEW k \in active
      PROVE  cfg[k].key_server_object_id \in oids /\ of_oid(cfg[k].key_server_object_id) = {k}
  <2>1. \A h \in active : cfg[k].key_server_object_id = cfg[h].key_server_object_id => h = k
    BY <1>5, Unique, Zenon DEF Ids
  <2> QED BY <1>5, <2>1, Zenon
<1>6. \A p \in DOMAIN P : \E k \in DOMAIN cfg : Active(cfg[k]) /\ p \in cfg[k].package_ids
  OBVIOUS
<1>7. ASSUME NEW k \in DOMAIN cfg, Active(cfg[k])
      PROVE  /\ \A p \in cfg[k].package_ids : p \in DOMAIN P /\ P[p] = master_key(cfg[k])
             /\ cfg[k].key_server_object_id \in DOMAIN O
             /\ O[cfg[k].key_server_object_id] = master_key(cfg[k])
  <2>1. k \in active
    BY <1>7
  <2> HIDE DEF active, pkgs, oids, of_pkg, of_oid
  <2> QED BY <1>3, <1>4, <1>5, <2>1, ZenonT(30)
<1> QED BY <1>2, <1>6, <1>7, ZenonT(30)

LEMMA KeysNotHandedOn ==
  ASSUME ServerInv, HistoryInv
  PROVE  KeysNeverHandedOn
<1>0. client_configs \in Seq(ClientEntry) /\ validate(client_configs)
  BY DEF ServerInv
<1>1. ASSUME NEW x \in served, NEW y \in served, x.index = y.index
      PROVE  x.name = y.name
  <2>1. PICK k \in DOMAIN client_configs :
          /\ Indexed(client_configs[k])
          /\ client_configs[k].ref = x.index /\ client_configs[k].name = x.name
    BY DEF HistoryInv
  <2>2. PICK j \in DOMAIN client_configs :
          /\ Indexed(client_configs[j])
          /\ client_configs[j].ref = y.index /\ client_configs[j].name = y.name
    BY DEF HistoryInv
  <2>3. k = j
    BY <1>0, <1>1, <2>1, <2>2, Unique, ZenonT(30)
  <2> QED BY <2>1, <2>2, <2>3, ZenonT(30)
<1>2. ASSUME server # None, NEW p \in DOMAIN server.pkg_id_to_key,
             server.pkg_id_to_key[p].type = "Derived", server.pkg_id_to_key[p].ref \in retired
      PROVE  FALSE
  <2>1. server = load(client_configs) /\ load(client_configs) # None
    BY <1>2 DEF ServerInv
  <2>2. PICK k \in DOMAIN client_configs :
          Active(client_configs[k]) /\ p \in client_configs[k].package_ids
    BY <1>0, <1>2, <2>1, LoadedKeys, ZenonT(30)
  <2>3. server.pkg_id_to_key[p] = master_key(client_configs[k])
    BY <1>0, <2>1, <2>2, LoadedKeys, ZenonT(30)
  <2>4. client_configs[k].type = "Derived" /\ client_configs[k].ref \in retired
    BY <1>2, <2>3 DEF master_key
  <2>5. PICK j \in DOMAIN client_configs :
          client_configs[j].type = "Exported" /\ client_configs[j].ref = client_configs[k].ref
    BY <2>4 DEF HistoryInv
  <2>6. Indexed(client_configs[k]) /\ Indexed(client_configs[j]) /\ j # k
    BY <2>4, <2>5 DEF Indexed
  <2> QED BY <1>0, <2>5, <2>6, Unique, Zenon
<1>3. \A x \in served : x.index \in derivation_indices(client_configs)
  BY DEF HistoryInv, derivation_indices
<1>4. \A i \in retired : i \in derivation_indices(client_configs)
  BY DEF HistoryInv, derivation_indices, Indexed
<1>5. next_free_derivation_index(client_configs) \notin derivation_indices(client_configs)
  BY <1>0, NextIsFree
<1>6. next_free_derivation_index(client_configs) \notin retired \cup {x.index : x \in served}
  BY <1>3, <1>4, <1>5, ZenonT(30)
<1> QED BY <1>1, <1>2, <1>6, Zenon DEF KeysNeverHandedOn

LEMMA PopsServed ==
  ASSUME ServerInv
  PROVE  PopsOfServedKeys
<1> SUFFICES ASSUME server # None, NEW k \in DOMAIN client_configs,
                    client_configs[k].key_server_object_id
                      \in get_supported_key_server_object_ids(client_configs)
             PROVE  /\ client_configs[k].key_server_object_id \in DOMAIN server.key_server_oid_to_key
                    /\ \A p \in client_configs[k].package_ids :
                         get_key_for_package(p)
                           = server.key_server_oid_to_key[client_configs[k].key_server_object_id]
  BY Zenon DEF PopsOfServedKeys
<1>0. client_configs \in Seq(ClientEntry) /\ validate(client_configs)
      /\ server = load(client_configs) /\ load(client_configs) # None
  BY DEF ServerInv
<1>1. PICK j \in DOMAIN client_configs :
        /\ Active(client_configs[j])
        /\ client_configs[k].key_server_object_id = client_configs[j].key_server_object_id
  BY DEF get_supported_key_server_object_ids
<1>2. k = j
  BY <1>0, <1>1, Unique, ZenonT(30) DEF Ids
<1>3. Active(client_configs[k])
  BY <1>1, <1>2, Zenon
<1>4. /\ \A p \in client_configs[k].package_ids :
           p \in DOMAIN server.pkg_id_to_key /\ server.pkg_id_to_key[p] = master_key(client_configs[k])
      /\ client_configs[k].key_server_object_id \in DOMAIN server.key_server_oid_to_key
      /\ server.key_server_oid_to_key[client_configs[k].key_server_object_id]
           = master_key(client_configs[k])
  BY <1>0, <1>3, LoadedKeys, ZenonT(30)
<1> QED BY <1>4 DEF get_key_for_package

-----------------------------------------------------------------------------
\* Requests.

\* What an accepted command is: each id it contributes is its own first argument.
LEMMA Approved ==
  ASSUME NEW p, try_from(p), NEW k \in DOMAIN p.commands
  PROVE  LET c == p.commands[k]
         IN  /\ c.kind = "MoveCall" /\ c.function = "seal_approve" /\ c.arguments # <<>>
             /\ pkg_id(p) = c.package
             /\ inner_ids(p)[k] = Input(p, c.arguments[1]) /\ inner_ids(p)[k] \in KeyId
<1>1. CommandOk(p, p.commands[k]) /\ p.commands[1].kind = "MoveCall"
  BY DEF try_from
<1>2. /\ p.commands[k].kind = "MoveCall" /\ p.commands[k].function = "seal_approve"
      /\ get_key_id(p, p.commands[k]) # Error
      /\ p.commands[k].package = p.commands[1].package
  BY <1>1, Zenon DEF CommandOk
<1>3. /\ p.commands[k].arguments # <<>>
      /\ get_key_id(p, p.commands[k]) = Input(p, p.commands[k].arguments[1])
      /\ Input(p, p.commands[k].arguments[1]) \in KeyId
  BY <1>2 DEF get_key_id
<1>4. inner_ids(p)[k] = get_key_id(p, p.commands[k])
  BY <1>2 DEF inner_ids
<1>5. pkg_id(p) = p.commands[k].package
  BY <1>1, <1>2 DEF pkg_id
<1> QED BY <1>2, <1>3, <1>4, <1>5, ZenonT(30)

LEMMA IdsApproved ==
  ASSUME ServerInv
  PROVE  EveryIdApproved
<1> DEFINE first == fetch_first_pkg_id(pkg_id(ptb))
           key == get_key_for_package(first)
           answer == fetch_key(ptb)
<1> SUFFICES ASSUME answer # Error
             PROVE  \E e \in Range(client_configs) :
                      /\ answer.key = master_key(e) /\ Active(e)
                      /\ \A id \in Range(answer.ids) :
                           \E c \in Range(ptb.commands) :
                             /\ c.kind = "MoveCall" /\ c.function = "seal_approve"
                             /\ c.arguments # <<>>
                             /\ id = <<fetch_first_pkg_id(c.package), Input(ptb, c.arguments[1])>>
                             /\ id[1] \in e.package_ids /\ id[2] \in KeyId
  BY Zenon DEF EveryIdApproved
<1>1. try_from(ptb) /\ key # None /\ answer = [key |-> key, ids |-> full_ids(ptb, first)]
  BY Zenon DEF fetch_key
<1>2. server # None /\ first \in DOMAIN server.pkg_id_to_key /\ key = server.pkg_id_to_key[first]
  BY <1>1 DEF get_key_for_package
<1>3. client_configs \in Seq(ClientEntry) /\ validate(client_configs)
      /\ server = load(client_configs) /\ load(client_configs) # None
  BY <1>2, Zenon DEF ServerInv
<1>4. PICK k \in DOMAIN client_configs :
        Active(client_configs[k]) /\ first \in client_configs[k].package_ids
  BY <1>2, <1>3, LoadedKeys, Zenon
<1>5. key = master_key(client_configs[k])
  BY <1>2, <1>3, <1>4, LoadedKeys, ZenonT(30)
<1>6. answer.key = key /\ answer.ids = full_ids(ptb, first)
  <2> HIDE DEF key, first, answer
  <2> QED BY <1>1
<1>7. ASSUME NEW id \in Range(answer.ids)
      PROVE  \E c \in Range(ptb.commands) :
               /\ c.kind = "MoveCall" /\ c.function = "seal_approve"
               /\ c.arguments # <<>>
               /\ id = <<fetch_first_pkg_id(c.package), Input(ptb, c.arguments[1])>>
               /\ id[1] \in client_configs[k].package_ids /\ id[2] \in KeyId
  <2> HIDE DEF answer
  <2>1. PICK j \in DOMAIN ptb.commands : id = <<first, inner_ids(ptb)[j]>>
    <3> HIDE DEF first
    <3> QED BY <1>6, Zenon DEF Range, full_ids
  <2>2. LET c == ptb.commands[j]
        IN  /\ c.kind = "MoveCall" /\ c.function = "seal_approve" /\ c.arguments # <<>>
            /\ pkg_id(ptb) = c.package
            /\ inner_ids(ptb)[j] = Input(ptb, c.arguments[1]) /\ inner_ids(ptb)[j] \in KeyId
    BY <1>1, Approved, Zenon
  <2>3. ptb.commands[j] \in Range(ptb.commands)
    BY DEF Range
  <2>4. id[1] = first /\ id[2] = inner_ids(ptb)[j]
    <3> HIDE DEF first
    <3> QED BY <2>1, Zenon
  <2>5. first = fetch_first_pkg_id(ptb.commands[j].package)
    BY <2>2, Zenon
  <2>6. id[1] \in client_configs[k].package_ids /\ id[2] \in KeyId
    BY <1>4, <2>2, <2>4, ZenonT(30)
  <2>7. id = <<fetch_first_pkg_id(ptb.commands[j].package), Input(ptb, ptb.commands[j].arguments[1])>>
    BY <2>1, <2>2, <2>5, Zenon
  <2> QED BY <2>2, <2>3, <2>6, <2>7, ZenonT(30)
<1>8. client_configs[k] \in Range(client_configs)
  BY DEF Range
<1> QED BY <1>4, <1>5, <1>6, <1>7, <1>8, ZenonT(30)

-----------------------------------------------------------------------------
\* The simulated transaction.

\* A set of natural numbers has a least one.
LEMMA LeastElement ==
  ASSUME NEW S \in SUBSET Nat, S # {}
  PROVE  Min(S) \in S
<1>1. \E x \in S : \A y \in S : ~(<<y, x>> \in OpToRel(<, Nat))
  BY NatLessThanWellFounded, WFMin
<1>2. PICK x \in S : \A y \in S : ~(<<y, x>> \in OpToRel(<, Nat))
  BY <1>1
<1>3. \A y \in S : ~(y < x)
  BY <1>2, ZenonT(30) DEF OpToRel
<1>4. \A y \in S : x =< y
  BY <1>3
<1> QED BY <1>4, ZenonT(30) DEF Min

\* Where the clock is, when there is one.
LEMMA ClockAt ==
  ASSUME NEW S, NEW s \in Seq(S), \E k \in DOMAIN s : s[k] = "clock"
  PROVE  LET at == SelectInSeq(s, LAMBDA x : x = "clock")
         IN  at \in 1..Len(s) /\ s[at] = "clock"
<1> DEFINE I == {i \in 1..Len(s) : s[i] = "clock"}
<1>1. I # {} /\ I \in SUBSET Nat
  OBVIOUS
<1>2. SelectInSeq(s, LAMBDA x : x = "clock") = Min(I)
  BY <1>1 DEF SelectInSeq
<1>3. Min(I) \in I
  BY <1>1, LeastElement, ZenonT(30)
<1> QED BY <1>2, <1>3, Zenon

LEMMA WithinLimit ==
  ASSUME NEW i, try_argument_from_input_index(i) # Error
  PROVE  try_argument_from_input_index(i) = i
BY DEF try_argument_from_input_index

LEMMA Simulates ==
  ASSUME PtbInv
  PROVE  SimulatesWhatWasSigned
<1> DEFINE sim == add_staleness_check_to_ptb(ptb)
           s == ptb.inputs
           n == Len(s)
           S == ClientInput \cup {"now", "allowed", "clock"}
           two == s \o <<"now", "allowed">>
           has_clock == \E k \in DOMAIN two : two[k] = "clock"
           inputs == IF has_clock THEN two ELSE Append(two, "clock")
           at == IF has_clock THEN SelectInSeq(two, LAMBDA x : x = "clock") - 1 ELSE n + 2
           x1 == try_argument_from_input_index(n)
           x2 == try_argument_from_input_index(n + 1)
           x3 == try_argument_from_input_index(at)
           args == <<x1, x2, x3>>
<1> SUFFICES ASSUME sim # Error
             PROVE  /\ Tail(sim.commands) = ptb.commands
                    /\ [k \in 1..3 |-> Input(sim, sim.commands[1].arguments[k])]
                         = <<"now", "allowed", "clock">>
                    /\ \A a : Input(ptb, a) # Error => Input(sim, a) = Input(ptb, a)
  BY Zenon DEF SimulatesWhatWasSigned
<1>1. s \in Seq(S) /\ n \in Nat /\ ptb.commands \in Seq(Command)
  BY DEF PtbInv
<1>2. Error \notin Range(args)
      /\ sim = [inputs |-> inputs,
                commands |-> <<staleness_check(args[1], args[2], args[3])>> \o ptb.commands]
  BY Zenon DEF add_staleness_check_to_ptb
<1>3. /\ two \in Seq(S) /\ Len(two) = n + 2
      /\ \A i \in 1..n : two[i] = s[i]
      /\ two[n + 1] = "now" /\ two[n + 2] = "allowed"
      /\ Append(two, "clock") \in Seq(S) /\ Len(Append(two, "clock")) = n + 3
      /\ \A i \in 1..(n + 2) : Append(two, "clock")[i] = two[i]
      /\ Append(two, "clock")[n + 3] = "clock"
  <2>1. "now" \in S /\ "allowed" \in S /\ "clock" \in S
    OBVIOUS
  <2> HIDE DEF S, s, n
  <2> QED BY <1>1, <2>1, Appended DEF n
<1>4. /\ inputs \in Seq(S) /\ Len(inputs) >= n + 2
      /\ \A i \in 1..n : inputs[i] = s[i]
      /\ inputs[n + 1] = "now" /\ inputs[n + 2] = "allowed"
      /\ at + 1 \in 1..Len(inputs) /\ at \in Int /\ inputs[at + 1] = "clock"
  <2> HIDE DEF S, s, n
  <2>1. CASE has_clock
    <3>1. inputs = two
      BY <2>1
    <3> DEFINE c == SelectInSeq(two, LAMBDA x : x = "clock")
    <3>2. c \in 1..Len(two) /\ two[c] = "clock"
      <4> HIDE DEF two
      <4> QED BY <2>1, <1>3, ClockAt, Zenon
    <3>3. at = c - 1
      BY <2>1
    <3> HIDE DEF two, c, at, inputs, has_clock
    <3>4. at + 1 = c /\ at \in Int /\ Len(two) >= n + 2
      BY <1>1, <1>3, <3>2, <3>3
    <3> QED BY <1>3, <3>1, <3>2, <3>4, ZenonT(30)
  <2>2. CASE ~has_clock
    <3>1. inputs = Append(two, "clock") /\ at = n + 2
      BY <2>2
    <3> HIDE DEF two, at, inputs, has_clock
    <3> QED BY <1>1, <1>3, <3>1
  <2> QED BY <2>1, <2>2, ZenonT(30)
<1> HIDE DEF inputs, at, has_clock, two, S
<1>5. args[1] = n /\ args[2] = n + 1 /\ args[3] = at
  <2> HIDE DEF x1, x2, x3, n
  <2>1. x1 # Error /\ x2 # Error /\ x3 # Error
    <3>1. args[1] = x1 /\ args[2] = x2 /\ args[3] = x3 /\ DOMAIN args = 1..3
      OBVIOUS
    <3>2. args[1] \in Range(args) /\ args[2] \in Range(args) /\ args[3] \in Range(args)
      BY <3>1 DEF Range
    <3> QED BY <1>2, <3>1, <3>2, Zenon
  <2>2. x1 = n /\ x2 = n + 1 /\ x3 = at
    BY <2>1, WithinLimit, ZenonT(30) DEF x1, x2, x3
  <2> QED BY <2>2, Zenon
<1> HIDE DEF args
<1> DEFINE check == staleness_check(args[1], args[2], args[3])
<1>6. sim.inputs = inputs /\ sim.commands = <<check>> \o ptb.commands
  <2> HIDE DEF check, sim
  <2> QED BY <1>2 DEF check
<1>7. check.arguments = <<args[1], args[2], args[3]>>
  BY DEF staleness_check
<1> HIDE DEF check, sim
<1>8. Tail(sim.commands) = ptb.commands /\ sim.commands[1] = check
  <2>1. ptb.commands \in Seq(Command \cup {check}) /\ <<check>> \in Seq(Command \cup {check})
    BY <1>1
  <2> DEFINE q == <<check>> \o ptb.commands
  <2>3. q \in Seq(Command \cup {check}) /\ Len(q) = 1 + Len(ptb.commands) /\ q[1] = check
        /\ \A i \in 1..Len(ptb.commands) : q[i + 1] = ptb.commands[i]
    BY <2>1
  <2> HIDE DEF q
  <2>4. Tail(q) \in Seq(Command \cup {check}) /\ Len(Tail(q)) = Len(ptb.commands)
        /\ \A i \in 1..Len(ptb.commands) : Tail(q)[i] = ptb.commands[i]
    BY <2>1, <2>3
  <2>5. Tail(q) = ptb.commands
    BY <2>1, <2>4
  <2> QED BY <1>6, <2>3, <2>5, ZenonT(30) DEF q
<1>9. [k \in 1..3 |-> Input(sim, sim.commands[1].arguments[k])] = <<"now", "allowed", "clock">>
  <2>1. Input(sim, n) = "now" /\ Input(sim, n + 1) = "allowed" /\ Input(sim, at) = "clock"
    <3> HIDE DEF n
    <3> QED BY <1>1, <1>4, <1>6 DEF Input
  <2>2. sim.commands[1].arguments = <<n, n + 1, at>>
    BY <1>5, <1>7, <1>8, ZenonT(30)
  <2> HIDE DEF n
  <2>3. sim.commands[1].arguments[1] = n /\ sim.commands[1].arguments[2] = n + 1
        /\ sim.commands[1].arguments[3] = at
    BY <2>2
  <2> DEFINE f == [k \in 1..3 |-> Input(sim, sim.commands[1].arguments[k])]
  <2>4. f[1] = "now" /\ f[2] = "allowed" /\ f[3] = "clock" /\ f = [k \in 1..3 |-> f[k]]
    BY <2>1, <2>3
  <2> HIDE DEF f
  <2>5. f = <<"now", "allowed", "clock">>
    BY <2>4
  <2> QED BY <2>5 DEF f
<1>10. ASSUME NEW a, Input(ptb, a) # Error PROVE Input(sim, a) = Input(ptb, a)
  <2>1. a \in 0..(n - 1) /\ Input(ptb, a) = s[a + 1]
    BY <1>10, Zenon DEF Input
  <2> HIDE DEF n, s
  <2>2. a \in 0..(Len(inputs) - 1) /\ a + 1 \in 1..n
    BY <2>1, <1>1, <1>4
  <2>3. Input(sim, a) = inputs[a + 1]
    BY <2>2, <1>6, Zenon DEF Input
  <2> QED BY <2>1, <2>2, <2>3, <1>4, Zenon
<1> QED BY <1>8, <1>9, <1>10, Zenon

-----------------------------------------------------------------------------
LEMMA InitInv == Init => PermissionedInv
<1> SUFFICES ASSUME Init PROVE PermissionedInv
  OBVIOUS
<1>1. derivation_indices(<<>>) = {}
  BY DEF derivation_indices
<1>2. 0..(Cardinality(derivation_indices(<<>>)) - 1) = {}
  BY <1>1, FS_EmptySet
<1>3. validate(<<>>)
  BY <1>2 DEF validate
<1>4. client_configs = <<>> /\ server = None /\ served = {} /\ retired = {}
      /\ ptb = [inputs |-> <<>>, commands |-> <<>>]
  BY DEF Init, CInit
<1> QED BY <1>3, <1>4 DEF PermissionedInv, ServerInv, HistoryInv, PtbInv

\* The client only lengthens its transaction.
LEMMA ClientKeepsInv ==
  ASSUME PtbInv, AddInput \/ AddCommand
  PROVE  PtbInv'
<1> DEFINE T == [inputs : Seq(ClientInput), commands : Seq(Command)]
<1>0. ptb \in T
  BY DEF PtbInv
<1>1. CASE AddInput
  <2>1. PICK x \in ClientInput : ptb' = [ptb EXCEPT !.inputs = Append(ptb.inputs, x)]
    BY <1>1, ZenonT(30) DEF AddInput
  <2>2. Append(ptb.inputs, x) \in Seq(ClientInput)
    BY <1>0
  <2> QED BY <1>0, <2>1, <2>2, ZenonT(30) DEF PtbInv
<1>2. CASE AddCommand
  <2>1. PICK c \in Command : ptb' = [ptb EXCEPT !.commands = Append(ptb.commands, c)]
    BY <1>2, Zenon DEF AddCommand
  <2>2. Append(ptb.commands, c) \in Seq(Command)
    BY <1>0
  <2> QED BY <1>0, <2>1, <2>2, ZenonT(30) DEF PtbInv
<1> QED BY <1>1, <1>2, Zenon

LEMMA NextInv == PermissionedInv /\ [Next]_vars => PermissionedInv'
<1> SUFFICES ASSUME PermissionedInv, [Next]_vars PROVE PermissionedInv'
  OBVIOUS
<1>0. ServerInv /\ HistoryInv /\ PtbInv
  BY DEF PermissionedInv
<1>1. CASE Operate /\ UNCHANGED ptb
  <2>1. ServerInv' /\ HistoryInv'
    BY <1>0, <1>1, OperateKeepsInv, ZenonT(30)
  <2>2. PtbInv'
    BY <1>0, <1>1 DEF PtbInv
  <2> QED BY <2>1, <2>2, Zenon DEF PermissionedInv
<1>2. CASE (AddInput \/ AddCommand) /\ UNCHANGED cvars
  <2>1. PtbInv'
    BY <1>0, <1>2, ClientKeepsInv, Zenon
  <2>2. ServerInv' /\ HistoryInv'
    BY <1>0, <1>2, Zenon DEF ServerInv, HistoryInv, cvars
  <2> QED BY <2>1, <2>2 DEF PermissionedInv
<1>3. CASE UNCHANGED vars
  BY <1>0, <1>3 DEF PermissionedInv, ServerInv, HistoryInv, PtbInv, vars, cvars
<1> QED BY <1>1, <1>2, <1>3 DEF Next

\* The server runs with the keys of a valid configuration, in which everybody it ever served
\* still has their index.  KeyServerOptions::validate, MasterKeys::load.
THEOREM PermissionedInvariant == Spec => []PermissionedInv
BY InitInv, NextInv, PTL DEF Spec

\* Over all edits and restarts a derived key is loaded for one client, never again once it
\* was exported, and never offered to another one.
THEOREM KeysAreNotHandedOn == Spec => []KeysNeverHandedOn
<1>1. PermissionedInv => KeysNeverHandedOn
  BY KeysNotHandedOn DEF PermissionedInv
<1> QED BY <1>1, PermissionedInvariant, PTL

\* The proof of possession of a key server object is for the key its packages are served with,
\* and build_key_server_pop_map finds that key.
THEOREM PopsAreOfServedKeys == Spec => []PopsOfServedKeys
<1>1. PermissionedInv => PopsOfServedKeys
  BY PopsServed DEF PermissionedInv
<1> QED BY <1>1, PermissionedInvariant, PTL

\* Every id handed out is the first argument of a seal_approve call of the one package whose
\* client's key is used.  ValidPtb::try_from, check_request, create_response.
THEOREM EveryIdIsApproved == Spec => []EveryIdApproved
<1>1. PermissionedInv => EveryIdApproved
  BY IdsApproved DEF PermissionedInv
<1> QED BY <1>1, PermissionedInvariant, PTL

\* The staleness check shifts no input of the client and reads the server's own.
\* add_staleness_check_to_ptb.
THEOREM SimulatesTheSigned == Spec => []SimulatesWhatWasSigned
<1>1. PermissionedInv => SimulatesWhatWasSigned
  BY Simulates DEF PermissionedInv
<1> QED BY <1>1, PermissionedInvariant, PTL

=============================================================================
