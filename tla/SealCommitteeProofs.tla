------------------------ MODULE SealCommitteeProofs ------------------------
(***************************************************************************)
(* Proofs about SealCommittee, for every choice of its constants.          *)
(***************************************************************************)
EXTENDS SealCommittee, FiniteSetTheorems, TLAPS

-----------------------------------------------------------------------------
\* A vector is a function on its indices.
LEMMA VectorProperties ==
  ASSUME NEW S, NEW s \in Seq(S)
  PROVE  Len(s) \in Nat /\ s \in [1..Len(s) -> S] /\ DOMAIN s = 1..Len(s)
  OBVIOUS

\* A vector without duplicates has as many elements as entries.
LEMMA RangeOfInjectiveSeq ==
  ASSUME NEW S, NEW s \in Seq(S), IsInjective(s)
  PROVE  /\ IsFiniteSet(Range(s))
         /\ Cardinality(Range(s)) = Len(s)
         /\ Range(s) \subseteq S
<1>1. s \in [1..Len(s) -> S] /\ Len(s) \in Nat /\ DOMAIN s = 1..Len(s)
  BY VectorProperties
<1>2. s \in Surjection(1..Len(s), Range(s)) /\ Range(s) \subseteq S
  BY <1>1 DEF Surjection, Range
<1>3. IsFiniteSet(1..Len(s)) /\ Cardinality(1..Len(s)) = Len(s)
  <2>1. 1 \in Int /\ Len(s) \in Int
    BY <1>1
  <2>2. /\ IsFiniteSet(1..Len(s))
        /\ Cardinality(1..Len(s)) = IF 1 > Len(s) THEN 0 ELSE Len(s) - 1 + 1
    BY <2>1, FS_Interval, Zenon
  <2> QED BY <1>1, <2>2
<1>4. s \in Injection(1..Len(s), Range(s))
  BY <1>1, <1>2 DEF Surjection, Injection, IsInjective
<1> QED BY <1>2, <1>3, <1>4, FS_Surjection

\* Counting members is enough: as many registrations (or approvals) as members means all.
LEMMA AsManyMeansAll ==
  ASSUME NEW S, NEW s \in Seq(S), IsInjective(s),
         NEW T, T \subseteq Range(s), Cardinality(T) = Len(s)
  PROVE  T = Range(s)
<1>1. IsFiniteSet(Range(s)) /\ Cardinality(Range(s)) = Len(s)
  BY RangeOfInjectiveSeq
<1> QED BY <1>1, FS_Subset

\* Reading and extending a VecMap.
LEMMA PartialElim ==
  ASSUME NEW S, NEW T, NEW m \in Partial(S, T)
  PROVE  m \in [DOMAIN m -> T] /\ DOMAIN m \subseteq S
BY DEF Partial

\* VecMap::insert keeps a map well typed and adds one key.
LEMMA PartialPut ==
  ASSUME NEW S, NEW T, NEW m \in Partial(S, T), NEW k \in S, NEW v \in T
  PROVE  /\ MapPut(m, k, v) \in Partial(S, T)
         /\ DOMAIN MapPut(m, k, v) = DOMAIN m \cup {k}
<1>1. m \in [DOMAIN m -> T] /\ DOMAIN m \subseteq S
  BY PartialElim
<1>2. MapPut(m, k, v) \in [DOMAIN m \cup {k} -> T]
  BY <1>1 DEF MapPut
<1>3. DOMAIN m \cup {k} \in SUBSET S
  BY <1>1
<1> QED BY <1>2, <1>3, ZenonT(30) DEF Partial, MapPut

\* What a VecMap holds after an insert: the new value at the key, the old ones elsewhere.
LEMMA PutValues ==
  ASSUME NEW m, NEW k, NEW v
  PROVE  /\ MapPut(m, k, v)[k] = v
         /\ \A x \in DOMAIN m : x # k => MapPut(m, k, v)[x] = m[x]
BY DEF MapPut

\* vec_map::empty is a well-typed map without keys.
LEMMA PartialEmpty == \A S, T : EmptyMap \in Partial(S, T) /\ DOMAIN EmptyMap = {}
<1> TAKE S, T
<1>1. EmptyMap \in [{} -> T] /\ DOMAIN EmptyMap = {}
  BY DEF EmptyMap
<1>2. {} \in SUBSET S
  OBVIOUS
<1> QED BY <1>1, <1>2, Zenon DEF Partial

-----------------------------------------------------------------------------
\* What the init functions and register establish about a committee's roster.
RosterInv ==
  \A c \in CommitteeId :
    /\ IsInjective(members[c])
    /\ state[c] = "Absent" => DOMAIN members_info[c] = {}
    /\ state[c] # "Absent" =>
         threshold[c] > 1 /\ threshold[c] <= Len(members[c]) /\ Len(members[c]) < MaxU16
    /\ DOMAIN members_info[c] \subseteq Range(members[c])
    /\ state[c] \in {"PostDKG", "Finalized", "Deleted"} =>
         DOMAIN members_info[c] = Range(members[c])

\* Before any call there are no committees, so types and rosters hold.
THEOREM TypeInit == Init => TypeOK /\ RosterInv
<1> SUFFICES ASSUME Init PROVE TypeOK /\ RosterInv
  OBVIOUS
<1>1. CommitteeTypeOK
  BY PartialEmpty DEF Init, CommitteeTypeOK
<1>2. DkgTypeOK /\ UpgradeTypeOK /\ key_server \in [CommitteeId -> KeyServers \cup {None}]
  BY DEF Init, DkgTypeOK, UpgradeTypeOK
<1>3. RosterInv
  BY PartialEmpty DEF Init, RosterInv, IsInjective, Range
<1> QED BY <1>1, <1>2, <1>3 DEF TypeOK

Entry == PartialKeyServer(Name, Url, PartialPk)

\* A function on 1 .. n is a vector of length n.
LEMMA FcnIsSeq ==
  ASSUME NEW S, NEW n \in Nat, NEW f \in [1..n -> S]
  PROVE  f \in Seq(S) /\ Len(f) = n /\ DOMAIN f = 1..n
OBVIOUS

\* What propose is called with is a DKG output.
LEMMA InputIsOutput ==
  ASSUME NEW p \in DkgInput
  PROVE  p \in DkgOutput
<1>1. PICK pp \in PartialPks, k \in Pk, h \in MessagesHash :
        p = [partial_pks |-> pp, pk |-> k, messages_hash |-> h]
  BY DEF DkgInput
<1>2. pp \in Seq(PartialPk)
  BY ConstantTypes
<1> QED BY <1>1, <1>2 DEF DkgOutput

\* build_partial_key_servers: entry i is what member i registered, with partial key i.
LEMMA BuildEntries ==
  ASSUME CommitteeTypeOK, RosterInv, NEW c \in CommitteeId,
         DOMAIN members_info[c] = Range(members[c]),
         NEW pp \in Seq(PartialPk), Len(pp) = Len(members[c])
  PROVE  LET b == build_partial_key_servers(c, pp)
         IN  /\ b \in Seq(Entry)
             /\ Len(b) = Len(members[c])
             /\ DOMAIN b = 1..Len(members[c])
             /\ \A i \in 1..Len(members[c]) :
                  /\ b[i].name = members_info[c][members[c][i]].name
                  /\ b[i].partial_pk = pp[i]
                  /\ b[i].party_id = i - 1
<1> DEFINE n == Len(members[c])
           b == build_partial_key_servers(c, pp)
<1>1. members[c] \in Seq(Address) /\ n \in Nat /\ members[c] \in [1..n -> Address]
  BY VectorProperties DEF CommitteeTypeOK
<1>2. members_info[c] \in [Range(members[c]) -> MemberInfo]
  BY PartialElim DEF CommitteeTypeOK
<1>3. ASSUME NEW i \in 1..n
      PROVE  /\ b[i] \in Entry
             /\ b[i].name = members_info[c][members[c][i]].name
             /\ b[i].partial_pk = pp[i]
             /\ b[i].party_id = i - 1
  <2> DEFINE info == members_info[c][members[c][i]]
             e == [name |-> info.name, url |-> info.url,
                   partial_pk |-> pp[i], party_id |-> i - 1]
  <2>1. info \in MemberInfo
    BY <1>1, <1>2 DEF Range
  <2>2. pp[i] \in PartialPk
    BY VectorProperties
  <2>3. b[i] = e
    BY DEF build_partial_key_servers, create_partial_key_server
  <2>4. i - 1 \in Nat
    BY <1>1
  <2>5. e \in Entry
    BY <2>1, <2>2, <2>4 DEF Entry, PartialKeyServer, MemberInfo
  <2>6. e.name = info.name /\ e.partial_pk = pp[i] /\ e.party_id = i - 1
    OBVIOUS
  <2> HIDE DEF b
  <2> QED BY <2>3, <2>5, <2>6
<1>4. b \in [1..n -> Entry]
  BY <1>3, ZenonT(30) DEF build_partial_key_servers
<1>5. b \in Seq(Entry) /\ Len(b) = n /\ DOMAIN b = 1..n
  BY <1>1, <1>4, FcnIsSeq, Zenon
<1> QED BY <1>3, <1>5, Zenon

\* init_internal creates a well-typed committee with a valid roster.
LEMMA InitInternalType ==
  ASSUME TypeOK, RosterInv, NEW c \in CommitteeId, NEW t \in Threshold, NEW ms \in Roster,
         NEW old \in CommitteeId \cup {None}, init_internal(c, t, ms, old),
         free_caps' \subseteq Cap, upgrade_manager' \in [CommitteeId -> UpgradeManager \cup {None}]
  PROVE  TypeOK' /\ RosterInv'
<1> USE DEF init_internal, dkgVars, upgradeVars
<1>0. ms \in Seq(Address) /\ t \in Nat
  BY ConstantTypes
<1>1. CommitteeTypeOK'
  BY <1>0 DEF TypeOK, CommitteeTypeOK
<1>2. DkgTypeOK' /\ key_server' \in [CommitteeId -> KeyServers \cup {None}] /\ UpgradeTypeOK'
  BY DEF TypeOK, DkgTypeOK, UpgradeTypeOK
<1>3. RosterInv'
  <2> SUFFICES ASSUME NEW d \in CommitteeId
               PROVE  /\ IsInjective(members'[d])
                      /\ state'[d] = "Absent" => DOMAIN members_info'[d] = {}
                      /\ state'[d] # "Absent" => /\ threshold'[d] > 1
                                                 /\ threshold'[d] <= Len(members'[d])
                                                 /\ Len(members'[d]) < MaxU16
                      /\ DOMAIN members_info'[d] \subseteq Range(members'[d])
                      /\ state'[d] \in {"PostDKG", "Finalized", "Deleted"} =>
                           DOMAIN members_info'[d] = Range(members'[d])
    BY DEF RosterInv
  <2>1. CASE d = c
    <3>1. state'[d] = "Init" /\ members'[d] = ms /\ threshold'[d] = t /\ members_info'[d] = members_info[c]
      BY <2>1 DEF TypeOK, CommitteeTypeOK
    <3>2. DOMAIN members_info[c] = {}
      BY DEF RosterInv
    <3>3. Len(ms) \in Nat
      BY <1>0, VectorProperties
    <3> QED BY <1>0, <3>1, <3>2, <3>3
  <2>2. CASE d # c
    <3>1. /\ state'[d] = state[d] /\ members'[d] = members[d] /\ threshold'[d] = threshold[d]
          /\ members_info'[d] = members_info[d]
      BY <2>2 DEF TypeOK, CommitteeTypeOK
    <3> QED BY <3>1 DEF RosterInv
  <2> QED BY <2>1, <2>2
<1> QED BY <1>1, <1>2, <1>3 DEF TypeOK

\* register adds the sender, who is on the roster, to members_info.
LEMMA RegisteredInfo ==
  ASSUME NEW m \in Partial(Address, MemberInfo), NEW a \in Address, NEW nm \in Name, NEW u \in Url
  PROVE  LET r == MapPut(m, a, [name |-> nm, url |-> u])
         IN  r \in Partial(Address, MemberInfo) /\ DOMAIN r = DOMAIN m \cup {a}
<1>1. PICK v \in MemberInfo : v = [name |-> nm, url |-> u]
  BY ZenonT(30) DEF MemberInfo
<1>2. m \in [DOMAIN m -> MemberInfo] /\ DOMAIN m \subseteq Address
  BY PartialElim
<1>3. MapPut(m, a, v) \in [DOMAIN m \cup {a} -> MemberInfo]
  BY <1>2 DEF MapPut
<1>4. MapPut(m, a, v) \in Partial(Address, MemberInfo)
  BY <1>2, <1>3 DEF Partial
<1>5. DOMAIN MapPut(m, a, v) = DOMAIN m \cup {a}
  BY DEF MapPut
<1> QED BY <1>1, <1>4, <1>5

\* register keeps the state well typed.
LEMMA RegisterType ==
  ASSUME TypeOK, RosterInv, NEW sender \in Address, NEW c \in CommitteeId,
         NEW name \in Name, NEW url \in Url, register(sender, c, name, url)
  PROVE  TypeOK' /\ RosterInv'
<1> DEFINE info == [name |-> name, url |-> url]
           mi == MapPut(members_info[c], sender, info)
<1>1. /\ mi \in Partial(Address, MemberInfo)
      /\ DOMAIN mi = DOMAIN members_info[c] \cup {sender}
  <2>1. PICK m \in Partial(Address, MemberInfo) : m = members_info[c]
    BY DEF TypeOK, CommitteeTypeOK
  <2>2. /\ MapPut(m, sender, info) \in Partial(Address, MemberInfo)
        /\ DOMAIN MapPut(m, sender, info) = DOMAIN m \cup {sender}
    BY RegisteredInfo
  <2> QED BY <2>1, <2>2
<1>2. members_info' = [members_info EXCEPT ![c] = mi]
  BY DEF register
<1> HIDE DEF mi
<1> USE DEF register, dkgVars, upgradeVars
<1>3. CommitteeTypeOK'
  BY <1>1, <1>2 DEF TypeOK, CommitteeTypeOK
<1>4. DkgTypeOK' /\ key_server' \in [CommitteeId -> KeyServers \cup {None}] /\ UpgradeTypeOK'
  BY DEF TypeOK, DkgTypeOK, UpgradeTypeOK
<1>5. RosterInv'
  BY <1>1, <1>2, ZenonT(40) DEF RosterInv, TypeOK, CommitteeTypeOK, IsMember
<1> QED BY <1>3, <1>4, <1>5 DEF TypeOK

\* Whoever gets past propose_internal finds every member registered.
LEMMA ProposeFindsAllRegistered ==
  ASSUME TypeOK, RosterInv, NEW sender \in Address, NEW c \in CommitteeId, NEW p \in DkgOutput,
         propose_internal(sender, c, p)
  PROVE  /\ DOMAIN members_info[c] = Range(members[c])
         /\ DkgTypeOK'
         /\ state[c] \in {"Init", "PostDKG"}
         /\ p.partial_pks \in Seq(PartialPk) /\ Len(p.partial_pks) = Len(members[c])
<1>1. members[c] \in Seq(Address) /\ IsInjective(members[c])
      /\ DOMAIN members_info[c] \subseteq Range(members[c])
  BY DEF TypeOK, CommitteeTypeOK, RosterInv
<1>2. state[c] \in {"Init", "PostDKG"}
  BY DEF propose_internal, ProposalFits
<1>5. DkgTypeOK'
  BY DEF TypeOK, DkgTypeOK, propose_internal
<1>6. p.partial_pks \in Seq(PartialPk) /\ Len(p.partial_pks) = Len(members[c])
  BY DEF DkgOutput, propose_internal
<1>7. DOMAIN members_info[c] = Range(members[c])
  <2>1. CASE state[c] = "Init"
    <3>1. Cardinality(DOMAIN members_info[c]) = Len(members[c])
      BY <2>1 DEF propose_internal, ProposalFits
    <3> QED BY <1>1, <3>1, AsManyMeansAll
  <2>2. CASE state[c] = "PostDKG"
    BY <2>2 DEF RosterInv
  <2> QED BY <1>2, <2>1, <2>2
<1> QED BY <1>2, <1>5, <1>6, <1>7

\* What create_committee_v2, update_partial_key_servers and update_member_url return.
LEMMA CreatedKeyServer ==
  ASSUME NEW c \in CommitteeId, NEW t \in Nat, NEW pk \in Pk, NEW b \in Seq(Entry)
  PROVE  LET r == create_committee_v2(c, t, pk, b)
         IN  /\ r \in KeyServers
             /\ r.pk = pk /\ r.version = 0 /\ r.threshold = t /\ r.partial_key_servers = b
BY DEF create_committee_v2, KeyServers, KeyServerV2, Entry

\* update_partial_key_servers keeps the key server well typed and raises its version.
LEMMA RotatedKeyServer ==
  ASSUME NEW ks \in KeyServers, NEW t \in Nat, NEW b \in Seq(Entry)
  PROVE  LET r == update_partial_key_servers(ks, t, b)
         IN  /\ r \in KeyServers
             /\ r.pk = ks.pk /\ r.version = ks.version + 1
             /\ r.threshold = t /\ r.partial_key_servers = b
<1>1. ks.name \in CommitteeId /\ ks.pk \in Pk /\ ks.version \in Nat
  BY DEF KeyServers, KeyServerV2
<1>2. update_partial_key_servers(ks, t, b) =
        [name |-> ks.name, pk |-> ks.pk, version |-> ks.version + 1, threshold |-> t,
         partial_key_servers |-> b]
  BY DEF update_partial_key_servers
<1>3. ks.version + 1 \in Nat
  BY <1>1
<1> QED BY <1>1, <1>2, <1>3 DEF KeyServers, KeyServerV2, Entry

\* update_member_url replaces the url of one entry and nothing else.
LEMMA RelocatedKeyServer ==
  ASSUME NEW ks \in KeyServers, NEW url \in Url, NEW i \in 1..Len(ks.partial_key_servers)
  PROVE  LET r == update_url_of(ks, url, i - 1)
             ps == ks.partial_key_servers
             rs == r.partial_key_servers
         IN  /\ r \in KeyServers
             /\ r.pk = ks.pk /\ r.version = ks.version /\ r.threshold = ks.threshold
             /\ Len(rs) = Len(ps)
             /\ \A j \in 1..Len(ps) :
                  rs[j].name = ps[j].name /\ rs[j].partial_pk = ps[j].partial_pk
                    /\ rs[j].party_id = ps[j].party_id
<1> DEFINE ps == ks.partial_key_servers
           e == [ps[i] EXCEPT !.url = url]
           qs == [ps EXCEPT ![i] = e]
           r == update_url_of(ks, url, i - 1)
<1>1. /\ ks.name \in CommitteeId /\ ks.pk \in Pk /\ ks.version \in Nat /\ ks.threshold \in Nat
      /\ ps \in Seq(Entry)
  BY DEF KeyServers, KeyServerV2, Entry
<1>2. Len(ps) \in Nat /\ i - 1 + 1 = i
  BY <1>1, VectorProperties
<1>3. /\ e \in Entry
      /\ e.name = ps[i].name /\ e.partial_pk = ps[i].partial_pk /\ e.party_id = ps[i].party_id
  <2>1. ps[i] \in Entry
    BY <1>1, VectorProperties
  <2> QED BY <2>1 DEF Entry, PartialKeyServer
<1>4. qs \in Seq(Entry) /\ Len(qs) = Len(ps)
      /\ \A j \in 1..Len(ps) : qs[j] = IF j = i THEN e ELSE ps[j]
  <2>1. qs \in [1..Len(ps) -> Entry] /\ \A j \in 1..Len(ps) : qs[j] = IF j = i THEN e ELSE ps[j]
    BY <1>1, <1>3, VectorProperties
  <2> HIDE DEF qs
  <2> QED BY <1>2, <2>1, FcnIsSeq
<1>5. r = [name |-> ks.name, pk |-> ks.pk, version |-> ks.version, threshold |-> ks.threshold,
           partial_key_servers |-> qs]
  BY <1>2, Zenon DEF update_url_of
<1> HIDE DEF r, qs, e
<1>6. r \in KeyServers /\ r.pk = ks.pk /\ r.version = ks.version /\ r.threshold = ks.threshold
      /\ r.partial_key_servers = qs
  BY <1>1, <1>4, <1>5 DEF KeyServers, KeyServerV2, Entry
<1>7. \A j \in 1..Len(ps) :
        qs[j].name = ps[j].name /\ qs[j].partial_pk = ps[j].partial_pk
          /\ qs[j].party_id = ps[j].party_id
  BY <1>3, <1>4
<1> QED BY <1>4, <1>6, <1>7 DEF r

\* propose keeps the state well typed, whether it records, approves or finalizes.
LEMMA ProposeType ==
  ASSUME TypeOK, RosterInv, NEW sender \in Address, NEW c \in CommitteeId, NEW p \in DkgOutput,
         propose(sender, c, p)
  PROVE  TypeOK' /\ RosterInv'
<1> DEFINE partials == build_partial_key_servers(c, p.partial_pks)
<1>1. propose_internal(sender, c, p) /\ try_finalize(c, p)
  BY DEF propose
<1>2. /\ DOMAIN members_info[c] = Range(members[c])
      /\ DkgTypeOK'
      /\ state[c] \in {"Init", "PostDKG"}
      /\ p.partial_pks \in Seq(PartialPk) /\ Len(p.partial_pks) = Len(members[c])
  BY <1>1, ProposeFindsAllRegistered
<1>3. partials \in Seq(Entry)
  BY <1>2, BuildEntries DEF TypeOK
<1>4. create_committee_v2(c, threshold[c], p.pk, partials) \in KeyServers
  <2>1. p.pk \in Pk /\ threshold[c] \in Nat
    BY DEF DkgOutput, TypeOK, CommitteeTypeOK
  <2> QED BY <1>3, <2>1, CreatedKeyServer
<1>5. key_server' \in [CommitteeId -> KeyServers \cup {None}]
  BY <1>1, <1>4 DEF try_finalize, TypeOK
<1>6. \E st \in {"PostDKG", "Finalized"} : state' = [state EXCEPT ![c] = st]
  BY <1>1 DEF try_finalize
<1>7. CommitteeTypeOK'
  BY <1>6 DEF propose, TypeOK, CommitteeTypeOK
<1>8. UpgradeTypeOK'
  BY DEF propose, TypeOK, UpgradeTypeOK, upgradeVars
<1>9. RosterInv'
  BY <1>2, <1>6 DEF propose, RosterInv, TypeOK, CommitteeTypeOK
<1> QED BY <1>2, <1>5, <1>7, <1>8, <1>9 DEF TypeOK

\* propose_for_rotation keeps the state well typed, whether or not the key server moves.
LEMMA RotationType ==
  ASSUME TypeOK, RosterInv, NEW sender \in Address, NEW c \in CommitteeId,
         NEW old \in CommitteeId, NEW pp \in PartialPks, NEW h \in MessagesHash,
         propose_for_rotation(sender, c, old, pp, h)
  PROVE  TypeOK' /\ RosterInv'
<1> DEFINE ks == key_server[old]
           p == [partial_pks |-> pp, pk |-> ks.pk, messages_hash |-> h]
           partials == build_partial_key_servers(c, pp)
<1>1. propose_internal(sender, c, p) /\ try_finalize_for_rotation(c, old, p)
  BY DEF propose_for_rotation
<1>2. ks \in KeyServers /\ state[old] = "Finalized"
  BY Zenon DEF propose_for_rotation, check_rotation_consistency, is_finalized, TypeOK
<1>3. p \in DkgOutput /\ pp \in Seq(PartialPk)
  BY <1>2, ConstantTypes DEF DkgOutput, KeyServers, KeyServerV2
<1>4. /\ DOMAIN members_info[c] = Range(members[c])
      /\ DkgTypeOK'
      /\ state[c] \in {"Init", "PostDKG"}
      /\ Len(pp) = Len(members[c])
  BY <1>1, <1>3, ProposeFindsAllRegistered, ZenonT(30)
<1>5. partials \in Seq(Entry)
  BY <1>3, <1>4, BuildEntries DEF TypeOK
<1>6. update_partial_key_servers(ks, threshold[c], partials) \in KeyServers
  <2>1. threshold[c] \in Nat
    BY Zenon DEF TypeOK, CommitteeTypeOK
  <2> QED BY <1>2, <1>5, <2>1, RotatedKeyServer
<1>7. key_server' \in [CommitteeId -> KeyServers \cup {None}]
  BY <1>1, <1>6, ZenonT(30) DEF try_finalize_for_rotation, TypeOK
<1>8. upgrade_manager' \in [CommitteeId -> UpgradeManager \cup {None}]
  <2>1. CASE UNCHANGED upgrade_manager
    BY <2>1 DEF TypeOK, UpgradeTypeOK
  <2>2. CASE /\ upgrade_manager[old] # None
             /\ upgrade_manager' = [upgrade_manager EXCEPT
                  ![old] = None,
                  ![c] = WithProposal(upgrade_manager[old], None)]
    <3>1. upgrade_manager[old] \in UpgradeManager
      BY <2>2 DEF TypeOK, UpgradeTypeOK
    <3>2. WithProposal(upgrade_manager[old], None) \in UpgradeManager
      BY <3>1, Zenon DEF UpgradeManager, WithProposal
    <3> QED BY <2>2, <3>2 DEF TypeOK, UpgradeTypeOK
  <2> QED BY <1>1, <2>1, <2>2 DEF try_finalize_for_rotation
<1>9. \/ state' = [state EXCEPT ![c] = "PostDKG"]
      \/ state' = [state EXCEPT ![old] = "Deleted", ![c] = "Finalized"]
  BY <1>1 DEF try_finalize_for_rotation
<1>10. CommitteeTypeOK'
  BY <1>9, ZenonT(30) DEF propose_for_rotation, TypeOK, CommitteeTypeOK
<1>11. UpgradeTypeOK'
  BY <1>8 DEF propose_for_rotation, TypeOK, UpgradeTypeOK, upgradeVars
<1>12. RosterInv'
  BY <1>2, <1>4, <1>9, ZenonT(30) DEF propose_for_rotation, RosterInv, TypeOK, CommitteeTypeOK
<1> QED BY <1>4, <1>7, <1>10, <1>11, <1>12 DEF TypeOK

\* update_member_url keeps the state well typed.
LEMMA UpdateUrlType ==
  ASSUME TypeOK, RosterInv, NEW sender \in Address, NEW c \in CommitteeId, NEW url \in Url,
         update_member_url(sender, c, url)
  PROVE  TypeOK' /\ RosterInv' /\ key_server'[c] \in KeyServers
<1> DEFINE i == CHOOSE i \in DOMAIN members[c] : members[c][i] = sender
           ks == key_server[c]
           ps == ks.partial_key_servers
           new == update_url_of(ks, url, i - 1)
<1>1. /\ IsMember(c, sender) /\ ks # None /\ i - 1 < Len(ps)
      /\ key_server' = [key_server EXCEPT ![c] = new]
      /\ UNCHANGED <<free_caps, stateVars, dkgVars, upgrade_manager, upgradeVars>>
  BY DEF update_member_url
<1>2. ks \in KeyServers /\ ps \in Seq(Entry)
  BY <1>1, ZenonT(40) DEF TypeOK, KeyServers, KeyServerV2, Entry
<1>3. i \in DOMAIN members[c] /\ DOMAIN members[c] = 1..Len(members[c]) /\ Len(members[c]) \in Nat
  BY <1>1, VectorProperties, ZenonT(30) DEF IsMember, Range, TypeOK, CommitteeTypeOK
<1>4. i \in 1..Len(ps) /\ i - 1 + 1 = i
  <2>1. Len(ps) \in Nat
    BY <1>2, VectorProperties
  <2> HIDE DEF i, ps
  <2> QED BY <1>1, <1>3, <2>1
<1>7. new \in KeyServers
  <2> HIDE DEF i, ks
  <2> QED BY <1>2, <1>4, RelocatedKeyServer
<1> HIDE DEF new, ks, ps, i
<1>8. key_server' \in [CommitteeId -> KeyServers \cup {None}] /\ key_server'[c] \in KeyServers
  BY <1>1, <1>7, Zenon DEF TypeOK
<1> QED BY <1>1, <1>8
        DEF TypeOK, CommitteeTypeOK, DkgTypeOK, UpgradeTypeOK, RosterInv, stateVars, dkgVars, upgradeVars

\* A vote leaves a well-typed proposal behind.
LEMMA InsertedVote ==
  ASSUME NEW prop \in UpgradeProposal, NEW a \in Address, NEW v \in Vote
  PROVE  LET r == insert_vote(prop, a, v)
         IN  /\ r \in UpgradeProposal
             /\ r.digest = prop.digest /\ r.version = prop.version
             /\ DOMAIN r.votes = DOMAIN prop.votes \cup {a}
             /\ r.votes[a] = v
             /\ \A x \in DOMAIN prop.votes : x # a => r.votes[x] = prop.votes[x]
<1>1. prop.digest \in Digest /\ prop.version \in Nat
  BY DEF UpgradeProposal
<1>2. PICK m \in Partial(Address, Vote) : m = prop.votes
  BY DEF UpgradeProposal
<1>3. /\ MapPut(m, a, v) \in Partial(Address, Vote)
      /\ DOMAIN MapPut(m, a, v) = DOMAIN m \cup {a}
  BY PartialPut
<1>5. /\ MapPut(m, a, v)[a] = v
      /\ \A x \in DOMAIN m : x # a => MapPut(m, a, v)[x] = m[x]
  BY PutValues
<1>4. insert_vote(prop, a, v) =
        [digest |-> prop.digest, version |-> prop.version, votes |-> MapPut(m, a, v)]
  BY <1>2 DEF insert_vote
<1> QED BY <1>1, <1>2, <1>3, <1>4, <1>5 DEF UpgradeProposal

\* The proposal an approve call votes on: the pending one, or a new one.
LEMMA ApprovedProposal ==
  ASSUME TypeOK, NEW c \in CommitteeId, NEW d \in Digest, upgrade_manager[c] # None
  PROVE  LET um == upgrade_manager[c]
             prop == IF um.upgrade_proposal = None
                     THEN [digest |-> d, version |-> um.cap_version + 1, votes |-> EmptyMap]
                     ELSE um.upgrade_proposal
         IN  um \in UpgradeManager /\ um.cap_version \in Nat /\ prop \in UpgradeProposal
<1> DEFINE um == upgrade_manager[c]
           new == [digest |-> d, version |-> um.cap_version + 1, votes |-> EmptyMap]
<1>1. /\ um \in UpgradeManager /\ um.cap_version \in Nat
      /\ um.upgrade_proposal \in UpgradeProposal \cup {None}
  BY DEF TypeOK, UpgradeTypeOK, UpgradeManager
<1>2. new \in UpgradeProposal
  <2>1. um.cap_version + 1 \in Nat /\ EmptyMap \in Partial(Address, Vote)
    BY <1>1, PartialEmpty
  <2> QED BY <2>1 DEF UpgradeProposal
<1> QED BY <1>1, <1>2

\* A step of the upgrade vote is a member's call on a finalized committee and changes
\* nothing but the vote and the upgrade manager of that committee.
LEMMA VoteFrame ==
  ASSUME TypeOK, NEW sender \in Address, NEW c \in CommitteeId, VoteStep(sender, c)
  PROVE  /\ MayVote(sender, c)
         /\ UNCHANGED <<free_caps, stateVars, dkgVars, key_server>>
         /\ \A d \in CommitteeId : d # c => upgrade_manager'[d] = upgrade_manager[d]
<1> DEFINE Goal == /\ MayVote(sender, c)
                   /\ UNCHANGED <<free_caps, stateVars, dkgVars, key_server>>
                   /\ \A d \in CommitteeId : d # c => upgrade_manager'[d] = upgrade_manager[d]
<1>0. DOMAIN upgrade_manager = CommitteeId
  BY ZenonT(30) DEF TypeOK, UpgradeTypeOK
<1>1. ASSUME NEW d \in Digest, approve_digest_for_upgrade(sender, c, d) PROVE Goal
  BY <1>0, <1>1 DEF approve_digest_for_upgrade
<1>2. ASSUME reject_digest_for_upgrade(sender, c) PROVE Goal
  BY <1>0, <1>2, ZenonT(30) DEF reject_digest_for_upgrade
<1>3. ASSUME authorize_upgrade(sender, c) PROVE Goal
  BY <1>0, <1>3 DEF authorize_upgrade
<1>4. ASSUME commit_upgrade(sender, c) PROVE Goal
  BY <1>0, <1>4 DEF commit_upgrade
<1>5. ASSUME reset_proposal(sender, c) PROVE Goal
  BY <1>0, <1>5 DEF reset_proposal
<1> HIDE DEF Goal
<1>6. Goal
  BY <1>1, <1>2, <1>3, <1>4, <1>5, Zenon DEF VoteStep
<1> QED BY <1>6 DEF Goal

\* A step of the upgrade vote keeps the state well typed.
LEMMA VoteType ==
  ASSUME TypeOK, RosterInv, NEW sender \in Address, NEW c \in CommitteeId, VoteStep(sender, c)
  PROVE  TypeOK' /\ RosterInv' /\ upgrade_manager'[c] \in UpgradeManager
<1> DEFINE um == upgrade_manager[c]
<1>1. UNCHANGED <<free_caps, stateVars, dkgVars, key_server>>
  BY VoteFrame
<1>2. um \in UpgradeManager /\ um.cap_version \in Nat
      /\ um.upgrade_proposal \in UpgradeProposal \cup {None}
  <2>1. um # None
    BY VoteFrame DEF MayVote
  <2> QED BY <2>1 DEF TypeOK, UpgradeTypeOK, UpgradeManager
<1>3. ASSUME NEW prop \in UpgradeProposal \cup {None},
             upgrade_manager' = [upgrade_manager EXCEPT ![c] = WithProposal(um, prop)]
      PROVE  /\ upgrade_manager' \in [CommitteeId -> UpgradeManager \cup {None}]
             /\ upgrade_manager'[c] \in UpgradeManager
  <2>1. WithProposal(um, prop) \in UpgradeManager
    BY <1>2 DEF WithProposal, UpgradeManager
  <2> QED BY <1>3, <2>1 DEF TypeOK, UpgradeTypeOK
<1> DEFINE Goal == UpgradeTypeOK' /\ upgrade_manager'[c] \in UpgradeManager
<1>4. Goal
  <2>1. ASSUME NEW d \in Digest, approve_digest_for_upgrade(sender, c, d) PROVE Goal
    <3> DEFINE prop == IF um.upgrade_proposal = None
                       THEN [digest |-> d, version |-> um.cap_version + 1, votes |-> EmptyMap]
                       ELSE um.upgrade_proposal
    <3>1. prop \in UpgradeProposal
      BY <2>1, ApprovedProposal, Zenon DEF approve_digest_for_upgrade, MayVote
    <3>2. /\ upgrade_manager' = [upgrade_manager EXCEPT ![c] =
               WithProposal(um, insert_vote(prop, sender, "Approve"))]
          /\ consent' = consent \cup {Consent(c, prop, sender)}
          /\ UNCHANGED <<ticket, upgrades>>
      BY <2>1, Zenon DEF approve_digest_for_upgrade
    <3> HIDE DEF prop
    <3>3. insert_vote(prop, sender, "Approve") \in UpgradeProposal
      BY <3>1, InsertedVote DEF Vote
    <3>4. Consent(c, prop, sender) \in
            [committee : CommitteeId, version : Nat, digest : Digest, member : Address]
      BY <3>1 DEF Consent, UpgradeProposal
    <3> QED BY <1>3, <3>2, <3>3, <3>4, ZenonT(30) DEF TypeOK, UpgradeTypeOK
  <2>2. ASSUME reject_digest_for_upgrade(sender, c) PROVE Goal
    <3> DEFINE prop == um.upgrade_proposal
    <3>1. prop \in UpgradeProposal
      BY <1>2, <2>2 DEF reject_digest_for_upgrade
    <3>2. /\ upgrade_manager' = [upgrade_manager EXCEPT ![c] =
               WithProposal(um, insert_vote(prop, sender, "Reject"))]
          /\ consent' = consent \ {Consent(c, prop, sender)}
          /\ UNCHANGED <<ticket, upgrades>>
      BY <2>2 DEF reject_digest_for_upgrade
    <3>3. insert_vote(prop, sender, "Reject") \in UpgradeProposal
      BY <3>1, InsertedVote DEF Vote
    <3> QED BY <1>3, <3>2, <3>3, ZenonT(30) DEF TypeOK, UpgradeTypeOK
  <2>3. ASSUME authorize_upgrade(sender, c) PROVE Goal
    <3> DEFINE prop == um.upgrade_proposal
               u == [committee |-> c, version |-> prop.version, digest |-> prop.digest,
                     by |-> {a \in Address : Consent(c, prop, a) \in consent}]
    <3>1. prop \in UpgradeProposal
      BY <1>2, <2>3, ZenonT(30) DEF authorize_upgrade
    <3>2. /\ upgrade_manager' = [upgrade_manager EXCEPT ![c] = WithProposal(um, None)]
          /\ upgrades' = upgrades \cup {u}
          /\ ticket' = sender
          /\ UNCHANGED consent
      BY <2>3 DEF authorize_upgrade, cap_authorize
    <3>3. u \in Upgrade
      BY <3>1, ZenonT(40) DEF UpgradeProposal, Upgrade
    <3> HIDE DEF u
    <3> QED BY <1>3, <3>2, <3>3, ZenonT(40) DEF TypeOK, UpgradeTypeOK
  <2>4. ASSUME commit_upgrade(sender, c) PROVE Goal
    <3>1. /\ upgrade_manager' = [upgrade_manager EXCEPT
               ![c] = [cap_version |-> um.cap_version + 1, upgrade_proposal |-> None]]
          /\ ticket' = None
          /\ UNCHANGED <<consent, upgrades>>
      BY <2>4 DEF commit_upgrade, cap_commit, CommittedManager
    <3>2. \A v \in Nat : [cap_version |-> v + 1, upgrade_proposal |-> None] \in UpgradeManager
      BY DEF UpgradeManager
    <3>3. [cap_version |-> um.cap_version + 1, upgrade_proposal |-> None] \in UpgradeManager
      BY <1>2, <3>2
    <3> QED BY <3>1, <3>3 DEF TypeOK, UpgradeTypeOK
  <2>5. ASSUME reset_proposal(sender, c) PROVE Goal
    BY <1>3, <2>5, ZenonT(30) DEF reset_proposal, TypeOK, UpgradeTypeOK, upgradeVars
  <2> QED BY <2>1, <2>2, <2>3, <2>4, <2>5 DEF VoteStep
<1> QED BY <1>1, <1>4, Zenon
        DEF TypeOK, CommitteeTypeOK, DkgTypeOK, RosterInv, stateVars, dkgVars

\* No call breaks types or rosters.
LEMMA TypeNext ==
  ASSUME TypeOK, RosterInv, [Next]_vars
  PROVE  TypeOK' /\ RosterInv'
<1>1. ASSUME NEW sender \in Address, NEW c \in CommitteeId, NEW t \in Threshold, NEW ms \in Roster,
             NEW cap \in Cap, init_committee(sender, cap, c, t, ms)
      PROVE  TypeOK' /\ RosterInv'
  <2>1. [cap_version |-> 1, upgrade_proposal |-> None] \in UpgradeManager
    BY DEF UpgradeManager
  <2>2. upgrade_manager' \in [CommitteeId -> UpgradeManager \cup {None}]
    BY <1>1, <2>1 DEF init_committee, TypeOK, UpgradeTypeOK
  <2>3. free_caps' \subseteq Cap /\ init_internal(c, t, ms, None)
    BY <1>1 DEF init_committee, TypeOK, CommitteeTypeOK
  <2>4. None \in CommitteeId \cup {None}
    OBVIOUS
  <2> QED BY <2>2, <2>3, <2>4, InitInternalType
<1>2. ASSUME NEW sender \in Address, NEW c \in CommitteeId, NEW t \in Threshold, NEW ms \in Roster,
             NEW old \in CommitteeId, init_rotation(sender, old, c, t, ms)
      PROVE  TypeOK' /\ RosterInv'
  <2>1. upgrade_manager' \in [CommitteeId -> UpgradeManager \cup {None}]
    BY <1>2 DEF init_rotation, TypeOK, UpgradeTypeOK
  <2>2. free_caps' \subseteq Cap /\ init_internal(c, t, ms, old)
    BY <1>2 DEF init_rotation, TypeOK, CommitteeTypeOK
  <2> QED BY <2>1, <2>2, InitInternalType
<1>3. ASSUME NEW sender \in Address, NEW c \in CommitteeId, RegisterStep(sender, c)
      PROVE  TypeOK' /\ RosterInv'
  BY <1>3, RegisterType, ConstantTypes DEF RegisterStep
<1>4. ASSUME NEW sender \in Address, NEW c \in CommitteeId, NEW p \in DkgInput, propose(sender, c, p)
      PROVE  TypeOK' /\ RosterInv'
  <2>1. p \in DkgOutput
    BY InputIsOutput
  <2> QED BY <1>4, <2>1, ProposeType
<1>5. ASSUME NEW sender \in Address, NEW c \in CommitteeId, NEW old \in CommitteeId,
             NEW pp \in PartialPks, NEW h \in MessagesHash,
             propose_for_rotation(sender, c, old, pp, h)
      PROVE  TypeOK' /\ RosterInv'
  BY <1>5, RotationType
<1>6. ASSUME NEW sender \in Address, NEW c \in CommitteeId, VoteStep(sender, c)
      PROVE  TypeOK' /\ RosterInv'
  BY <1>6, VoteType
<1>7. ASSUME NEW sender \in Address, NEW c \in CommitteeId, NEW url \in Url,
             update_member_url(sender, c, url)
      PROVE  TypeOK' /\ RosterInv'
  BY <1>7, UpdateUrlType, ZenonT(30)
<1>8. CASE UNCHANGED vars
  BY <1>8 DEF vars, stateVars, dkgVars, upgradeVars, TypeOK, CommitteeTypeOK, DkgTypeOK,
              UpgradeTypeOK, RosterInv
<1> QED BY <1>1, <1>2, <1>3, <1>4, <1>5, <1>6, <1>7, <1>8, Zenon DEF Next, CreateStep, ProposeStep

\* Every reachable state is well typed and every committee has a valid roster.
THEOREM TypeInvariant == Spec => [](TypeOK /\ RosterInv)
<1>1. Init => TypeOK /\ RosterInv
  BY TypeInit
<1>2. TypeOK /\ RosterInv /\ [Next]_vars => (TypeOK /\ RosterInv)'
  BY TypeNext
<1> QED BY <1>1, <1>2, PTL DEF Spec

-----------------------------------------------------------------------------
\* SingleCustodian is not inductive: that a fresh committee can finalize only when no other
\* committee has is because the package's one cap was spent on it and every rotation
\* descends from it.
Fresh(c) == state[c] # "Absent" /\ old_committee_id[c] = None
Settled(c) == state[c] \in {"Finalized", "Deleted"}

CapSpent == \A c \in CommitteeId : state[c] # "Absent" => PackageCap \notin free_caps

OneFresh == \A c, d \in CommitteeId : Fresh(c) /\ Fresh(d) => c = d

FreshSettlesFirst == \A c, d \in CommitteeId : Fresh(c) /\ Settled(d) => Settled(c)

FreshHoldsManager ==
  \A c \in CommitteeId : Fresh(c) /\ ~Settled(c) => upgrade_manager[c] # None

ManagerOnlyThere ==
  \A c \in CommitteeId :
    upgrade_manager[c] # None /\ state[c] # "Finalized" => Fresh(c) /\ ~Settled(c)

LineageInv ==
  /\ CapSpent
  /\ OneFresh
  /\ FreshSettlesFirst
  /\ FreshHoldsManager
  /\ ManagerOnlyThere

CustodyInv == LineageInv /\ SingleCustodian

\* No call breaks the custody invariant: the only calls that move the key server or
\* finalize a committee are the last propose of a fresh committee and of a rotation.
LEMMA CustodyNext ==
  ASSUME TypeOK, RosterInv, CustodyInv, [Next]_vars
  PROVE  CustodyInv'
<1>0. TypeOK'
  BY TypeNext
<1>1. ASSUME NEW sender \in Address, NEW c \in CommitteeId, NEW t \in Threshold, NEW ms \in Roster,
             NEW cap \in Cap, init_committee(sender, cap, c, t, ms)
      PROVE  CustodyInv'
  <2>1. /\ state'[c] = "Init" /\ state[c] = "Absent" /\ old_committee_id'[c] = None
        /\ PackageCap \in free_caps /\ free_caps' = free_caps \ {PackageCap}
        /\ UNCHANGED key_server
        /\ \A d \in CommitteeId : d # c =>
             /\ state'[d] = state[d] /\ old_committee_id'[d] = old_committee_id[d]
             /\ upgrade_manager'[d] = upgrade_manager[d]
    BY <1>1, ZenonT(30) DEF init_committee, OwnCap, init_internal, TypeOK, CommitteeTypeOK, UpgradeTypeOK
  <2>2. upgrade_manager'[c] # None
    <3>1. upgrade_manager'[c] = [cap_version |-> 1, upgrade_proposal |-> None]
      BY <1>1 DEF init_committee, TypeOK, UpgradeTypeOK
    <3>2. [cap_version |-> 1, upgrade_proposal |-> None] \in UpgradeManager
      BY Zenon DEF UpgradeManager
    <3> QED BY <3>1, <3>2, NoneIsAbsent
  <2>3. \A d \in CommitteeId : upgrade_manager[d] = None /\ ~Settled(d) /\ ~Fresh(d)
    BY <2>1, Zenon
       DEF CustodyInv, LineageInv, SingleCustodian, KeyServerWithFinalized, OneFinalized,
           OneManager, FinalizedHasManager, CapSpent, OneFresh, FreshSettlesFirst,
           FreshHoldsManager, ManagerOnlyThere, Fresh, Settled
  <2>p1. KeyServerWithFinalized'
    BY <2>1, <2>2, <2>3, Zenon DEF CustodyInv, SingleCustodian, KeyServerWithFinalized, Settled
  <2>p2. OneFinalized'
    BY <2>1, <2>2, <2>3, Zenon DEF CustodyInv, SingleCustodian, OneFinalized, Settled
  <2>p3. OneManager'
    BY <2>1, <2>2, <2>3, Zenon DEF CustodyInv, SingleCustodian, OneManager, Settled
  <2>p4. FinalizedHasManager'
    BY <2>1, <2>2, <2>3, Zenon DEF CustodyInv, SingleCustodian, FinalizedHasManager, Settled
  <2>p5. CapSpent'
    BY <2>1, <2>2, <2>3, Zenon DEF CustodyInv, LineageInv, CapSpent
  <2>p6. OneFresh'
    BY <2>1, <2>2, <2>3, Zenon DEF CustodyInv, LineageInv, OneFresh, Fresh
  <2>p7. FreshSettlesFirst'
    BY <2>1, <2>2, <2>3, Zenon DEF CustodyInv, LineageInv, FreshSettlesFirst, Fresh, Settled
  <2>p8. FreshHoldsManager'
    BY <2>1, <2>2, <2>3, ZenonT(30) DEF CustodyInv, LineageInv, FreshHoldsManager, Fresh, Settled
  <2>p9. ManagerOnlyThere'
    BY <2>1, <2>2, <2>3 DEF CustodyInv, LineageInv, ManagerOnlyThere, Fresh, Settled
  <2> QED BY <2>p1, <2>p2, <2>p3, <2>p4, <2>p5, <2>p6, <2>p7, <2>p8, <2>p9, Zenon
             DEF CustodyInv, LineageInv, SingleCustodian
<1>2. ASSUME NEW sender \in Address, NEW c \in CommitteeId, NEW t \in Threshold, NEW ms \in Roster,
             NEW old \in CommitteeId, init_rotation(sender, old, c, t, ms)
      PROVE  CustodyInv'
  <2>1. /\ state'[c] = "Init" /\ state[c] = "Absent" /\ old_committee_id'[c] = old
        /\ UNCHANGED <<free_caps, key_server, upgrade_manager>>
        /\ \A d \in CommitteeId : d # c =>
             state'[d] = state[d] /\ old_committee_id'[d] = old_committee_id[d]
    BY <1>2, Zenon DEF init_rotation, init_internal, TypeOK, CommitteeTypeOK
  <2>2. old # None /\ state[old] = "Finalized"
    BY <1>2, ConstantTypes, ZenonT(30) DEF init_rotation, is_finalized
  <2>p1. KeyServerWithFinalized'
    BY <2>1, <2>2 DEF CustodyInv, SingleCustodian, KeyServerWithFinalized, Settled
  <2>p2. OneFinalized'
    BY <2>1, <2>2 DEF CustodyInv, SingleCustodian, OneFinalized, Settled
  <2>p3. OneManager'
    BY <2>1, <2>2 DEF CustodyInv, SingleCustodian, OneManager, Settled
  <2>p4. FinalizedHasManager'
    BY <2>1, <2>2 DEF CustodyInv, SingleCustodian, FinalizedHasManager, Settled
  <2>p5. CapSpent'
    BY <2>1, <2>2 DEF CustodyInv, LineageInv, CapSpent
  <2>p6. OneFresh'
    BY <2>1, <2>2 DEF CustodyInv, LineageInv, OneFresh, Fresh
  <2>p7. FreshSettlesFirst'
    BY <2>1, <2>2, Zenon DEF CustodyInv, LineageInv, FreshSettlesFirst, Fresh, Settled
  <2>p8. FreshHoldsManager'
    BY <2>1, <2>2 DEF CustodyInv, LineageInv, FreshHoldsManager, Fresh, Settled
  <2>p9. ManagerOnlyThere'
    BY <2>1, <2>2 DEF CustodyInv, LineageInv, ManagerOnlyThere, Fresh, Settled
  <2> QED BY <2>p1, <2>p2, <2>p3, <2>p4, <2>p5, <2>p6, <2>p7, <2>p8, <2>p9, Zenon
             DEF CustodyInv, LineageInv, SingleCustodian
<1>3. ASSUME NEW sender \in Address, NEW c \in CommitteeId, RegisterStep(sender, c)
      PROVE  CustodyInv'
  <2>1. UNCHANGED <<free_caps, state, old_committee_id, key_server, upgrade_manager>>
    BY <1>3 DEF RegisterStep, register
  <2>p1. KeyServerWithFinalized'
    BY <2>1 DEF CustodyInv, SingleCustodian, KeyServerWithFinalized, Settled
  <2>p2. OneFinalized'
    BY <2>1 DEF CustodyInv, SingleCustodian, OneFinalized, Settled
  <2>p3. OneManager'
    BY <2>1 DEF CustodyInv, SingleCustodian, OneManager, Settled
  <2>p4. FinalizedHasManager'
    BY <2>1 DEF CustodyInv, SingleCustodian, FinalizedHasManager, Settled
  <2>p5. CapSpent'
    BY <2>1 DEF CustodyInv, LineageInv, CapSpent
  <2>p6. OneFresh'
    BY <2>1 DEF CustodyInv, LineageInv, OneFresh, Fresh
  <2>p7. FreshSettlesFirst'
    BY <2>1 DEF CustodyInv, LineageInv, FreshSettlesFirst, Fresh, Settled
  <2>p8. FreshHoldsManager'
    BY <2>1 DEF CustodyInv, LineageInv, FreshHoldsManager, Fresh, Settled
  <2>p9. ManagerOnlyThere'
    BY <2>1 DEF CustodyInv, LineageInv, ManagerOnlyThere, Fresh, Settled
  <2> QED BY <2>p1, <2>p2, <2>p3, <2>p4, <2>p5, <2>p6, <2>p7, <2>p8, <2>p9, ZenonT(30)
             DEF CustodyInv, LineageInv, SingleCustodian
<1>4. ASSUME NEW sender \in Address, NEW c \in CommitteeId, NEW p \in DkgInput, propose(sender, c, p)
      PROVE  CustodyInv'
  <2>1. /\ Fresh(c) /\ ~Settled(c)
        /\ UNCHANGED <<free_caps, old_committee_id, upgrade_manager>>
    BY <1>4, ZenonT(30) DEF propose, propose_internal, ProposalFits, FreshOnly, Fresh, Settled
  <2>2. ASSUME ~AllApproved(c) PROVE CustodyInv'
    <3>1. /\ state'[c] = "PostDKG" /\ UNCHANGED key_server
          /\ \A d \in CommitteeId : d # c => state'[d] = state[d]
      BY <1>4, <2>2, Zenon DEF propose, try_finalize, TypeOK, CommitteeTypeOK
    <3>p1. KeyServerWithFinalized'
      BY <2>1, <3>1, Zenon DEF CustodyInv, SingleCustodian, KeyServerWithFinalized, Settled
    <3>p2. OneFinalized'
      BY <2>1, <3>1, Zenon DEF CustodyInv, SingleCustodian, OneFinalized, Settled
    <3>p3. OneManager'
      BY <2>1, <3>1, Zenon DEF CustodyInv, SingleCustodian, OneManager, Settled
    <3>p4. FinalizedHasManager'
      BY <2>1, <3>1, Zenon DEF CustodyInv, SingleCustodian, FinalizedHasManager, Settled
    <3>p5. CapSpent'
      BY <2>1, <3>1, Zenon DEF CustodyInv, LineageInv, CapSpent, Fresh
    <3>p6. OneFresh'
      BY <2>1, <3>1, Zenon DEF CustodyInv, LineageInv, OneFresh, Fresh
    <3>p7. FreshSettlesFirst'
      BY <2>1, <3>1, Zenon DEF CustodyInv, LineageInv, FreshSettlesFirst, Fresh, Settled
    <3>p8. FreshHoldsManager'
      BY <2>1, <3>1, Zenon DEF CustodyInv, LineageInv, FreshHoldsManager, Fresh, Settled
    <3>p9. ManagerOnlyThere'
      BY <2>1, <3>1, Zenon DEF CustodyInv, LineageInv, ManagerOnlyThere, Fresh, Settled
    <3> QED BY <3>p1, <3>p2, <3>p3, <3>p4, <3>p5, <3>p6, <3>p7, <3>p8, <3>p9, ZenonT(30)
               DEF CustodyInv, LineageInv, SingleCustodian
  <2>4. ASSUME AllApproved(c) PROVE key_server'[c] # None
    <3> DEFINE partials == build_partial_key_servers(c, p.partial_pks)
    <3>1. p \in DkgOutput
      BY InputIsOutput
    <3>2. /\ DOMAIN members_info[c] = Range(members[c])
          /\ p.partial_pks \in Seq(PartialPk) /\ Len(p.partial_pks) = Len(members[c])
      BY <1>4, <3>1, ProposeFindsAllRegistered, ZenonT(30) DEF propose
    <3>3. partials \in Seq(Entry) /\ p.pk \in Pk /\ threshold[c] \in Nat
      BY <3>1, <3>2, BuildEntries, ZenonT(40) DEF DkgOutput, TypeOK, CommitteeTypeOK
    <3>4. create_committee_v2(c, threshold[c], p.pk, partials) \in KeyServers
      BY <3>3, CreatedKeyServer
    <3>5. key_server' = [key_server EXCEPT ![c] = create_committee_v2(c, threshold[c], p.pk, partials)]
      BY <1>4, <2>4 DEF propose, try_finalize
    <3> QED BY <3>4, <3>5, NoneIsAbsent DEF TypeOK
  <2>5. ASSUME AllApproved(c) PROVE CustodyInv'
    <3>1. /\ state'[c] = "Finalized" /\ key_server'[c] # None
          /\ \A d \in CommitteeId : d # c => state'[d] = state[d] /\ key_server'[d] = key_server[d]
      BY <1>4, <2>4, <2>5 DEF propose, try_finalize, TypeOK, CommitteeTypeOK
    <3>2. \A d \in CommitteeId : ~Settled(d)
      BY <2>1 DEF CustodyInv, LineageInv, FreshSettlesFirst
    <3>p1. KeyServerWithFinalized'
      BY <2>1, <3>1, <3>2, Zenon DEF CustodyInv, SingleCustodian, KeyServerWithFinalized, Settled
    <3>p2. OneFinalized'
      BY <2>1, <3>1, <3>2, Zenon DEF CustodyInv, SingleCustodian, OneFinalized, Settled
    <3>p3. OneManager'
      BY <2>1, <3>1, <3>2, Zenon DEF CustodyInv, SingleCustodian, OneManager, Settled
    <3>p4. FinalizedHasManager'
      BY <2>1, <3>1, <3>2, Zenon DEF CustodyInv, SingleCustodian, FinalizedHasManager, LineageInv,
            FreshHoldsManager, Settled
    <3>p5. CapSpent'
      BY <2>1, <3>1, <3>2, Zenon DEF CustodyInv, LineageInv, CapSpent, Fresh
    <3>p6. OneFresh'
      BY <2>1, <3>1, <3>2, Zenon DEF CustodyInv, LineageInv, OneFresh, Fresh
    <3>p7. FreshSettlesFirst'
      BY <2>1, <3>1, <3>2, Zenon DEF CustodyInv, LineageInv, FreshSettlesFirst, OneFresh, Fresh, Settled
    <3>p8. FreshHoldsManager'
      BY <2>1, <3>1, <3>2, ZenonT(30) DEF CustodyInv, LineageInv, FreshHoldsManager, Fresh, Settled
    <3>p9. ManagerOnlyThere'
      BY <2>1, <3>1, <3>2 DEF CustodyInv, LineageInv, ManagerOnlyThere, Fresh, Settled
    <3> QED BY <3>p1, <3>p2, <3>p3, <3>p4, <3>p5, <3>p6, <3>p7, <3>p8, <3>p9, ZenonT(30)
               DEF CustodyInv, LineageInv, SingleCustodian
  <2> QED BY <2>2, <2>5
<1>5. ASSUME NEW sender \in Address, NEW c \in CommitteeId, NEW old \in CommitteeId,
             NEW pp \in PartialPks, NEW h \in MessagesHash,
             propose_for_rotation(sender, c, old, pp, h)
      PROVE  CustodyInv'
  <2>1. /\ old_committee_id[c] = old /\ old # None /\ state[old] = "Finalized"
        /\ state[c] \in {"Init", "PostDKG"} /\ c # old
        /\ UNCHANGED <<free_caps, old_committee_id>>
    BY <1>5, ConstantTypes, ZenonT(30)
       DEF propose_for_rotation, propose_internal, ProposalFits, check_rotation_consistency,
           is_finalized
  <2>2. ASSUME ~AllApproved(c) PROVE CustodyInv'
    <3>1. /\ state'[c] = "PostDKG" /\ UNCHANGED <<key_server, upgrade_manager>>
          /\ \A d \in CommitteeId : d # c => state'[d] = state[d]
      BY <1>5, <2>2, ZenonT(40) DEF propose_for_rotation, try_finalize_for_rotation, TypeOK, CommitteeTypeOK
    <3>p1. KeyServerWithFinalized'
      BY <2>1, <3>1, Zenon DEF CustodyInv, SingleCustodian, KeyServerWithFinalized, Settled
    <3>p2. OneFinalized'
      BY <2>1, <3>1, Zenon DEF CustodyInv, SingleCustodian, OneFinalized, Settled
    <3>p3. OneManager'
      BY <2>1, <3>1, Zenon DEF CustodyInv, SingleCustodian, OneManager, Settled
    <3>p4. FinalizedHasManager'
      BY <2>1, <3>1, Zenon DEF CustodyInv, SingleCustodian, FinalizedHasManager, Settled
    <3>p5. CapSpent'
      BY <2>1, <3>1, Zenon DEF CustodyInv, LineageInv, CapSpent
    <3>p6. OneFresh'
      BY <2>1, <3>1, Zenon DEF CustodyInv, LineageInv, OneFresh, Fresh
    <3>p7. FreshSettlesFirst'
      BY <2>1, <3>1, Zenon DEF CustodyInv, LineageInv, FreshSettlesFirst, Fresh, Settled
    <3>p8. FreshHoldsManager'
      BY <2>1, <3>1, ZenonT(30) DEF CustodyInv, LineageInv, FreshHoldsManager, Fresh, Settled
    <3>p9. ManagerOnlyThere'
      BY <2>1, <3>1 DEF CustodyInv, LineageInv, ManagerOnlyThere, Fresh, Settled
    <3> QED BY <3>p1, <3>p2, <3>p3, <3>p4, <3>p5, <3>p6, <3>p7, <3>p8, <3>p9, Zenon
               DEF CustodyInv, LineageInv, SingleCustodian
  <2>3. ASSUME AllApproved(c) PROVE CustodyInv'
    <3> DEFINE ks == key_server[old]
               p == [partial_pks |-> pp, pk |-> ks.pk, messages_hash |-> h]
               new == update_partial_key_servers(ks, threshold[c], build_partial_key_servers(c, pp))
               um == WithProposal(upgrade_manager[old], None)
    <3>1. ks \in KeyServers /\ pp \in Seq(PartialPk)
      BY <1>5, ConstantTypes, ZenonT(30) DEF propose_for_rotation, TypeOK
    <3>2. p \in DkgOutput
      BY <3>1, Zenon DEF DkgOutput, KeyServers, KeyServerV2
    <3>3. propose_internal(sender, c, p)
      BY <1>5, Zenon DEF propose_for_rotation
    <3>4. DOMAIN members_info[c] = Range(members[c]) /\ Len(pp) = Len(members[c])
      BY <3>2, <3>3, ProposeFindsAllRegistered, ZenonT(30)
    <3>5. build_partial_key_servers(c, pp) \in Seq(Entry) /\ threshold[c] \in Nat
      BY <3>1, <3>4, BuildEntries DEF TypeOK, CommitteeTypeOK
    <3>6. new \in KeyServers
      BY <3>1, <3>5, RotatedKeyServer, ZenonT(30)
    <3>7. /\ key_server' = [key_server EXCEPT ![old] = None, ![c] = new]
          /\ upgrade_manager[old] # None
          /\ upgrade_manager' = [upgrade_manager EXCEPT ![old] = None, ![c] = um]
          /\ state' = [state EXCEPT ![old] = "Deleted", ![c] = "Finalized"]
      BY <1>5, <2>3, ZenonT(40) DEF propose_for_rotation, try_finalize_for_rotation
    <3>8. um \in UpgradeManager
      BY <3>7, Zenon DEF TypeOK, UpgradeTypeOK, UpgradeManager, WithProposal
    <3>9. new # None /\ um # None
      BY <3>6, <3>8, NoneIsAbsent, Zenon
    <3> HIDE DEF new, um
    <3>10. /\ key_server'[c] # None /\ key_server'[old] = None
           /\ upgrade_manager'[c] # None /\ upgrade_manager'[old] = None
           /\ state'[c] = "Finalized" /\ state'[old] = "Deleted"
           /\ \A d \in CommitteeId : d \notin {c, old} =>
                /\ key_server'[d] = key_server[d] /\ upgrade_manager'[d] = upgrade_manager[d]
                /\ state'[d] = state[d]
      BY <2>1, <3>7, <3>9, Zenon DEF TypeOK, CommitteeTypeOK, UpgradeTypeOK
    <3>11. \A d \in CommitteeId : state[d] = "Finalized" => d = old
      BY <2>1, Zenon DEF CustodyInv, SingleCustodian, OneFinalized
    <3>p1. KeyServerWithFinalized'
      BY <2>1, <3>10, <3>11, Zenon DEF CustodyInv, SingleCustodian, KeyServerWithFinalized, Settled
    <3>p2. OneFinalized'
      BY <2>1, <3>10, <3>11, Zenon DEF CustodyInv, SingleCustodian, OneFinalized, Settled
    <3>p3. OneManager'
      BY <2>1, <3>10, <3>11, ZenonT(30) DEF CustodyInv, SingleCustodian, OneManager, FinalizedHasManager
    <3>p4. FinalizedHasManager'
      BY <2>1, <3>10, <3>11, Zenon DEF CustodyInv, SingleCustodian, FinalizedHasManager, Settled
    <3>p5. CapSpent'
      BY <2>1, <3>10, <3>11, Zenon DEF CustodyInv, LineageInv, CapSpent
    <3>p6. OneFresh'
      BY <2>1, <3>10, <3>11, ZenonT(30) DEF CustodyInv, LineageInv, OneFresh, Fresh
    <3>p7. FreshSettlesFirst'
      BY <2>1, <3>10, <3>11, Zenon DEF CustodyInv, LineageInv, FreshSettlesFirst, Fresh, Settled
    <3>p8. FreshHoldsManager'
      BY <2>1, <3>10, <3>11, Zenon DEF CustodyInv, LineageInv, FreshHoldsManager, Fresh, Settled
    <3>p9. ManagerOnlyThere'
      BY <2>1, <3>10, <3>11, Zenon DEF CustodyInv, LineageInv, ManagerOnlyThere, Fresh, Settled
    <3> QED BY <3>p1, <3>p2, <3>p3, <3>p4, <3>p5, <3>p6, <3>p7, <3>p8, <3>p9, Zenon
               DEF CustodyInv, LineageInv, SingleCustodian
  <2> QED BY <2>2, <2>3
<1>6. ASSUME NEW sender \in Address, NEW c \in CommitteeId, VoteStep(sender, c)
      PROVE  CustodyInv'
  <2>1. state[c] = "Finalized" /\ UNCHANGED <<free_caps, state, old_committee_id, key_server>>
    BY <1>6, VoteFrame, ZenonT(40) DEF MayVote, is_finalized, stateVars
  <2>2. \A d \in CommitteeId : d # c => upgrade_manager'[d] = upgrade_manager[d]
    BY <1>6, VoteFrame
  <2>3. upgrade_manager'[c] # None
    <3>1. upgrade_manager'[c] \in UpgradeManager
      BY <1>6, VoteType, Zenon
    <3> QED BY <3>1, NoneIsAbsent
  <2>p1. KeyServerWithFinalized'
    BY <2>1, <2>2, <2>3, Zenon DEF CustodyInv, SingleCustodian, KeyServerWithFinalized, Settled
  <2>p2. OneFinalized'
    BY <2>1, <2>2, <2>3, Zenon DEF CustodyInv, SingleCustodian, OneFinalized, Settled
  <2>p3. OneManager'
    BY <2>1, <2>2, <2>3 DEF CustodyInv, SingleCustodian, OneManager, FinalizedHasManager
  <2>p4. FinalizedHasManager'
    BY <2>1, <2>2, <2>3, Zenon DEF CustodyInv, SingleCustodian, FinalizedHasManager, Settled
  <2>p5. CapSpent'
    BY <2>1, <2>2, <2>3, Zenon DEF CustodyInv, LineageInv, CapSpent
  <2>p6. OneFresh'
    BY <2>1, <2>2, <2>3, Zenon DEF CustodyInv, LineageInv, OneFresh, Fresh
  <2>p7. FreshSettlesFirst'
    BY <2>1, <2>2, <2>3, Zenon DEF CustodyInv, LineageInv, FreshSettlesFirst, Fresh, Settled
  <2>p8. FreshHoldsManager'
    BY <2>1, <2>2, <2>3, Zenon DEF CustodyInv, LineageInv, FreshHoldsManager, Fresh, Settled
  <2>p9. ManagerOnlyThere'
    BY <2>1, <2>2, <2>3, Zenon DEF CustodyInv, LineageInv, ManagerOnlyThere, Fresh, Settled
  <2> QED BY <2>p1, <2>p2, <2>p3, <2>p4, <2>p5, <2>p6, <2>p7, <2>p8, <2>p9, Zenon
             DEF CustodyInv, LineageInv, SingleCustodian
<1>7. ASSUME NEW sender \in Address, NEW c \in CommitteeId, NEW url \in Url,
             update_member_url(sender, c, url)
      PROVE  CustodyInv'
  <2>1. key_server[c] # None /\ UNCHANGED <<free_caps, state, old_committee_id, upgrade_manager>>
        /\ \A d \in CommitteeId : d # c => key_server'[d] = key_server[d]
    BY <1>7 DEF update_member_url, stateVars, TypeOK
  <2>2. key_server'[c] # None
    <3>1. key_server'[c] \in KeyServers
      BY <1>7, UpdateUrlType, Zenon
    <3> QED BY <3>1, NoneIsAbsent
  <2>p1. KeyServerWithFinalized'
    BY <2>1, <2>2, Zenon DEF CustodyInv, SingleCustodian, KeyServerWithFinalized, Settled
  <2>p2. OneFinalized'
    BY <2>1, <2>2, Zenon DEF CustodyInv, SingleCustodian, OneFinalized, Settled
  <2>p3. OneManager'
    BY <2>1, <2>2, Zenon DEF CustodyInv, SingleCustodian, OneManager, Settled
  <2>p4. FinalizedHasManager'
    BY <2>1, <2>2 DEF CustodyInv, SingleCustodian, FinalizedHasManager, Settled
  <2>p5. CapSpent'
    BY <2>1, <2>2, Zenon DEF CustodyInv, LineageInv, CapSpent
  <2>p6. OneFresh'
    BY <2>1, <2>2, Zenon DEF CustodyInv, LineageInv, OneFresh, Fresh
  <2>p7. FreshSettlesFirst'
    BY <2>1, <2>2, Zenon DEF CustodyInv, LineageInv, FreshSettlesFirst, Fresh, Settled
  <2>p8. FreshHoldsManager'
    BY <2>1, <2>2, Zenon DEF CustodyInv, LineageInv, FreshHoldsManager, Fresh, Settled
  <2>p9. ManagerOnlyThere'
    BY <2>1, <2>2, ZenonT(30) DEF CustodyInv, LineageInv, ManagerOnlyThere, Fresh, Settled
  <2> QED BY <2>p1, <2>p2, <2>p3, <2>p4, <2>p5, <2>p6, <2>p7, <2>p8, <2>p9, ZenonT(30)
             DEF CustodyInv, LineageInv, SingleCustodian
<1>8. CASE UNCHANGED vars
  BY <1>8
     DEF vars, stateVars, CustodyInv, LineageInv, SingleCustodian, KeyServerWithFinalized,
         OneFinalized, OneManager, FinalizedHasManager, CapSpent, OneFresh, FreshSettlesFirst,
         FreshHoldsManager, ManagerOnlyThere, Fresh, Settled
<1> QED BY <1>1, <1>2, <1>3, <1>4, <1>5, <1>6, <1>7, <1>8 DEF Next, CreateStep, ProposeStep

\* Custody and the lineage of committees it rests on.
THEOREM CustodyInvariant == Spec => [](TypeOK /\ RosterInv /\ CustodyInv)
<1>1. Init => CustodyInv
  BY
     DEF Init, CustodyInv, LineageInv, SingleCustodian, KeyServerWithFinalized, OneFinalized,
         OneManager, FinalizedHasManager, CapSpent, OneFresh, FreshSettlesFirst, FreshHoldsManager,
         ManagerOnlyThere, Fresh, Settled
<1>2. TypeOK /\ RosterInv /\ CustodyInv /\ [Next]_vars => CustodyInv'
  BY CustodyNext
<1> QED BY <1>1, <1>2, TypeInvariant, PTL DEF Spec

\* At any time one committee at most is finalized, and key server and upgrade manager are
\* with it alone, whatever the interleaving of rotations and upgrades.
THEOREM CustodianIsSingle == Spec => []SingleCustodian
<1>1. CustodyInv => SingleCustodian
  BY DEF CustodyInv
<1> QED BY <1>1, CustodyInvariant, PTL

=============================================================================
