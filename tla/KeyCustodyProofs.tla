-------------------------- MODULE KeyCustodyProofs --------------------------
(***************************************************************************)
(* What the calls of the committee package may do to a committee (StepOf), *)
(* and from that: proposals are final, orphaned rotations stay frozen, the *)
(* key material committees hold is what every member submitted, and the    *)
(* committees implement KeyCustody.                                        *)
(***************************************************************************)
EXTENDS SealCommitteeProofs

-----------------------------------------------------------------------------
\* Nothing about committee d changes, apart from its upgrade manager.
SameRoster(d) ==
  /\ threshold'[d] = threshold[d] /\ members'[d] = members[d]
  /\ old_committee_id'[d] = old_committee_id[d]
SameDkg(d) == proposal'[d] = proposal[d] /\ approvals'[d] = approvals[d] /\ endorsed'[d] = endorsed[d]
Same(d) ==
  /\ state'[d] = state[d] /\ SameRoster(d) /\ members_info'[d] = members_info[d]
  /\ SameDkg(d) /\ key_server'[d] = key_server[d]
OthersSame(D) == \A d \in CommitteeId \ D : Same(d)

\* init_committee, init_rotation
Opens(c, old) ==
  /\ state[c] = "Absent" /\ state'[c] = "Init" /\ old_committee_id'[c] = old
  /\ members_info'[c] = members_info[c] /\ SameDkg(c) /\ key_server'[c] = key_server[c]
  /\ old # None => state[old] = "Finalized" /\ continuing_members(old, members'[c]) >= threshold[old]
  /\ OthersSame({c})

\* register
Registers(c) ==
  /\ state[c] = "Init" /\ state'[c] = "Init" /\ SameRoster(c) /\ SameDkg(c)
  /\ key_server'[c] = key_server[c] /\ OthersSame({c})

\* update_member_url
Relocates(c) ==
  /\ state'[c] = state[c] /\ SameRoster(c) /\ members_info'[c] = members_info[c] /\ SameDkg(c)
  /\ key_server[c] \in KeyServers /\ key_server'[c] \in KeyServers
  /\ LET ks == key_server[c]
         new == key_server'[c]
     IN  /\ new.pk = ks.pk /\ new.version = ks.version /\ new.threshold = ks.threshold
         /\ Len(new.partial_key_servers) = Len(ks.partial_key_servers)
         /\ \A j \in 1..Len(ks.partial_key_servers) :
              /\ new.partial_key_servers[j].name = ks.partial_key_servers[j].name
              /\ new.partial_key_servers[j].partial_pk = ks.partial_key_servers[j].partial_pk
              /\ new.partial_key_servers[j].party_id = ks.partial_key_servers[j].party_id
  /\ OthersSame({c})

\* propose_internal
Submits(a, c, p) ==
  /\ a \in Range(members[c]) /\ p \in DkgOutput /\ Len(p.partial_pks) = Len(members[c])
  /\ state[c] \in {"Init", "PostDKG"} /\ (state[c] = "PostDKG" => p = proposal[c])
  /\ DOMAIN members_info[c] = Range(members[c])
  /\ proposal'[c] = p /\ approvals'[c] = approvals[c] \cup {a}
  /\ endorsed'[c] = endorsed[c] \cup {<<a, p>>}
  /\ SameRoster(c) /\ members_info'[c] = members_info[c]

\* A proposal that is not the last one.
Proposes(a, c, p) ==
  /\ Submits(a, c, p) /\ state'[c] = "PostDKG" /\ key_server'[c] = key_server[c]
  /\ old_committee_id[c] # None => state[old_committee_id[c]] = "Finalized"
  /\ OthersSame({c})

\* try_finalize and try_finalize_for_rotation with the last one.
Creates(a, c, p) ==
  /\ Submits(a, c, p) /\ state'[c] = "Finalized" /\ AllApproved(c)
  /\ old_committee_id[c] = None
  /\ key_server'[c] = create_committee_v2(c, threshold[c], p.pk, build_partial_key_servers(c, p.partial_pks))
  /\ OthersSame({c})

Rotates(a, c, old, p) ==
  /\ Submits(a, c, p) /\ state'[c] = "Finalized" /\ AllApproved(c)
  /\ old # c /\ old_committee_id[c] = old /\ state[old] = "Finalized" /\ key_server[old] \in KeyServers
  /\ p.pk = key_server[old].pk
  /\ key_server'[c] = update_partial_key_servers(key_server[old], threshold[c],
                                                 build_partial_key_servers(c, p.partial_pks))
  /\ key_server'[old] = None /\ state'[old] = "Deleted" /\ SameRoster(old) /\ SameDkg(old)
  /\ members_info'[old] = members_info[old]
  /\ OthersSame({c, old})

\* Whatever happens is one of these, or concerns the upgrade managers only.
StepOf ==
  \/ OthersSame({})
  \/ \E c \in CommitteeId, old \in CommitteeId \cup {None} : Opens(c, old)
  \/ \E c \in CommitteeId : Registers(c) \/ Relocates(c)
  \/ \E a \in Address, c \in CommitteeId, p \in DkgOutput :
       Proposes(a, c, p) \/ Creates(a, c, p) \/ \E old \in CommitteeId : Rotates(a, c, old, p)

LEMMA DomainsOf ==
  ASSUME TypeOK
  PROVE  /\ DOMAIN state = CommitteeId /\ DOMAIN threshold = CommitteeId /\ DOMAIN members = CommitteeId
         /\ DOMAIN old_committee_id = CommitteeId /\ DOMAIN members_info = CommitteeId
         /\ DOMAIN proposal = CommitteeId /\ DOMAIN approvals = CommitteeId
         /\ DOMAIN endorsed = CommitteeId /\ DOMAIN key_server = CommitteeId
BY DEF TypeOK, CommitteeTypeOK, DkgTypeOK

LEMMA OpensStep ==
  ASSUME TypeOK, NEW c \in CommitteeId, NEW t, NEW ms, NEW old \in CommitteeId \cup {None},
         init_internal(c, t, ms, old),
         old # None => state[old] = "Finalized" /\ continuing_members(old, ms) >= threshold[old]
  PROVE  Opens(c, old)
<1>1. /\ state[c] = "Absent" /\ state'[c] = "Init" /\ old_committee_id'[c] = old /\ members'[c] = ms
      /\ UNCHANGED <<members_info, dkgVars, key_server>>
  BY DomainsOf DEF init_internal
<1>2. SameDkg(c)
  BY <1>1 DEF SameDkg, dkgVars
<1>3. OthersSame({c})
  BY <1>1, DomainsOf DEF OthersSame, Same, SameRoster, SameDkg, init_internal, dkgVars
<1> QED BY <1>1, <1>2, <1>3 DEF Opens

LEMMA SubmitsStep ==
  ASSUME TypeOK, RosterInv, NEW a \in Address, NEW c \in CommitteeId, NEW p \in DkgOutput,
         propose_internal(a, c, p),
         UNCHANGED <<threshold, members, old_committee_id, members_info>>
  PROVE  /\ Submits(a, c, p)
         /\ \A d \in CommitteeId \ {c} : SameRoster(d) /\ SameDkg(d) /\ members_info'[d] = members_info[d]
<1>1. /\ proposal'[c] = p /\ approvals'[c] = approvals[c] \cup {a}
      /\ endorsed'[c] = endorsed[c] \cup {<<a, p>>}
      /\ \A d \in CommitteeId \ {c} : SameDkg(d)
  BY DomainsOf DEF propose_internal, SameDkg
<1>2. /\ DOMAIN members_info[c] = Range(members[c]) /\ state[c] \in {"Init", "PostDKG"}
      /\ Len(p.partial_pks) = Len(members[c])
  BY ProposeFindsAllRegistered
<1>3. a \in Range(members[c]) /\ (state[c] = "PostDKG" => p = proposal[c])
  BY DEF propose_internal, IsMember, ProposalFits
<1>4. \A d \in CommitteeId : SameRoster(d) /\ members_info'[d] = members_info[d]
  BY DEF SameRoster
<1> QED BY <1>1, <1>2, <1>3, <1>4 DEF Submits

LEMMA ProposeStepOf ==
  ASSUME TypeOK, RosterInv, NEW a \in Address, NEW c \in CommitteeId, NEW p \in DkgOutput,
         propose(a, c, p)
  PROVE  Proposes(a, c, p) \/ Creates(a, c, p)
<1>1. /\ old_committee_id[c] = None /\ propose_internal(a, c, p) /\ try_finalize(c, p)
      /\ UNCHANGED <<threshold, members, old_committee_id, members_info>>
  BY DEF propose, FreshOnly
<1>2. /\ Submits(a, c, p)
      /\ \A d \in CommitteeId \ {c} : SameRoster(d) /\ SameDkg(d) /\ members_info'[d] = members_info[d]
  BY <1>1, SubmitsStep
<1>3. CASE ~AllApproved(c)
  <2>1. state' = [state EXCEPT ![c] = "PostDKG"] /\ UNCHANGED key_server
    BY <1>1, <1>3 DEF try_finalize
  <2>2. state'[c] = "PostDKG" /\ \A d \in CommitteeId \ {c} : state'[d] = state[d]
    BY <2>1, DomainsOf
  <2>3. OthersSame({c})
    BY <1>2, <2>1, <2>2 DEF OthersSame, Same
  <2> QED BY <1>1, <1>2, <2>1, <2>2, <2>3 DEF Proposes
<1>4. CASE AllApproved(c)
  <2> DEFINE new == create_committee_v2(c, threshold[c], p.pk, build_partial_key_servers(c, p.partial_pks))
  <2>1. state' = [state EXCEPT ![c] = "Finalized"] /\ key_server' = [key_server EXCEPT ![c] = new]
    BY <1>1, <1>4 DEF try_finalize
  <2> HIDE DEF new
  <2>2. /\ state'[c] = "Finalized" /\ key_server'[c] = new
        /\ \A d \in CommitteeId \ {c} : state'[d] = state[d] /\ key_server'[d] = key_server[d]
    BY <2>1, DomainsOf
  <2>3. OthersSame({c})
    BY <1>2, <2>2 DEF OthersSame, Same
  <2> QED BY <1>1, <1>2, <1>4, <2>2, <2>3 DEF Creates, new
<1> QED BY <1>3, <1>4

LEMMA RotationStepOf ==
  ASSUME TypeOK, RosterInv, NEW a \in Address, NEW c \in CommitteeId, NEW old \in CommitteeId,
         NEW pp \in PartialPks, NEW h \in MessagesHash, propose_for_rotation(a, c, old, pp, h)
  PROVE  \E p \in DkgOutput : Proposes(a, c, p) \/ Rotates(a, c, old, p)
<1> DEFINE ks == key_server[old]
           p == [partial_pks |-> pp, pk |-> ks.pk, messages_hash |-> h]
<1>1. /\ old_committee_id[c] = old /\ state[old] = "Finalized"
      /\ propose_internal(a, c, p) /\ try_finalize_for_rotation(c, old, p)
      /\ UNCHANGED <<threshold, members, old_committee_id, members_info>>
  BY DEF propose_for_rotation, check_rotation_consistency, is_finalized
<1>2. ks \in KeyServers /\ pp \in Seq(PartialPk)
  BY ConstantTypes DEF propose_for_rotation, TypeOK
<1>3. p \in DkgOutput /\ p.pk = ks.pk /\ p.partial_pks = pp
  BY <1>2 DEF DkgOutput, KeyServers, KeyServerV2
<1> HIDE DEF p
<1>4. /\ Submits(a, c, p)
      /\ \A d \in CommitteeId \ {c} : SameRoster(d) /\ SameDkg(d) /\ members_info'[d] = members_info[d]
  BY <1>1, <1>3, SubmitsStep
<1>5. c # old
  BY <1>1, <1>4 DEF Submits
<1>6. CASE ~AllApproved(c)
  <2>1. state' = [state EXCEPT ![c] = "PostDKG"] /\ UNCHANGED key_server
    BY <1>1, <1>6 DEF try_finalize_for_rotation
  <2>2. state'[c] = "PostDKG" /\ \A d \in CommitteeId \ {c} : state'[d] = state[d]
    BY <2>1, DomainsOf
  <2>3. OthersSame({c})
    BY <1>4, <2>1, <2>2 DEF OthersSame, Same
  <2>4. Proposes(a, c, p)
    BY <1>1, <1>4, <2>1, <2>2, <2>3 DEF Proposes
  <2> QED BY <1>3, <2>4
<1>7. CASE AllApproved(c)
  <2> DEFINE new == update_partial_key_servers(ks, threshold[c], build_partial_key_servers(c, p.partial_pks))
  <2>1. /\ state' = [state EXCEPT ![old] = "Deleted", ![c] = "Finalized"]
        /\ key_server' = [key_server EXCEPT ![old] = None, ![c] = new]
    BY <1>1, <1>7 DEF try_finalize_for_rotation
  <2> HIDE DEF new
  <2>2. /\ state'[c] = "Finalized" /\ key_server'[c] = new
        /\ state'[old] = "Deleted" /\ key_server'[old] = None
        /\ \A d \in CommitteeId \ {c, old} : state'[d] = state[d] /\ key_server'[d] = key_server[d]
    BY <1>5, <2>1, DomainsOf
  <2>3. OthersSame({c, old})
    BY <1>4, <2>2, Zenon DEF OthersSame, Same
  <2>4. Rotates(a, c, old, p)
    BY <1>1, <1>2, <1>3, <1>4, <1>5, <1>7, <2>2, <2>3, ZenonT(30) DEF Rotates, new
  <2> QED BY <1>3, <2>4
<1> QED BY <1>6, <1>7

LEMMA RelocatesStep ==
  ASSUME TypeOK, RosterInv, NEW a \in Address, NEW c \in CommitteeId, NEW url \in Url,
         update_member_url(a, c, url)
  PROVE  Relocates(c)
<1> DEFINE i == CHOOSE i \in DOMAIN members[c] : members[c][i] = a
           ks == key_server[c]
           new == update_url_of(ks, url, i - 1)
<1>1. /\ key_server[c] # None /\ i - 1 < Len(ks.partial_key_servers) /\ a \in Range(members[c])
      /\ key_server' = [key_server EXCEPT ![c] = new]
      /\ UNCHANGED <<state, threshold, members, old_committee_id, members_info, proposal, approvals, endorsed>>
  BY DEF update_member_url, stateVars, dkgVars, IsMember
<1>2. ks \in KeyServers /\ members[c] \in Seq(Address)
  BY <1>1 DEF TypeOK, CommitteeTypeOK
<1>3. i \in 1..Len(members[c])
  <2>1. \E j \in DOMAIN members[c] : members[c][j] = a
    BY <1>1 DEF Range
  <2>2. i \in DOMAIN members[c]
    BY <2>1
  <2> QED BY <1>2, <2>2
<1>4. ks.partial_key_servers \in Seq(Entry)
  BY <1>2 DEF KeyServers, KeyServerV2, Entry
<1>5. i \in 1..Len(ks.partial_key_servers)
  <2> HIDE DEF i
  <2>1. Len(ks.partial_key_servers) \in Nat
    BY <1>4, VectorProperties, Zenon
  <2> QED BY <1>1, <1>3, <2>1
<1> HIDE DEF i
<1>6. LET rs == new.partial_key_servers
          ps == ks.partial_key_servers
      IN  /\ new \in KeyServers
          /\ new.pk = ks.pk /\ new.version = ks.version /\ new.threshold = ks.threshold
          /\ Len(rs) = Len(ps)
          /\ \A j \in 1..Len(ps) :
               rs[j].name = ps[j].name /\ rs[j].partial_pk = ps[j].partial_pk
                 /\ rs[j].party_id = ps[j].party_id
  BY <1>2, <1>5, RelocatedKeyServer, Zenon
<1> HIDE DEF new
<1>7. key_server'[c] = new /\ \A d \in CommitteeId \ {c} : key_server'[d] = key_server[d]
  BY <1>1, DomainsOf
<1>8. SameRoster(c) /\ SameDkg(c) /\ state'[c] = state[c] /\ members_info'[c] = members_info[c]
  BY <1>1 DEF SameRoster, SameDkg
<1>9. OthersSame({c})
  BY <1>1, <1>7 DEF OthersSame, Same, SameRoster, SameDkg
<1> QED BY <1>2, <1>6, <1>7, <1>8, <1>9, Zenon DEF Relocates

LEMMA NextStepOf ==
  ASSUME TypeOK, RosterInv, [Next]_vars
  PROVE  StepOf
<1>1. ASSUME NEW a \in Address, NEW c \in CommitteeId, NEW t \in Threshold, NEW ms \in Roster,
             NEW cap \in Cap, init_committee(a, cap, c, t, ms)
      PROVE  StepOf
  <2>1. init_internal(c, t, ms, None)
    BY <1>1 DEF init_committee
  <2>2. Opens(c, None)
    BY <2>1, OpensStep
  <2> QED BY <2>2 DEF StepOf
<1>2. ASSUME NEW a \in Address, NEW c \in CommitteeId, NEW t \in Threshold, NEW ms \in Roster,
             NEW old \in CommitteeId, init_rotation(a, old, c, t, ms)
      PROVE  StepOf
  <2>1. init_internal(c, t, ms, old) /\ state[old] = "Finalized" /\ continuing_members(old, ms) >= threshold[old]
    BY <1>2 DEF init_rotation, is_finalized
  <2>2. Opens(c, old)
    BY <2>1, OpensStep
  <2> QED BY <2>2 DEF StepOf
<1>3. ASSUME NEW a \in Address, NEW c \in CommitteeId, RegisterStep(a, c)
      PROVE  StepOf
  <2>1. PICK name, url : register(a, c, name, url)
    BY <1>3, Zenon DEF RegisterStep
  <2>2. /\ state[c] = "Init"
        /\ UNCHANGED <<state, threshold, members, old_committee_id, proposal, approvals, endorsed, key_server>>
        /\ \A d \in CommitteeId \ {c} : members_info'[d] = members_info[d]
    BY <2>1, DomainsOf, Zenon DEF register, dkgVars
  <2>3. Registers(c)
    BY <2>2 DEF Registers, OthersSame, Same, SameRoster, SameDkg
  <2> QED BY <2>3 DEF StepOf
<1>4. ASSUME NEW a \in Address, NEW c \in CommitteeId, NEW p \in DkgInput, propose(a, c, p)
      PROVE  StepOf
  <2>1. p \in DkgOutput
    BY InputIsOutput
  <2> QED BY <1>4, <2>1, ProposeStepOf DEF StepOf
<1>5. ASSUME NEW a \in Address, NEW c \in CommitteeId, NEW old \in CommitteeId,
             NEW pp \in PartialPks, NEW h \in MessagesHash, propose_for_rotation(a, c, old, pp, h)
      PROVE  StepOf
  BY <1>5, RotationStepOf DEF StepOf
<1>6. ASSUME NEW a \in Address, NEW c \in CommitteeId, VoteStep(a, c)
      PROVE  StepOf
  <2>1. UNCHANGED <<stateVars, dkgVars, key_server>>
    BY <1>6, VoteFrame
  <2>2. OthersSame({})
    BY <2>1 DEF stateVars, dkgVars, OthersSame, Same, SameRoster, SameDkg
  <2> QED BY <2>2 DEF StepOf
<1>7. ASSUME NEW a \in Address, NEW c \in CommitteeId, NEW url \in Url, update_member_url(a, c, url)
      PROVE  StepOf
  BY <1>7, RelocatesStep DEF StepOf
<1>8. CASE UNCHANGED vars
  <2>1. OthersSame({})
    BY <1>8 DEF vars, stateVars, dkgVars, OthersSame, Same, SameRoster, SameDkg
  <2> QED BY <2>1 DEF StepOf
<1> QED BY <1>1, <1>2, <1>3, <1>4, <1>5, <1>6, <1>7, <1>8, ZenonT(30) DEF Next, CreateStep, ProposeStep

-----------------------------------------------------------------------------
\* propose_internal never replaces a recorded proposal or withdraws an approval, whatever
\* calls come in between.
THEOREM ProposalsAreFinal == Spec => ProposalIsFinal
<1> DEFINE Kept(c) == state[c] \in {"PostDKG", "Finalized"} =>
             /\ state'[c] # "Init"
             /\ proposal'[c] = proposal[c]
             /\ approvals[c] \subseteq approvals'[c]
<1>1. ASSUME TypeOK, RosterInv, [Next]_vars, NEW c \in CommitteeId
      PROVE  Kept(c)
  <2>0. StepOf
    BY <1>1, NextStepOf
  <2>1. ASSUME Same(c) PROVE Kept(c)
    BY <2>1 DEF Same, SameDkg
  <2>2. ASSUME NEW d \in CommitteeId, OthersSame({d}), d # c PROVE Kept(c)
    BY <2>1, <2>2 DEF OthersSame
  <2>3. ASSUME NEW old, Opens(c, old) PROVE Kept(c)
    BY <2>3, Zenon DEF Opens
  <2>4. ASSUME Registers(c) \/ Relocates(c) PROVE Kept(c)
    BY <2>4 DEF Registers, Relocates, SameDkg
  <2>5. ASSUME NEW a, NEW p, Submits(a, c, p), state'[c] # "Init" PROVE Kept(c)
    BY <2>5 DEF Submits
  <2>6. ASSUME NEW a, NEW p, NEW d \in CommitteeId, NEW old, Rotates(a, d, old, p) PROVE Kept(c)
    <3>1. CASE c = d
      BY <2>5, <2>6, <3>1, Zenon DEF Rotates
    <3>2. CASE c = old
      BY <2>6, <3>2, Zenon DEF Rotates, SameDkg
    <3>3. CASE c # d /\ c # old
      BY <2>1, <2>6, <3>3, ZenonT(30) DEF Rotates, OthersSame
    <3> QED BY <3>1, <3>2, <3>3, Zenon
  <2>7. ASSUME NEW a, NEW p, NEW d \in CommitteeId, Proposes(a, d, p) \/ Creates(a, d, p) PROVE Kept(c)
    BY <2>2, <2>5, <2>7 DEF Proposes, Creates
  <2>8. ASSUME NEW d \in CommitteeId, NEW old, Opens(d, old) PROVE Kept(c)
    BY <2>2, <2>3, <2>8 DEF Opens
  <2>9. ASSUME NEW d \in CommitteeId, Registers(d) \/ Relocates(d) PROVE Kept(c)
    <3>1. OthersSame({d})
      BY <2>9 DEF Registers, Relocates
    <3> HIDE DEF Kept
    <3>2. CASE d = c
      BY <2>4, <2>9, <3>2
    <3>3. CASE d # c
      BY <2>2, <3>1, <3>3
    <3> QED BY <3>2, <3>3, ZenonT(30)
  <2>10. ASSUME OthersSame({}) PROVE Kept(c)
    BY <2>1, <2>10 DEF OthersSame
  <2> HIDE DEF Kept
  <2> QED BY <2>0, <2>6, <2>7, <2>8, <2>9, <2>10 DEF StepOf
<1>2. TypeOK /\ RosterInv /\ [Next]_vars => [\A c \in CommitteeId : Kept(c)]_vars
  BY <1>1
<1> QED BY <1>2, TypeInvariant, PTL DEF Spec, ProposalIsFinal

\* A rotation whose old committee is gone never changes its state again:
\* check_rotation_consistency finds no finalized old committee, and propose refuses it.
THEOREM OrphansAreFrozen == Spec => OrphansFrozen
<1> DEFINE Orphan(c) == old_committee_id[c] # None /\ state[c] \in {"Init", "PostDKG"}
                          /\ state[old_committee_id[c]] = "Deleted"
<1>1. ASSUME TypeOK, RosterInv, [Next]_vars, NEW c \in CommitteeId, Orphan(c)
      PROVE  state'[c] = state[c]
  <2>0. StepOf
    BY <1>1, NextStepOf
  <2>1. ASSUME NEW D, OthersSame(D), c \notin D PROVE state'[c] = state[c]
    BY <2>1, Zenon DEF OthersSame, Same
  <2>2. ASSUME NEW d \in CommitteeId, NEW old, Opens(d, old) PROVE state'[c] = state[c]
    BY <1>1, <2>1, <2>2, Zenon DEF Opens
  <2>3. ASSUME NEW d \in CommitteeId, Registers(d) \/ Relocates(d) PROVE state'[c] = state[c]
    BY <1>1, <2>1, <2>3, Zenon DEF Registers, Relocates
  <2>4. ASSUME NEW a, NEW p, NEW d \in CommitteeId, Proposes(a, d, p) \/ Creates(a, d, p)
        PROVE  state'[c] = state[c]
    BY <1>1, <2>1, <2>4, ZenonT(30) DEF Proposes, Creates
  <2>5. ASSUME NEW a, NEW p, NEW d \in CommitteeId, NEW old, Rotates(a, d, old, p)
        PROVE  state'[c] = state[c]
    BY <1>1, <2>1, <2>5 DEF Rotates
  <2>6. ASSUME OthersSame({}) PROVE state'[c] = state[c]
    BY <2>1, <2>6
  <2> QED BY <2>0, <2>2, <2>3, <2>4, <2>5, <2>6, Zenon DEF StepOf
<1>2. TypeOK /\ RosterInv /\ [Next]_vars => [\A c \in CommitteeId : Orphan(c) => state'[c] = state[c]]_vars
  BY <1>1
<1> QED BY <1>2, TypeInvariant, PTL DEF Spec, OrphansFrozen

-----------------------------------------------------------------------------
\* The fields of the key server that try_finalize creates ...
LEMMA CreatedFields ==
  ASSUME NEW c, NEW t, NEW k, NEW q, NEW r, r = create_committee_v2(c, t, k, q)
  PROVE  r.pk = k /\ r.version = 0 /\ r.threshold = t /\ r.partial_key_servers = q
BY DEF create_committee_v2

\* ... and of the one that try_finalize_for_rotation hands on.
LEMMA RotatedFields ==
  ASSUME NEW ks, NEW t, NEW q, NEW r, r = update_partial_key_servers(ks, t, q)
  PROVE  r.pk = ks.pk /\ r.version = ks.version + 1 /\ r.threshold = t /\ r.partial_key_servers = q
BY DEF update_partial_key_servers

LEMMA AtLeast == \A x, y, z \in Nat : x >= y /\ x <= z => z >= y
OBVIOUS

LEMMA NextVersion ==
  ASSUME NEW pk, NEW v, NEW old, old = [pk |-> pk, version |-> v]
  PROVE  [pk |-> pk, version |-> v + 1] = [old EXCEPT !.version = @ + 1]
OBVIOUS

\* The key server of committee c carries the DKG output p and its members' registrations.
Carries(c, ks, p) ==
  /\ ks.pk = p.pk /\ ks.threshold = threshold[c]
  /\ Len(ks.partial_key_servers) = Len(members[c])
  /\ \A i \in 1..Len(members[c]) :
       /\ ks.partial_key_servers[i].partial_pk = p.partial_pks[i]
       /\ ks.partial_key_servers[i].party_id = i - 1
       /\ ks.partial_key_servers[i].name = members_info[c][members[c][i]].name

\* Who approved submitted the proposal, and a finalized committee has everyone's approval of
\* what its key server carries.
EndorsedBy(c) ==
  /\ state[c] \in {"Absent", "Init"} => approvals[c] = {}
  /\ approvals[c] \subseteq Range(members[c])
  /\ \A a \in approvals[c] : <<a, proposal[c]>> \in endorsed[c]
  /\ state[c] = "Finalized" => approvals[c] = Range(members[c]) /\ Carries(c, key_server[c], proposal[c])

EndorseInv == \A c \in CommitteeId : EndorsedBy(c)

\* What does not change stays endorsed.
LEMMA StaysEndorsed ==
  ASSUME NEW d \in CommitteeId, EndorsedBy(d), Same(d)
  PROVE  EndorsedBy(d)'
BY Zenon DEF EndorsedBy, Carries, Same, SameRoster, SameDkg

\* The approvals after a proposal.
LEMMA SubmitsEndorsed ==
  ASSUME NEW a, NEW c \in CommitteeId, NEW p, EndorsedBy(c), Submits(a, c, p)
  PROVE  /\ approvals'[c] \subseteq Range(members'[c])
         /\ \A x \in approvals'[c] : <<x, proposal'[c]>> \in endorsed'[c]
<1>1. /\ a \in Range(members[c]) /\ members'[c] = members[c]
      /\ proposal'[c] = p /\ approvals'[c] = approvals[c] \cup {a}
      /\ endorsed'[c] = endorsed[c] \cup {<<a, p>>}
      /\ state[c] \in {"Init", "PostDKG"} /\ (state[c] = "PostDKG" => p = proposal[c])
  BY DEF Submits, SameRoster
<1>2. approvals[c] \subseteq Range(members[c])
  BY Zenon DEF EndorsedBy
<1>3. \A x \in approvals[c] : <<x, p>> \in endorsed[c]
  BY <1>1, Zenon DEF EndorsedBy
<1> QED BY <1>1, <1>2, <1>3, Zenon

\* The last proposal: everyone has approved, and the new key server carries the proposal.
LEMMA FinalEndorsed ==
  ASSUME TypeOK, RosterInv, NEW a, NEW c \in CommitteeId, NEW p, EndorsedBy(c), Submits(a, c, p),
         state'[c] = "Finalized", AllApproved(c), key_server'[c].pk = p.pk,
         key_server'[c].threshold = threshold[c],
         key_server'[c].partial_key_servers = build_partial_key_servers(c, p.partial_pks)
  PROVE  EndorsedBy(c)'
<1>1. /\ approvals'[c] \subseteq Range(members'[c])
      /\ \A x \in approvals'[c] : <<x, proposal'[c]>> \in endorsed'[c]
  BY SubmitsEndorsed, Zenon
<1>2. /\ members'[c] = members[c] /\ threshold'[c] = threshold[c] /\ members_info'[c] = members_info[c]
      /\ proposal'[c] = p
  BY ZenonT(30) DEF Submits, SameRoster
<1>3. members[c] \in Seq(Address) /\ IsInjective(members[c])
  BY DEF TypeOK, CommitteeTypeOK, RosterInv
<1>4. approvals'[c] = Range(members[c])
  BY <1>1, <1>2, <1>3, AsManyMeansAll, Zenon DEF AllApproved
<1>5. LET b == build_partial_key_servers(c, p.partial_pks)
      IN  /\ Len(b) = Len(members[c])
          /\ \A i \in 1..Len(members[c]) :
               /\ b[i].partial_pk = p.partial_pks[i] /\ b[i].party_id = i - 1
               /\ b[i].name = members_info[c][members[c][i]].name
  <2>1. /\ DOMAIN members_info[c] = Range(members[c])
        /\ p.partial_pks \in Seq(PartialPk) /\ Len(p.partial_pks) = Len(members[c])
    BY DEF Submits, DkgOutput
  <2> QED BY <2>1, BuildEntries, ZenonT(30) DEF TypeOK
<1>6. Carries(c, key_server[c], proposal[c])'
  <2> DEFINE b == build_partial_key_servers(c, p.partial_pks)
  <2>1. /\ Len(b) = Len(members[c])
        /\ \A i \in 1..Len(members[c]) :
             /\ b[i].partial_pk = p.partial_pks[i] /\ b[i].party_id = i - 1
             /\ b[i].name = members_info[c][members[c][i]].name
    BY <1>5
  <2>2. key_server'[c].partial_key_servers = b
    OBVIOUS
  <2> HIDE DEF b
  <2> QED BY <1>2, <2>1, <2>2, ZenonT(30) DEF Carries
<1> QED BY <1>1, <1>2, <1>4, <1>6, Zenon DEF EndorsedBy

LEMMA EndorseNext ==
  ASSUME TypeOK, RosterInv, CustodyInv, EndorseInv, StepOf
  PROVE  EndorseInv'
<1> SUFFICES ASSUME NEW d \in CommitteeId PROVE EndorsedBy(d)'
  BY DEF EndorseInv
<1> DEFINE Goal == EndorsedBy(d)'
<1>0. EndorsedBy(d)
  BY DEF EndorseInv
<1>1. ASSUME NEW D, OthersSame(D), d \notin D PROVE Goal
  BY <1>0, <1>1, StaysEndorsed DEF OthersSame
<1>2. ASSUME NEW c \in CommitteeId, NEW old, Opens(c, old) PROVE Goal
  <2>1. CASE c = d
    <3>1. approvals'[d] = {} /\ state'[d] = "Init"
      BY <1>0, <1>2, <2>1, Zenon DEF Opens, SameDkg, EndorsedBy
    <3> QED BY <3>1, Zenon DEF EndorsedBy
  <2>2. CASE c # d
    BY <1>1, <1>2, <2>2 DEF Opens
  <2> QED BY <2>1, <2>2
<1>3. ASSUME NEW c \in CommitteeId, Registers(c) PROVE Goal
  <2>1. CASE c = d
    <3>1. approvals'[d] = {} /\ state'[d] = "Init"
      BY <1>0, <1>3, <2>1, Zenon DEF Registers, SameDkg, EndorsedBy
    <3> QED BY <3>1, Zenon DEF EndorsedBy
  <2>2. CASE c # d
    BY <1>1, <1>3, <2>2 DEF Registers
  <2> QED BY <2>1, <2>2
<1>4. ASSUME NEW c \in CommitteeId, Relocates(c) PROVE Goal
  <2>1. CASE c = d
    <3>1. /\ state'[d] = state[d] /\ SameRoster(d) /\ members_info'[d] = members_info[d] /\ SameDkg(d)
      BY <1>4, <2>1, Zenon DEF Relocates
    <3>2. ASSUME Carries(d, key_server[d], proposal[d])
          PROVE  Carries(d, key_server[d], proposal[d])'
      <4> DEFINE ps == key_server[d].partial_key_servers
                 rs == key_server'[d].partial_key_servers
                 n == Len(members[d])
      <4>1. /\ key_server'[d].pk = key_server[d].pk /\ key_server'[d].threshold = key_server[d].threshold
            /\ Len(rs) = Len(ps)
            /\ \A j \in 1..Len(ps) : /\ rs[j].name = ps[j].name /\ rs[j].partial_pk = ps[j].partial_pk
                                     /\ rs[j].party_id = ps[j].party_id
        BY <1>4, <2>1, Zenon DEF Relocates
      <4>2. /\ key_server[d].pk = proposal[d].pk /\ key_server[d].threshold = threshold[d] /\ Len(ps) = n
            /\ \A j \in 1..n : /\ ps[j].partial_pk = proposal[d].partial_pks[j] /\ ps[j].party_id = j - 1
                               /\ ps[j].name = members_info[d][members[d][j]].name
        BY <3>2, Zenon DEF Carries
      <4>3. \A j \in 1..n : /\ rs[j].partial_pk = proposal[d].partial_pks[j] /\ rs[j].party_id = j - 1
                            /\ rs[j].name = members_info[d][members[d][j]].name
        BY <4>1, <4>2, Zenon
      <4>4. /\ members'[d] = members[d] /\ threshold'[d] = threshold[d]
            /\ members_info'[d] = members_info[d] /\ proposal'[d] = proposal[d]
        BY <3>1, Zenon DEF SameRoster, SameDkg
      <4> QED BY <4>1, <4>2, <4>3, <4>4, ZenonT(30) DEF Carries
    <3> QED BY <1>0, <3>1, <3>2, Zenon DEF EndorsedBy, SameRoster, SameDkg
  <2>2. CASE c # d
    BY <1>1, <1>4, <2>2 DEF Relocates
  <2> QED BY <2>1, <2>2, Zenon
<1>5. ASSUME NEW a, NEW p, NEW c \in CommitteeId, Proposes(a, c, p) PROVE Goal
  <2>1. CASE c = d
    <3>1. Submits(a, d, p) /\ state'[d] = "PostDKG"
      BY <1>5, <2>1, Zenon DEF Proposes
    <3> QED BY <1>0, <3>1, SubmitsEndorsed, Zenon DEF EndorsedBy
  <2>2. CASE c # d
    BY <1>1, <1>5, <2>2 DEF Proposes
  <2> QED BY <2>1, <2>2, Zenon
<1>6. ASSUME NEW a, NEW p, NEW c \in CommitteeId, Creates(a, c, p) PROVE Goal
  <2>1. CASE c = d
    <3> DEFINE b == build_partial_key_servers(d, p.partial_pks)
    <3>1. /\ Submits(a, d, p) /\ state'[d] = "Finalized" /\ AllApproved(d)
          /\ key_server'[d] = create_committee_v2(d, threshold[d], p.pk, b)
      BY <1>6, <2>1, Zenon DEF Creates
    <3> HIDE DEF b
    <3>3. /\ key_server'[d].pk = p.pk /\ key_server'[d].threshold = threshold[d]
          /\ key_server'[d].partial_key_servers = b
      <4> DEFINE new == key_server'[d]
                 t == threshold[d]
      <4>1. new = create_committee_v2(d, t, p.pk, b)
        BY <3>1
      <4> HIDE DEF new, t
      <4>2. new.pk = p.pk /\ new.threshold = t /\ new.partial_key_servers = b
        BY <4>1, CreatedFields
      <4> QED BY <4>2, Zenon DEF new, t
    <3> QED BY <1>0, <3>1, <3>3, FinalEndorsed, Zenon DEF b
  <2>2. CASE c # d
    BY <1>1, <1>6, <2>2 DEF Creates
  <2> QED BY <2>1, <2>2, Zenon
<1>7. ASSUME NEW a, NEW p, NEW c \in CommitteeId, NEW old \in CommitteeId, Rotates(a, c, old, p) PROVE Goal
  <2>1. CASE c = d
    <3> DEFINE b == build_partial_key_servers(d, p.partial_pks)
               ks == key_server[old]
    <3>1. /\ Submits(a, d, p) /\ state'[d] = "Finalized" /\ AllApproved(d)
          /\ ks \in KeyServers /\ p.pk = ks.pk
          /\ key_server'[d] = update_partial_key_servers(ks, threshold[d], b)
      BY <1>7, <2>1, Zenon DEF Rotates
    <3> HIDE DEF b
    <3>3. /\ key_server'[d].pk = p.pk /\ key_server'[d].threshold = threshold[d]
          /\ key_server'[d].partial_key_servers = b
      <4> DEFINE new == key_server'[d]
                 t == threshold[d]
      <4>1. new = update_partial_key_servers(ks, t, b) /\ p.pk = ks.pk
        BY <3>1, Zenon
      <4> HIDE DEF ks, new, t
      <4>2. new.pk = p.pk /\ new.threshold = t /\ new.partial_key_servers = b
        BY <4>1, RotatedFields
      <4> QED BY <4>2, Zenon DEF new, t
    <3> QED BY <1>0, <3>1, <3>3, FinalEndorsed, Zenon DEF b
  <2>2. CASE d = old
    <3>1. state'[d] = "Deleted" /\ SameRoster(d) /\ SameDkg(d)
      BY <1>7, <2>2, Zenon DEF Rotates
    <3> QED BY <1>0, <3>1, Zenon DEF EndorsedBy, SameRoster, SameDkg
  <2>3. CASE d # c /\ d # old
    BY <1>1, <1>7, <2>3 DEF Rotates
  <2> QED BY <2>1, <2>2, <2>3, Zenon
<1>8. ASSUME OthersSame({}) PROVE Goal
  BY <1>1, <1>8
<1> HIDE DEF Goal
<1>9. Goal
  BY <1>2, <1>3, <1>4, <1>5, <1>6, <1>7, <1>8, Zenon DEF StepOf
<1> QED BY <1>9 DEF Goal

\* Whatever a finalized committee's key server carries, every one of its members submitted:
\* propose_internal compares each proposal with the first, and build_partial_key_servers puts
\* each member's partial key and name at the member's place.
THEOREM MaterialIsEndorsed == Spec => []KeyMaterialEndorsed
<1>1. Init => EndorseInv
  BY DEF Init, EndorseInv, EndorsedBy
<1>2. TypeOK /\ RosterInv /\ CustodyInv /\ EndorseInv /\ [Next]_vars => EndorseInv'
  BY NextStepOf, EndorseNext, ZenonT(30)
<1>3. ASSUME TypeOK, RosterInv, EndorseInv PROVE KeyMaterialEndorsed
  <2> SUFFICES ASSUME NEW c \in CommitteeId, state[c] = "Finalized"
               PROVE  LET ks == key_server[c]
                          n == Len(members[c])
                      IN  /\ Len(ks.partial_key_servers) = n
                          /\ ks.threshold = threshold[c] /\ ks.threshold \in 2..n
                          /\ \A i \in 1..n :
                               /\ \E e \in endorsed[c] :
                                    /\ e[1] = members[c][i]
                                    /\ e[2].pk = ks.pk
                                    /\ \A j \in 1..n : e[2].partial_pks[j] = ks.partial_key_servers[j].partial_pk
                               /\ ks.partial_key_servers[i].party_id = i - 1
                               /\ ks.partial_key_servers[i].name = members_info[c][members[c][i]].name
    BY ZenonT(30) DEF KeyMaterialEndorsed
  <2> DEFINE ks == key_server[c]
             n == Len(members[c])
  <2>1. Carries(c, ks, proposal[c]) /\ approvals[c] = Range(members[c])
    BY <1>3, Zenon DEF EndorseInv, EndorsedBy
  <2>2. /\ members[c] \in Seq(Address) /\ threshold[c] \in Nat /\ n \in Nat /\ DOMAIN members[c] = 1..n
        /\ threshold[c] > 1 /\ threshold[c] <= n
    BY <1>3, VectorProperties, ZenonT(30) DEF TypeOK, CommitteeTypeOK, RosterInv
  <2>3. threshold[c] \in 2..n
    BY <2>2
  <2>4. ASSUME NEW i \in 1..n
        PROVE  \E e \in endorsed[c] :
                 /\ e[1] = members[c][i]
                 /\ e[2].pk = ks.pk
                 /\ \A j \in 1..n : e[2].partial_pks[j] = ks.partial_key_servers[j].partial_pk
    <3>1. members[c][i] \in approvals[c]
      BY <2>1, <2>2, Zenon DEF Range
    <3>2. <<members[c][i], proposal[c]>> \in endorsed[c]
      BY <1>3, <3>1, Zenon DEF EndorseInv, EndorsedBy
    <3>3. /\ proposal[c].pk = ks.pk
          /\ \A j \in 1..n : proposal[c].partial_pks[j] = ks.partial_key_servers[j].partial_pk
      BY <2>1, ZenonT(30) DEF Carries
    <3> WITNESS <<members[c][i], proposal[c]>> \in endorsed[c]
    <3> QED BY <3>3, Zenon
  <2> QED BY <2>1, <2>3, <2>4 DEF Carries
<1> QED BY <1>1, <1>2, <1>3, CustodyInvariant, PTL DEF Spec

-----------------------------------------------------------------------------
\* A committee's roster never changes, and only the init functions bring a committee about.
LEMMA RostersKept ==
  ASSUME StepOf, NEW d \in CommitteeId
  PROVE  /\ state[d] # "Absent" => SameRoster(d) /\ state'[d] # "Absent"
         /\ state[d] = "Absent" /\ state'[d] # "Absent" =>
              \E old \in CommitteeId \cup {None} : Opens(d, old)
<1> DEFINE Goal == /\ state[d] # "Absent" => SameRoster(d) /\ state'[d] # "Absent"
                   /\ state[d] = "Absent" /\ state'[d] # "Absent" =>
                        \E old \in CommitteeId \cup {None} : Opens(d, old)
<1>1. ASSUME NEW D, OthersSame(D), d \notin D PROVE Goal
  BY <1>1, Zenon DEF OthersSame, Same
<1>2. ASSUME NEW c \in CommitteeId, NEW old \in CommitteeId \cup {None}, Opens(c, old) PROVE Goal
  <2>1. CASE c = d
    BY <1>2, <2>1, Zenon DEF Opens
  <2>2. CASE c # d
    BY <1>1, <1>2, <2>2, Zenon DEF Opens
  <2> QED BY <2>1, <2>2, Zenon
<1>3. ASSUME NEW c \in CommitteeId, Registers(c) \/ Relocates(c) PROVE Goal
  BY <1>1, <1>3, ZenonT(30) DEF Registers, Relocates
<1>4. ASSUME NEW a, NEW p, NEW c \in CommitteeId, Proposes(a, c, p) \/ Creates(a, c, p) PROVE Goal
  BY <1>1, <1>4 DEF Proposes, Creates, Submits
<1>5. ASSUME NEW a, NEW p, NEW c \in CommitteeId, NEW old, Rotates(a, c, old, p) PROVE Goal
  BY <1>1, <1>5, ZenonT(30) DEF Rotates, Submits
<1>6. ASSUME OthersSame({}) PROVE Goal
  BY <1>1, <1>6
<1> HIDE DEF Goal
<1>7. Goal
  BY <1>2, <1>3, <1>4, <1>5, <1>6, Zenon DEF StepOf
<1> QED BY <1>7, Zenon DEF Goal

\* A rotation keeps a quorum of the old committee, as init_rotation checked: neither roster
\* has changed since.
KeepsQuorum ==
  \A c \in CommitteeId : state[c] # "Absent" /\ old_committee_id[c] # None =>
    /\ state[old_committee_id[c]] # "Absent"
    /\ continuing_members(old_committee_id[c], members[c]) >= threshold[old_committee_id[c]]

LEMMA KeepsQuorumNext ==
  ASSUME TypeOK, KeepsQuorum, StepOf
  PROVE  KeepsQuorum'
<1> SUFFICES ASSUME NEW c \in CommitteeId, state'[c] # "Absent", old_committee_id'[c] # None
             PROVE  /\ state'[old_committee_id'[c]] # "Absent"
                    /\ (continuing_members(old_committee_id[c], members[c])
                          >= threshold[old_committee_id[c]])'
  BY DEF KeepsQuorum
<1> DEFINE old == old_committee_id'[c]
<1>1. /\ old \in CommitteeId /\ state[old] # "Absent"
      /\ continuing_members(old, members'[c]) >= threshold[old]
  <2>1. CASE state[c] # "Absent"
    BY <2>1, RostersKept, Zenon DEF SameRoster, KeepsQuorum, TypeOK, CommitteeTypeOK
  <2>2. CASE state[c] = "Absent"
    <3>1. PICK o \in CommitteeId \cup {None} : Opens(c, o)
      BY <2>2, RostersKept, Zenon
    <3> QED BY <3>1 DEF Opens
  <2> QED BY <2>1, <2>2, Zenon
<1>2. SameRoster(old) /\ state'[old] # "Absent"
  BY <1>1, RostersKept, Zenon
<1>3. (continuing_members(old_committee_id[c], members[c]))' = continuing_members(old, members'[c])
  BY <1>2 DEF continuing_members, IsMember, SameRoster
<1> QED BY <1>1, <1>2, <1>3, Zenon DEF SameRoster

\* The custodian's key, roster and quorum.
LEMMA Holder ==
  ASSUME OneFinalized, NEW c \in CommitteeId, state[c] = "Finalized"
  PROVE  /\ custody_key = [pk |-> key_server[c].pk, version |-> key_server[c].version]
         /\ custody_roster = Range(members[c]) /\ custody_quorum = threshold[c]
<1>1. Custodian = {c}
  BY DEF Custodian, OneFinalized
<1>2. (CHOOSE d \in Custodian : TRUE) = c /\ Custodian # {}
  BY <1>1
<1> QED BY <1>2, ZenonT(30) DEF custody_key, custody_roster, custody_quorum

LEMMA HolderNext ==
  ASSUME OneFinalized', NEW c \in CommitteeId, state'[c] = "Finalized"
  PROVE  /\ custody_key' = [pk |-> key_server'[c].pk, version |-> key_server'[c].version]
         /\ custody_roster' = Range(members'[c]) /\ custody_quorum' = threshold'[c]
<1>1. Custodian' = {c}
  BY DEF Custodian, OneFinalized
<1>2. (CHOOSE d \in Custodian' : TRUE) = c /\ Custodian' # {}
  BY <1>1, Zenon
<1> QED BY <1>2, ZenonT(30) DEF custody_key, custody_roster, custody_quorum

LEMMA NoHolder ==
  ASSUME \A c \in CommitteeId : state[c] # "Finalized"
  PROVE  custody_key = None /\ custody_roster = {} /\ custody_quorum = 0
BY DEF Custodian, custody_key, custody_roster, custody_quorum

LEMMA NoHolderNext ==
  ASSUME \A c \in CommitteeId : state'[c] # "Finalized"
  PROVE  custody_key' = None /\ custody_roster' = {} /\ custody_quorum' = 0
BY DEF Custodian, custody_key, custody_roster, custody_quorum

\* When no committee is finalized or replaced, the custodian's part is as before.
LEMMA SameCustody ==
  ASSUME OneFinalized, OneFinalized',
         \A c \in CommitteeId : /\ state[c] = "Finalized" <=> state'[c] = "Finalized"
                                /\ state[c] = "Finalized" =>
                                     /\ members'[c] = members[c] /\ threshold'[c] = threshold[c]
                                     /\ key_server'[c].pk = key_server[c].pk
                                     /\ key_server'[c].version = key_server[c].version
  PROVE  UNCHANGED <<custody_key, custody_roster, custody_quorum>>
<1>1. CASE \E c \in CommitteeId : state[c] = "Finalized"
  <2>1. PICK c \in CommitteeId : state[c] = "Finalized"
    BY <1>1
  <2>2. state'[c] = "Finalized"
    BY <2>1
  <2> QED BY <2>1, <2>2, Holder, HolderNext
<1>2. CASE \A c \in CommitteeId : state[c] # "Finalized"
  BY <1>2, NoHolder, NoHolderNext, ZenonT(30)
<1> QED BY <1>1, <1>2, Zenon

\* The members of a roster that another one has, counted by position and as a set.
LEMMA ContinuingMembers ==
  ASSUME NEW ms \in Seq(Address), IsInjective(ms), NEW old \in CommitteeId, members[old] \in Seq(Address)
  PROVE  /\ continuing_members(old, ms) \in Nat
         /\ Cardinality(Range(members[old]) \cap Range(ms)) \in Nat
         /\ continuing_members(old, ms) <= Cardinality(Range(members[old]) \cap Range(ms))
<1> DEFINE R == Range(members[old])
           I == {i \in DOMAIN ms : ms[i] \in R}
           f == [i \in I |-> ms[i]]
<1>1. IsFiniteSet(Range(ms))
  BY RangeOfInjectiveSeq
<1>2. IsFiniteSet(R \cap Range(ms)) /\ Cardinality(R \cap Range(ms)) \in Nat
  BY <1>1, FS_Subset, FS_CardinalityType, ZenonT(30)
<1>3. f \in [I -> R \cap Range(ms)] /\ \A i, j \in I : f[i] = f[j] => i = j
  BY DEF Range, IsInjective
<1> HIDE DEF f
<1>4. f \in Injection(I, R \cap Range(ms))
  BY <1>3, Zenon DEF Injection, IsInjective
<1>5. IsFiniteSet(I) /\ Cardinality(I) <= Cardinality(R \cap Range(ms))
  BY <1>2, <1>4, FS_Injection, ZenonT(30)
<1>6. continuing_members(old, ms) = Cardinality(I)
  BY DEF continuing_members, IsMember
<1> QED BY <1>2, <1>5, <1>6, FS_CardinalityType, Zenon

\* KeyCustody counts as this module does.
LEMMA SameCardinality == \A S : Custody!Cardinality(S) = Cardinality(S)
BY Zenon DEF Custody!Cardinality, Cardinality

LEMMA HoldersOf ==
  ASSUME TypeOK, RosterInv, NEW c \in CommitteeId, state[c] # "Absent"
  PROVE  Custody!NewHolders(Range(members[c]), threshold[c])
<1>1. /\ members[c] \in Seq(Address) /\ IsInjective(members[c])
      /\ threshold[c] > 1 /\ threshold[c] <= Len(members[c])
  BY DEF TypeOK, CommitteeTypeOK, RosterInv
<1>2. Cardinality(Range(members[c])) = Len(members[c]) /\ Range(members[c]) \subseteq Address
  BY <1>1, RangeOfInjectiveSeq, Zenon
<1> QED BY <1>1, <1>2, SameCardinality, ZenonT(30) DEF Custody!NewHolders

\* try_finalize is the creation of the key.
LEMMA CreatesKey ==
  ASSUME TypeOK, RosterInv, CustodyInv, OneFinalized', NEW a \in Address, NEW c \in CommitteeId,
         NEW p \in DkgOutput, Creates(a, c, p)
  PROVE  Custody!Create
<1>1. /\ Submits(a, c, p) /\ Fresh(c) /\ ~Settled(c) /\ state'[c] = "Finalized"
      /\ members'[c] = members[c] /\ threshold'[c] = threshold[c]
  BY ZenonT(30) DEF Creates, Submits, SameRoster, Fresh, Settled
<1>2. \A d \in CommitteeId : state[d] # "Finalized"
  BY <1>1, ZenonT(30) DEF CustodyInv, LineageInv, FreshSettlesFirst, Settled
<1>3. custody_key = None
  BY <1>2, NoHolder
<1> DEFINE b == build_partial_key_servers(c, p.partial_pks)
<1>4. p.pk \in Pk
  BY DEF DkgOutput
<1>5. key_server'[c] = create_committee_v2(c, threshold[c], p.pk, b)
  BY ZenonT(30) DEF Creates
<1> HIDE DEF b
<1>6. key_server'[c].pk = p.pk /\ key_server'[c].version = 0
  <2> DEFINE new == key_server'[c]
             t == threshold[c]
  <2>1. new = create_committee_v2(c, t, p.pk, b)
    BY <1>5, Zenon
  <2> HIDE DEF new, t
  <2>2. new.pk = p.pk /\ new.version = 0
    BY <2>1, CreatedFields
  <2> QED BY <2>2, Zenon DEF new
<1>7. custody_key' = [pk |-> p.pk, version |-> 0] /\ custody_roster' = Range(members[c])
      /\ custody_quorum' = threshold[c]
  BY <1>1, <1>6, HolderNext, Zenon
<1>8. Custody!NewHolders(Range(members[c]), threshold[c])
  BY <1>1, HoldersOf, Zenon DEF Fresh
<1> QED BY <1>3, <1>4, <1>7, <1>8, Zenon DEF Custody!Create

\* try_finalize_for_rotation is a rotation of it.
LEMMA RotatesKey ==
  ASSUME TypeOK, RosterInv, CustodyInv, KeepsQuorum, OneFinalized', NEW a \in Address,
         NEW c \in CommitteeId, NEW old \in CommitteeId, NEW p \in DkgOutput, Rotates(a, c, old, p)
  PROVE  Custody!Rotate
<1> DEFINE ks == key_server[old]
           b == build_partial_key_servers(c, p.partial_pks)
<1>1. /\ Submits(a, c, p) /\ state'[c] = "Finalized" /\ state[old] = "Finalized" /\ state[c] # "Absent"
      /\ old_committee_id[c] = old /\ members'[c] = members[c] /\ threshold'[c] = threshold[c]
      /\ ks \in KeyServers /\ key_server'[c] = update_partial_key_servers(ks, threshold[c], b)
  BY ZenonT(30) DEF Rotates, Submits, SameRoster
<1> HIDE DEF b
<1>3. key_server'[c].pk = ks.pk /\ key_server'[c].version = ks.version + 1
  <2> DEFINE new == key_server'[c]
             t == threshold[c]
  <2>1. new = update_partial_key_servers(ks, t, b)
    BY <1>1, ZenonT(30)
  <2> HIDE DEF ks, new, t
  <2>2. new.pk = ks.pk /\ new.version = ks.version + 1
    BY <2>1, RotatedFields
  <2> QED BY <2>2 DEF new
<1>4. /\ custody_key = [pk |-> ks.pk, version |-> ks.version] /\ custody_roster = Range(members[old])
      /\ custody_quorum = threshold[old]
  BY <1>1, Holder DEF CustodyInv, SingleCustodian
<1>5. /\ custody_key' = [pk |-> ks.pk, version |-> ks.version + 1] /\ custody_roster' = Range(members[c])
      /\ custody_quorum' = threshold[c]
  BY <1>1, <1>3, HolderNext, ZenonT(30)
<1>6. custody_key # None
  <2>0. ks \in KeyServers
    BY <1>1, ZenonT(30)
  <2> HIDE DEF ks
  <2>1. ks.pk \in Pk /\ ks.version \in Nat
    BY <2>0, ZenonT(30) DEF KeyServers, KeyServerV2
  <2>2. [pk |-> ks.pk, version |-> ks.version] \in [pk : Pk, version : Nat]
    BY <2>1
  <2> QED BY <1>4, <2>2, NoneIsAbsent, ZenonT(30)
<1>7. custody_key' = [custody_key EXCEPT !.version = @ + 1]
  BY <1>4, <1>5, NextVersion
<1>8. Cardinality(custody_roster \cap custody_roster') >= custody_quorum
  <2>1. /\ members[c] \in Seq(Address) /\ members[old] \in Seq(Address) /\ IsInjective(members[c])
        /\ threshold[old] \in Nat
    BY ZenonT(30) DEF TypeOK, CommitteeTypeOK, RosterInv
  <2>2. continuing_members(old, members[c]) >= threshold[old]
    BY <1>1, ConstantTypes DEF KeepsQuorum
  <2>3. /\ continuing_members(old, members[c]) \in Nat
        /\ Cardinality(Range(members[old]) \cap Range(members[c])) \in Nat
        /\ continuing_members(old, members[c]) <= Cardinality(Range(members[old]) \cap Range(members[c]))
    BY <2>1, ContinuingMembers, ZenonT(40)
  <2>4. Cardinality(Range(members[old]) \cap Range(members[c])) >= threshold[old]
    BY <2>1, <2>2, <2>3, AtLeast, ZenonT(30)
  <2> QED BY <1>4, <1>5, <2>4, Zenon
<1>9. Custody!NewHolders(custody_roster', custody_quorum')
  BY <1>1, <1>5, HoldersOf, ZenonT(30)
<1> QED BY <1>6, <1>7, <1>8, <1>9, SameCardinality, Zenon DEF Custody!Rotate

\* The committees implement KeyCustody: any sequence of calls on any number of committees
\* is one key, created once, with one public key for ever, handed on one version at a time to
\* a roster with a quorum of the previous one.
THEOREM ImplementsCustody == Spec => CustodySpec
<1>1. Init => Custody!Init /\ KeepsQuorum
  <2> SUFFICES ASSUME Init PROVE Custody!Init /\ KeepsQuorum
    OBVIOUS
  <2>1. \A c \in CommitteeId : state[c] = "Absent"
    BY DEF Init
  <2> QED BY <2>1, NoHolder DEF Custody!Init, KeepsQuorum
<1>2. ASSUME TypeOK, RosterInv, CustodyInv, KeepsQuorum, [Next]_vars
      PROVE  [Custody!Next]_<<custody_key, custody_roster, custody_quorum>> /\ KeepsQuorum'
  <2> DEFINE Goal == [Custody!Next]_<<custody_key, custody_roster, custody_quorum>>
  <2>0. StepOf /\ KeepsQuorum'
    BY <1>2, NextStepOf, KeepsQuorumNext
  <2>1. OneFinalized /\ OneFinalized'
    BY <1>2, CustodyNext, Zenon DEF CustodyInv, SingleCustodian
  <2>2. ASSUME \A c \in CommitteeId :
                 /\ state[c] = "Finalized" <=> state'[c] = "Finalized"
                 /\ state[c] = "Finalized" =>
                      /\ members'[c] = members[c] /\ threshold'[c] = threshold[c]
                      /\ key_server'[c].pk = key_server[c].pk
                      /\ key_server'[c].version = key_server[c].version
        PROVE  Goal
    BY <2>1, <2>2, SameCustody, ZenonT(30)
  <2>3. ASSUME OthersSame({}) PROVE Goal
    BY <2>2, <2>3 DEF OthersSame, Same, SameRoster
  <2>4. ASSUME NEW c \in CommitteeId, NEW old, Opens(c, old) PROVE Goal
    BY <2>2, <2>4 DEF Opens, OthersSame, Same, SameRoster
  <2>5. ASSUME NEW c \in CommitteeId, Registers(c) PROVE Goal
    BY <2>2, <2>5, ZenonT(30) DEF Registers, OthersSame, Same, SameRoster
  <2>6. ASSUME NEW c \in CommitteeId, Relocates(c) PROVE Goal
    BY <2>2, <2>6 DEF Relocates, OthersSame, Same, SameRoster
  <2>7. ASSUME NEW a, NEW p, NEW c \in CommitteeId, Proposes(a, c, p) PROVE Goal
    BY <2>2, <2>7 DEF Proposes, Submits, OthersSame, Same, SameRoster
  <2>8. ASSUME NEW a \in Address, NEW c \in CommitteeId, NEW p \in DkgOutput, Creates(a, c, p) PROVE Goal
    BY <1>2, <2>1, <2>8, CreatesKey, Zenon DEF Custody!Next
  <2>9. ASSUME NEW a \in Address, NEW c \in CommitteeId, NEW p \in DkgOutput, NEW old \in CommitteeId,
               Rotates(a, c, old, p)
        PROVE  Goal
    BY <1>2, <2>1, <2>9, RotatesKey, ZenonT(30) DEF Custody!Next
  <2> HIDE DEF Goal
  <2>10. Goal
    BY <2>0, <2>3, <2>4, <2>5, <2>6, <2>7, <2>8, <2>9, ZenonT(30) DEF StepOf
  <2> QED BY <2>0, <2>10 DEF Goal
<1> QED BY <1>1, <1>2, CustodyInvariant, PTL DEF Spec, CustodySpec, Custody!Spec

=============================================================================
