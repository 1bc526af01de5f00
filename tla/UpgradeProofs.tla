---------------------------- MODULE UpgradeProofs ----------------------------
(***************************************************************************)
(* Votes on package upgrades: pending proposals are current, authorized    *)
(* upgrades had their quorum, and no version is authorized twice, for any  *)
(* number of committees, members and rotations.                            *)
(***************************************************************************)
EXTENDS SealCommitteeProofs

-----------------------------------------------------------------------------
\* What a call does to the upgrade manager.

\* Committees stay what they are.
RosterKept ==
  \A d \in CommitteeId : state[d] # "Absent" =>
    state'[d] # "Absent" /\ members'[d] = members[d] /\ threshold'[d] = threshold[d]

StaysFinal(d) == state[d] = "Finalized" => state'[d] = "Finalized"

\* Nothing.
Kept == UNCHANGED <<upgrade_manager, upgradeVars>> /\ RosterKept /\ \A d \in CommitteeId : StaysFinal(d)

\* init_committee
Opened(c) ==
  /\ PackageCap \in free_caps
  /\ upgrade_manager' = [upgrade_manager EXCEPT ![c] = [cap_version |-> 1, upgrade_proposal |-> None]]
  /\ UNCHANGED upgradeVars /\ RosterKept /\ \A d \in CommitteeId : StaysFinal(d)

\* try_finalize_for_rotation with the last approval
Moved(c, old) ==
  /\ old # c /\ upgrade_manager[old] # None
  /\ upgrade_manager' = [upgrade_manager EXCEPT ![old] = None,
                                                ![c] = WithProposal(upgrade_manager[old], None)]
  /\ UNCHANGED upgradeVars /\ RosterKept /\ \A d \in CommitteeId \ {old} : StaysFinal(d)

ManagerStep ==
  \/ Kept
  \/ \E c \in CommitteeId : Opened(c)
  \/ \E c, old \in CommitteeId : Moved(c, old)
  \/ \E a \in Address, c \in CommitteeId : VoteStep(a, c)

\* A vote leaves the upgrade cap alone.
LEMMA VoteKeepsCap ==
  \A um, prop : WithProposal(um, prop).cap_version = um.cap_version
BY DEF WithProposal

\* The fields of Committee are functions on the committee ids.
LEMMA CommitteeDomains ==
  ASSUME TypeOK
  PROVE  /\ DOMAIN state = CommitteeId /\ DOMAIN threshold = CommitteeId /\ DOMAIN members = CommitteeId
         /\ DOMAIN upgrade_manager = CommitteeId
BY DEF TypeOK, CommitteeTypeOK, UpgradeTypeOK

\* A new committee leaves the others alone.
LEMMA InitKeeps ==
  ASSUME TypeOK, NEW c \in CommitteeId, NEW t, NEW ms, NEW old, init_internal(c, t, ms, old)
  PROVE  UNCHANGED upgradeVars /\ RosterKept /\ \A d \in CommitteeId : StaysFinal(d)
BY CommitteeDomains DEF init_internal, RosterKept, StaysFinal

\* Every call is one of these.
LEMMA NextManagerStep ==
  ASSUME TypeOK, [Next]_vars
  PROVE  ManagerStep
<1>1. ASSUME NEW a \in Address, NEW c \in CommitteeId, NEW t \in Threshold, NEW ms \in Roster,
             NEW cap \in Cap, init_committee(a, cap, c, t, ms)
      PROVE  ManagerStep
  <2>1. init_internal(c, t, ms, None) /\ PackageCap \in free_caps
    BY <1>1 DEF init_committee, OwnCap
  <2>2. UNCHANGED upgradeVars /\ RosterKept /\ \A d \in CommitteeId : StaysFinal(d)
    BY <2>1, InitKeeps
  <2>3. Opened(c)
    BY <1>1, <2>1, <2>2 DEF Opened, init_committee
  <2> QED BY <2>3 DEF ManagerStep
<1>2. ASSUME NEW a \in Address, NEW c \in CommitteeId, NEW t \in Threshold, NEW ms \in Roster,
             NEW old \in CommitteeId, init_rotation(a, old, c, t, ms)
      PROVE  ManagerStep
  <2>1. init_internal(c, t, ms, old) /\ UNCHANGED upgrade_manager
    BY <1>2 DEF init_rotation
  <2>2. UNCHANGED upgradeVars /\ RosterKept /\ \A d \in CommitteeId : StaysFinal(d)
    BY <2>1, InitKeeps
  <2>3. Kept
    BY <2>1, <2>2 DEF Kept
  <2> QED BY <2>3 DEF ManagerStep
<1>3. ASSUME NEW a \in Address, NEW c \in CommitteeId, RegisterStep(a, c)
      PROVE  ManagerStep
  <2>1. UNCHANGED <<state, threshold, members, upgrade_manager, upgradeVars>>
    BY <1>3 DEF RegisterStep, register
  <2>2. Kept
    BY <2>1 DEF Kept, RosterKept, StaysFinal
  <2> QED BY <2>2 DEF ManagerStep
<1>4. ASSUME NEW a \in Address, NEW c \in CommitteeId, NEW p \in DkgInput, propose(a, c, p)
      PROVE  ManagerStep
  <2>1. UNCHANGED <<threshold, members, upgrade_manager, upgradeVars>>
    BY <1>4 DEF propose
  <2>2. state[c] \in {"Init", "PostDKG"}
    BY <1>4 DEF propose, propose_internal, ProposalFits
  <2>3. state' = [state EXCEPT ![c] = "PostDKG"] \/ state' = [state EXCEPT ![c] = "Finalized"]
    BY <1>4 DEF propose, try_finalize
  <2>4. \A d \in CommitteeId : StaysFinal(d) /\ (state[d] # "Absent" => state'[d] # "Absent")
    BY <2>2, <2>3, CommitteeDomains DEF StaysFinal
  <2>5. Kept
    BY <2>1, <2>4 DEF Kept, RosterKept
  <2> QED BY <2>5 DEF ManagerStep
<1>5. ASSUME NEW a \in Address, NEW c \in CommitteeId, NEW old \in CommitteeId,
             NEW pp \in PartialPks, NEW h \in MessagesHash, propose_for_rotation(a, c, old, pp, h)
      PROVE  ManagerStep
  <2> DEFINE p == [partial_pks |-> pp, pk |-> key_server[old].pk, messages_hash |-> h]
  <2>1. /\ UNCHANGED <<threshold, members, upgradeVars>> /\ state[old] = "Finalized"
        /\ propose_internal(a, c, p) /\ try_finalize_for_rotation(c, old, p)
    BY <1>5 DEF propose_for_rotation, check_rotation_consistency, is_finalized
  <2> HIDE DEF p
  <2>2. state[c] \in {"Init", "PostDKG"} /\ old # c
    BY <2>1 DEF propose_internal, ProposalFits
  <2>3. CASE ~AllApproved(c)
    <3>1. state' = [state EXCEPT ![c] = "PostDKG"] /\ UNCHANGED upgrade_manager
      BY <2>1, <2>3 DEF try_finalize_for_rotation
    <3>2. \A d \in CommitteeId : StaysFinal(d) /\ (state[d] # "Absent" => state'[d] # "Absent")
      BY <2>2, <3>1, CommitteeDomains DEF StaysFinal
    <3>3. Kept
      BY <2>1, <3>1, <3>2 DEF Kept, RosterKept
    <3> QED BY <3>3 DEF ManagerStep
  <2>4. CASE AllApproved(c)
    <3>1. /\ state' = [state EXCEPT ![old] = "Deleted", ![c] = "Finalized"]
          /\ upgrade_manager[old] # None
          /\ upgrade_manager' = [upgrade_manager EXCEPT ![old] = None,
                                   ![c] = WithProposal(upgrade_manager[old], None)]
      BY <2>1, <2>4 DEF try_finalize_for_rotation
    <3>2. /\ \A d \in CommitteeId \ {old} : StaysFinal(d)
          /\ \A d \in CommitteeId : state[d] # "Absent" => state'[d] # "Absent"
      BY <2>2, <3>1, CommitteeDomains DEF StaysFinal
    <3>3. RosterKept
      BY <2>1, <3>2 DEF RosterKept
    <3>4. Moved(c, old)
      BY <2>1, <2>2, <3>1, <3>2, <3>3, Zenon DEF Moved
    <3> QED BY <3>4 DEF ManagerStep
  <2> QED BY <2>3, <2>4
<1>6. ASSUME NEW a \in Address, NEW c \in CommitteeId, VoteStep(a, c)
      PROVE  ManagerStep
  BY <1>6 DEF ManagerStep
<1>7. ASSUME NEW a \in Address, NEW c \in CommitteeId, NEW url \in Url, update_member_url(a, c, url)
      PROVE  ManagerStep
  <2>1. UNCHANGED <<stateVars, upgrade_manager, upgradeVars>>
    BY <1>7 DEF update_member_url
  <2>2. Kept
    BY <2>1 DEF stateVars, Kept, RosterKept, StaysFinal
  <2> QED BY <2>2 DEF ManagerStep
<1>8. CASE UNCHANGED vars
  <2>1. Kept
    BY <1>8 DEF vars, stateVars, Kept, RosterKept, StaysFinal
  <2> QED BY <2>1 DEF ManagerStep
<1> QED BY <1>1, <1>2, <1>3, <1>4, <1>5, <1>6, <1>7, <1>8, Zenon DEF Next, CreateStep, ProposeStep

-----------------------------------------------------------------------------
\* Pending proposals.

Pending(c) == upgrade_manager[c] # None /\ upgrade_manager[c].upgrade_proposal # None

Current(c, prop) ==
  /\ state[c] = "Finalized"
  /\ prop.version = upgrade_manager[c].cap_version + 1
  /\ DOMAIN prop.votes \subseteq Range(members[c])
  /\ \A a \in DOMAIN prop.votes : prop.votes[a] = "Approve" => Consent(c, prop, a) \in consent

CurrentInv == \A c \in CommitteeId : Pending(c) => Current(c, upgrade_manager[c].upgrade_proposal)

\* CurrentInv is PendingProposalCurrent, one committee at a time.
LEMMA CurrentIsProperty == CurrentInv <=> PendingProposalCurrent
BY DEF CurrentInv, PendingProposalCurrent, Pending, Current

\* A manager that no call touches keeps its proposal, and the proposal its consent.
LEMMA StaysCurrent ==
  ASSUME CurrentInv, NEW d \in CommitteeId, upgrade_manager'[d] = upgrade_manager[d],
         RosterKept, StaysFinal(d),
         \A prop, a : Consent(d, prop, a) \in consent => Consent(d, prop, a) \in consent'
  PROVE  Pending(d)' => Current(d, upgrade_manager[d].upgrade_proposal)'
<1> SUFFICES ASSUME Pending(d)' PROVE Current(d, upgrade_manager[d].upgrade_proposal)'
  OBVIOUS
<1>1. Pending(d)
  BY DEF Pending
<1>2. Current(d, upgrade_manager[d].upgrade_proposal)
  BY <1>1 DEF CurrentInv
<1>3. state'[d] = "Finalized" /\ members'[d] = members[d]
  BY <1>2 DEF Current, RosterKept, StaysFinal
<1> QED BY <1>2, <1>3 DEF Current

\* A vote, an authorization, a commit or a reset leaves only a current proposal behind.
LEMMA VoteCurrent ==
  ASSUME TypeOK, CurrentInv, NEW a \in Address, NEW c \in CommitteeId, VoteStep(a, c)
  PROVE  CurrentInv'
<1> DEFINE um == upgrade_manager[c]
<1>1. /\ MayVote(a, c)
      /\ UNCHANGED stateVars
      /\ \A d \in CommitteeId : d # c => upgrade_manager'[d] = upgrade_manager[d]
  BY VoteFrame
<1>2. /\ um \in UpgradeManager /\ um.cap_version \in Nat
      /\ um.upgrade_proposal \in UpgradeProposal \cup {None}
      /\ um # None /\ state[c] = "Finalized" /\ a \in Range(members[c])
  BY <1>1 DEF MayVote, is_finalized, IsMember, TypeOK, UpgradeTypeOK, UpgradeManager
<1>3. RosterKept /\ \A d \in CommitteeId : StaysFinal(d)
  BY <1>1 DEF stateVars, RosterKept, StaysFinal
<1>4. \A d \in CommitteeId : d # c => \A prop, x : Consent(d, prop, x) \in consent => Consent(d, prop, x) \in consent'
  <2>1. \A d, p, q, x, y : d # c => Consent(d, p, x) # Consent(c, q, y)
    BY DEF Consent
  <2>2. ASSUME NEW g \in Digest, approve_digest_for_upgrade(a, c, g) PROVE consent \subseteq consent'
    BY <2>2 DEF approve_digest_for_upgrade
  <2>3. ASSUME reject_digest_for_upgrade(a, c) PROVE \E q : consent' = consent \ {Consent(c, q, a)}
    BY <2>3, Zenon DEF reject_digest_for_upgrade
  <2>4. ASSUME authorize_upgrade(a, c) \/ commit_upgrade(a, c) \/ reset_proposal(a, c)
        PROVE  consent' = consent
    BY <2>4 DEF authorize_upgrade, commit_upgrade, reset_proposal, upgradeVars
  <2>5. consent \subseteq consent' \/ \E q : consent' = consent \ {Consent(c, q, a)}
    BY <2>2, <2>3, <2>4 DEF VoteStep
  <2> QED BY <2>1, <2>5
<1> DEFINE Goal == Pending(c)' => Current(c, upgrade_manager[c].upgrade_proposal)'
<1>5. ASSUME NEW prop \in UpgradeProposal, NEW v \in Vote,
             upgrade_manager'[c] = WithProposal(um, insert_vote(prop, a, v)),
             prop.version = um.cap_version + 1,
             DOMAIN prop.votes \subseteq Range(members[c]),
             \A x \in DOMAIN prop.votes : x # a /\ prop.votes[x] = "Approve" => Consent(c, prop, x) \in consent',
             v = "Approve" => Consent(c, prop, a) \in consent'
      PROVE  Goal
  <2> DEFINE r == insert_vote(prop, a, v)
  <2>1. /\ r.digest = prop.digest /\ r.version = prop.version
        /\ DOMAIN r.votes = DOMAIN prop.votes \cup {a}
        /\ r.votes[a] = v
        /\ \A x \in DOMAIN prop.votes : x # a => r.votes[x] = prop.votes[x]
    BY InsertedVote
  <2> HIDE DEF r
  <2>2. upgrade_manager'[c] = WithProposal(um, r)
    BY <1>5 DEF r
  <2>3. upgrade_manager'[c].upgrade_proposal = r /\ upgrade_manager'[c].cap_version = um.cap_version
    BY <2>2 DEF WithProposal
  <2>4. \A x : Consent(c, r, x) = Consent(c, prop, x)
    BY <2>1, Zenon DEF Consent
  <2>5. \A x \in DOMAIN r.votes : r.votes[x] = "Approve" => Consent(c, r, x) \in consent'
    BY <1>5, <2>1, <2>4, Zenon
  <2>6. DOMAIN r.votes \subseteq Range(members[c]) /\ r.version = um.cap_version + 1
    BY <1>2, <1>5, <2>1
  <2>7. state'[c] = "Finalized" /\ members'[c] = members[c]
    BY <1>1, <1>2, Zenon DEF stateVars
  <2>8. Current(c, upgrade_manager[c].upgrade_proposal)'
    BY <2>3, <2>5, <2>6, <2>7, Zenon DEF Current, Consent
  <2> QED BY <2>8
<1>6. ASSUME upgrade_manager'[c].upgrade_proposal = None PROVE Goal
  BY <1>6 DEF Pending
<1> HIDE DEF Goal
<1>7. Goal
  <2>1. ASSUME NEW d \in Digest, approve_digest_for_upgrade(a, c, d) PROVE Goal
    <3> DEFINE new == [digest |-> d, version |-> um.cap_version + 1, votes |-> EmptyMap]
               prop == IF um.upgrade_proposal = None THEN new ELSE um.upgrade_proposal
    <3>1. prop \in UpgradeProposal
      BY <1>2, ApprovedProposal, Zenon
    <3>2. /\ upgrade_manager'[c] = WithProposal(um, insert_vote(prop, a, "Approve"))
          /\ consent' = consent \cup {Consent(c, prop, a)}
          /\ prop.version = um.cap_version + 1
      BY <2>1, CommitteeDomains, Zenon DEF approve_digest_for_upgrade
    <3>3. /\ DOMAIN prop.votes \subseteq Range(members[c])
          /\ \A x \in DOMAIN prop.votes : prop.votes[x] = "Approve" => Consent(c, prop, x) \in consent
      <4>1. CASE um.upgrade_proposal = None
        <5>1. prop.votes = EmptyMap
          BY <4>1, Zenon
        <5> QED BY <5>1, PartialEmpty, Zenon
      <4>2. CASE um.upgrade_proposal # None
        BY <1>2, <4>2, Zenon DEF CurrentInv, Pending, Current
      <4> QED BY <4>1, <4>2, Zenon
    <3> HIDE DEF prop
    <3> QED BY <1>5, <3>1, <3>2, <3>3, Zenon DEF Vote
  <2>2. ASSUME reject_digest_for_upgrade(a, c) PROVE Goal
    <3> DEFINE prop == um.upgrade_proposal
    <3>1. /\ upgrade_manager'[c] = WithProposal(um, insert_vote(prop, a, "Reject"))
          /\ consent' = consent \ {Consent(c, prop, a)}
          /\ prop # None
      BY <2>2, CommitteeDomains, Zenon DEF reject_digest_for_upgrade
    <3>2. prop \in UpgradeProposal
      BY <1>2, <3>1, Zenon
    <3>3. Current(c, prop)
      BY <1>2, <3>1 DEF CurrentInv, Pending
    <3>4. \A x : x # a => Consent(c, prop, x) # Consent(c, prop, a)
      BY Zenon DEF Consent
    <3>5. /\ prop.version = um.cap_version + 1 /\ DOMAIN prop.votes \subseteq Range(members[c])
          /\ \A x \in DOMAIN prop.votes : x # a /\ prop.votes[x] = "Approve" => Consent(c, prop, x) \in consent'
      BY <3>1, <3>3, <3>4, Zenon DEF Current
    <3> HIDE DEF prop
    <3> QED BY <1>5, <3>1, <3>2, <3>5, Zenon DEF Vote
  <2>3. ASSUME authorize_upgrade(a, c) \/ reset_proposal(a, c) PROVE Goal
    <3>1. upgrade_manager'[c] = WithProposal(um, None)
      BY <2>3, CommitteeDomains, Zenon DEF authorize_upgrade, reset_proposal
    <3>2. upgrade_manager'[c].upgrade_proposal = None
      BY <3>1 DEF WithProposal
    <3> QED BY <1>6, <3>2, Zenon
  <2>4. ASSUME commit_upgrade(a, c) PROVE Goal
    <3>1. upgrade_manager'[c] = CommittedManager(um)
      BY <2>4, CommitteeDomains, Zenon DEF commit_upgrade
    <3>2. upgrade_manager'[c].upgrade_proposal = None
      BY <3>1 DEF CommittedManager
    <3> QED BY <1>6, <3>2, Zenon
  <2> QED BY <2>1, <2>2, <2>3, <2>4, Zenon DEF VoteStep
<1>8. ASSUME NEW d \in CommitteeId, d # c
      PROVE  Pending(d)' => Current(d, upgrade_manager[d].upgrade_proposal)'
  BY <1>1, <1>3, <1>4, <1>8, StaysCurrent, Zenon
<1> QED BY <1>7, <1>8 DEF CurrentInv, Goal

-----------------------------------------------------------------------------
\* Authorized upgrades.  That no version is authorized twice needs the cap: while no ticket
\* is out, the one manager's cap is at or past every authorized version, and a fresh cap
\* (init_committee) is never wrapped once a committee exists.
OpenTickets == IF ticket = None THEN 0 ELSE 1

UpgradesKnown == \A u \in upgrades : state[u.committee] # "Absent"

VersionsSpent ==
  \A u \in upgrades, c \in CommitteeId :
    upgrade_manager[c] # None => u.version <= upgrade_manager[c].cap_version + OpenTickets

HistoryInv == UpgradesKnown /\ VersionsSpent /\ UpgradesHadQuorum

\* A call that authorizes nothing keeps the past quorums.
LEMMA HistoryStays ==
  ASSUME TypeOK, HistoryInv, RosterKept, upgrades' = upgrades
  PROVE  UpgradesKnown' /\ UpgradesHadQuorum'
<1>1. \A u \in upgrades : u.committee \in CommitteeId /\ state[u.committee] # "Absent"
  BY DEF TypeOK, UpgradeTypeOK, Upgrade, HistoryInv, UpgradesKnown
<1>2. \A u \in upgrades : /\ state'[u.committee] # "Absent"
                          /\ members'[u.committee] = members[u.committee]
                          /\ threshold'[u.committee] = threshold[u.committee]
  BY <1>1 DEF RosterKept
<1>3. UpgradesKnown'
  BY <1>2 DEF UpgradesKnown
<1>4. UpgradesHadQuorum'
  BY <1>2 DEF HistoryInv, UpgradesHadQuorum
<1> QED BY <1>3, <1>4

\* authorize_upgrade: the counted approvals are standing consents of members.
LEMMA AuthorizedByQuorum ==
  ASSUME TypeOK, RosterInv, CurrentInv, NEW a \in Address, NEW c \in CommitteeId,
         authorize_upgrade(a, c)
  PROVE  LET prop == upgrade_manager[c].upgrade_proposal
             by == {x \in Address : Consent(c, prop, x) \in consent}
         IN  Cardinality(by \cap Range(members[c])) >= threshold[c]
<1> DEFINE prop == upgrade_manager[c].upgrade_proposal
           by == {x \in Address : Consent(c, prop, x) \in consent}
           yes == {x \in DOMAIN prop.votes : prop.votes[x] = "Approve"}
           R == Range(members[c])
<1>1. Cardinality(yes) >= threshold[c] /\ Pending(c)
  BY DEF authorize_upgrade, MayVote, count_votes, Pending
<1>2. Current(c, prop)
  BY <1>1 DEF CurrentInv
<1>3. members[c] \in Seq(Address) /\ IsInjective(members[c]) /\ threshold[c] \in Nat
  BY DEF TypeOK, CommitteeTypeOK, RosterInv
<1>4. IsFiniteSet(R) /\ R \subseteq Address
  BY <1>3, RangeOfInjectiveSeq, Zenon
<1>5. yes \subseteq by \cap R
  BY <1>2, <1>4 DEF Current
<1> HIDE DEF yes, by, R, prop
<1>6. IsFiniteSet(by \cap R)
  BY <1>4, FS_Subset
<1>7. IsFiniteSet(yes) /\ Cardinality(yes) <= Cardinality(by \cap R)
  BY <1>5, <1>6, FS_Subset
<1>8. Cardinality(yes) \in Nat /\ Cardinality(by \cap R) \in Nat
  BY <1>6, <1>7, FS_CardinalityType, Zenon
<1>9. Cardinality(by \cap R) >= threshold[c]
  BY <1>1, <1>3, <1>7, <1>8
<1> QED BY <1>9, Zenon DEF by, R, prop

\* authorize_upgrade adds an upgrade of a version never authorized before.
LEMMA AuthorizeHistory ==
  ASSUME TypeOK, RosterInv, CustodyInv, CurrentInv, HistoryInv,
         NEW a \in Address, NEW c \in CommitteeId, authorize_upgrade(a, c)
  PROVE  HistoryInv'
<1> DEFINE um == upgrade_manager[c]
           prop == um.upgrade_proposal
           new == [committee |-> c, version |-> prop.version, digest |-> prop.digest,
                   by |-> {x \in Address : Consent(c, prop, x) \in consent}]
<1>1. /\ um # None /\ state[c] = "Finalized" /\ ticket = None /\ ticket' = a
      /\ prop.version = um.cap_version + 1
      /\ upgrade_manager' = [upgrade_manager EXCEPT ![c] = WithProposal(um, None)]
      /\ upgrades' = upgrades \cup {new}
      /\ UNCHANGED <<state, threshold, members>>
  BY Zenon DEF authorize_upgrade, MayVote, is_finalized, cap_authorize, stateVars
<1>2. um.cap_version \in Nat /\ \A u \in upgrades : u.version \in Nat
  BY <1>1, Zenon DEF TypeOK, UpgradeTypeOK, UpgradeManager, Upgrade
<1>3. Cardinality(new.by \cap Range(members[c])) >= threshold[c]
  BY AuthorizedByQuorum, ZenonT(30)
<1>4. new.committee = c /\ new.version = um.cap_version + 1
  BY <1>1
<1> HIDE DEF new
<1>5. \A u \in upgrades : u.version <= um.cap_version
  <2>1. OpenTickets = 0
    BY <1>1 DEF OpenTickets
  <2>2. \A u \in upgrades : u.version <= um.cap_version + OpenTickets
    BY <1>1 DEF HistoryInv, VersionsSpent
  <2> QED BY <1>2, <2>1, <2>2
<1>6. UpgradesKnown'
  BY <1>1, <1>4, Zenon DEF HistoryInv, UpgradesKnown
<1>7. UpgradesHadQuorum'
  <2>1. \A u \in upgrades' :
          Cardinality(u.by \cap Range(members[u.committee])) >= threshold[u.committee]
    <3>1. \A u \in upgrades :
            Cardinality(u.by \cap Range(members[u.committee])) >= threshold[u.committee]
      BY DEF HistoryInv, UpgradesHadQuorum
    <3>2. Cardinality(new.by \cap Range(members[new.committee])) >= threshold[new.committee]
      BY <1>3, <1>4, Zenon
    <3> QED BY <1>1, <3>1, <3>2, Zenon
  <2>2. \A u, w \in upgrades' : u.version = w.version => u = w
    <3>1. \A u \in upgrades : u.version # new.version
      BY <1>2, <1>4, <1>5
    <3> QED BY <1>1, <3>1, Zenon DEF HistoryInv, UpgradesHadQuorum
  <2> QED BY <1>1, <2>1, <2>2 DEF UpgradesHadQuorum
<1>8. VersionsSpent'
  <2>1. OpenTickets' = 1
    BY <1>1, ConstantTypes, Zenon DEF OpenTickets
  <2>2. upgrade_manager'[c].cap_version = um.cap_version
    BY <1>1, CommitteeDomains, Zenon DEF WithProposal
  <2>3. \A d \in CommitteeId : d # c => upgrade_manager'[d] = None
    BY <1>1, CommitteeDomains DEF CustodyInv, SingleCustodian, OneManager
  <2>4. \A u \in upgrades' : u.version <= um.cap_version + 1
    <3>1. \A u \in upgrades : u.version <= um.cap_version + 1
      BY <1>2, <1>5
    <3>2. new.version <= um.cap_version + 1
      BY <1>2, <1>4
    <3> QED BY <1>1, <3>1, <3>2, Zenon
  <2> QED BY <2>1, <2>2, <2>3, <2>4, Zenon DEF VersionsSpent
<1> QED BY <1>6, <1>7, <1>8, Zenon DEF HistoryInv

\* The vote calls keep the history: commit_upgrade trades the open ticket for the next version.
LEMMA VoteHistory ==
  ASSUME TypeOK, RosterInv, CustodyInv, CurrentInv, HistoryInv,
         NEW a \in Address, NEW c \in CommitteeId, VoteStep(a, c)
  PROVE  HistoryInv'
<1> DEFINE um == upgrade_manager[c]
<1>1. /\ um # None /\ UNCHANGED stateVars
      /\ \A d \in CommitteeId : d # c => upgrade_manager'[d] = upgrade_manager[d]
  BY VoteFrame DEF MayVote
<1>2. RosterKept
  BY <1>1, Zenon DEF stateVars, RosterKept
<1>3. um.cap_version \in Nat /\ \A u \in upgrades : u.version \in Nat
  BY <1>1, Zenon DEF TypeOK, UpgradeTypeOK, UpgradeManager, Upgrade
<1>4. \A d \in CommitteeId : d # c => upgrade_manager'[d] = None
  BY <1>1, Zenon DEF CustodyInv, SingleCustodian, OneManager
<1>5. \A u \in upgrades : u.version <= um.cap_version + OpenTickets
  BY <1>1 DEF HistoryInv, VersionsSpent
<1>6. ASSUME upgrades' = upgrades,
             upgrade_manager'[c].cap_version + OpenTickets' = um.cap_version + OpenTickets
      PROVE  HistoryInv'
  <2>1. VersionsSpent'
    BY <1>4, <1>5, <1>6, Zenon DEF VersionsSpent
  <2> QED BY <1>2, <1>6, <2>1, HistoryStays, Zenon DEF HistoryInv
<1>7. ASSUME upgrade_manager'[c].cap_version = um.cap_version, ticket' = ticket, upgrades' = upgrades
      PROVE  HistoryInv'
  BY <1>6, <1>7 DEF OpenTickets
<1>8. ASSUME NEW d \in Digest, approve_digest_for_upgrade(a, c, d) PROVE HistoryInv'
  <2>1. upgrade_manager'[c].cap_version = um.cap_version
    BY <1>8, CommitteeDomains, ZenonT(30) DEF approve_digest_for_upgrade, WithProposal
  <2>2. ticket' = ticket /\ upgrades' = upgrades
    BY <1>8 DEF approve_digest_for_upgrade
  <2> QED BY <1>7, <2>1, <2>2, Zenon
<1>9. ASSUME reject_digest_for_upgrade(a, c) \/ reset_proposal(a, c) PROVE HistoryInv'
  <2>1. upgrade_manager'[c].cap_version = um.cap_version
    <3>1. \E prop : upgrade_manager'[c] = WithProposal(um, prop)
      BY <1>9, CommitteeDomains, Zenon DEF reject_digest_for_upgrade, reset_proposal
    <3> QED BY <3>1, VoteKeepsCap, Zenon
  <2>2. ticket' = ticket /\ upgrades' = upgrades
    BY <1>9, Zenon DEF reject_digest_for_upgrade, reset_proposal, upgradeVars
  <2> QED BY <1>7, <2>1, <2>2, Zenon
<1>10. ASSUME commit_upgrade(a, c) PROVE HistoryInv'
  <2>1. /\ ticket # None /\ ticket' = None /\ upgrades' = upgrades
        /\ upgrade_manager' = [upgrade_manager EXCEPT ![c] = CommittedManager(um)]
    BY <1>10, Zenon DEF commit_upgrade, cap_commit
  <2>2. upgrade_manager'[c].cap_version = um.cap_version + 1
    BY <2>1, CommitteeDomains DEF CommittedManager
  <2>3. OpenTickets = 1 /\ OpenTickets' = 0
    BY <2>1 DEF OpenTickets
  <2> QED BY <1>3, <1>6, <2>1, <2>2, <2>3
<1> QED BY <1>8, <1>9, <1>10, AuthorizeHistory, Zenon DEF VoteStep

-----------------------------------------------------------------------------
UpgradeInv == CurrentInv /\ HistoryInv

\* Every call preserves it.
LEMMA UpgradeNext ==
  ASSUME TypeOK, RosterInv, CustodyInv, UpgradeInv, [Next]_vars
  PROVE  UpgradeInv'
<1> USE DEF UpgradeInv
<1>1. ManagerStep
  BY NextManagerStep
<1>2. CASE Kept
  <2>1. CurrentInv'
    <3> SUFFICES ASSUME NEW d \in CommitteeId
                 PROVE  Pending(d)' => Current(d, upgrade_manager[d].upgrade_proposal)'
      BY DEF CurrentInv
    <3>1. upgrade_manager'[d] = upgrade_manager[d] /\ consent' = consent /\ RosterKept /\ StaysFinal(d)
      BY <1>2 DEF Kept, upgradeVars
    <3> QED BY <3>1, StaysCurrent, Zenon
  <2>2. UNCHANGED <<upgrade_manager, ticket, upgrades>> /\ RosterKept
    BY <1>2 DEF Kept, upgradeVars
  <2>3. VersionsSpent'
    BY <2>2 DEF HistoryInv, VersionsSpent, OpenTickets
  <2> QED BY <2>1, <2>2, <2>3, HistoryStays, Zenon DEF HistoryInv
<1>3. ASSUME NEW c \in CommitteeId, Opened(c) PROVE UpgradeInv'
  <2>1. /\ UNCHANGED <<ticket, consent, upgrades>> /\ RosterKept /\ \A d \in CommitteeId : StaysFinal(d)
        /\ upgrade_manager'[c].upgrade_proposal = None
        /\ \A d \in CommitteeId : d # c => upgrade_manager'[d] = upgrade_manager[d]
    BY <1>3, CommitteeDomains, Zenon DEF Opened, upgradeVars
  <2>2. upgrades = {}
    BY <1>3 DEF Opened, HistoryInv, UpgradesKnown, CustodyInv, LineageInv, CapSpent,
                TypeOK, UpgradeTypeOK, Upgrade
  <2>3. CurrentInv'
    <3> SUFFICES ASSUME NEW d \in CommitteeId
                 PROVE  Pending(d)' => Current(d, upgrade_manager[d].upgrade_proposal)'
      BY DEF CurrentInv
    <3>1. CASE d = c
      BY <2>1, <3>1, Zenon DEF Pending
    <3>2. CASE d # c
      BY <2>1, <3>2, StaysCurrent, Zenon
    <3> QED BY <3>1, <3>2, Zenon
  <2>4. VersionsSpent'
    BY <2>1, <2>2, Zenon DEF VersionsSpent
  <2> QED BY <2>1, <2>3, <2>4, HistoryStays, Zenon DEF HistoryInv
<1>4. ASSUME NEW c \in CommitteeId, NEW old \in CommitteeId, Moved(c, old) PROVE UpgradeInv'
  <2>1. /\ UNCHANGED <<ticket, consent, upgrades>> /\ RosterKept /\ old # c
        /\ \A d \in CommitteeId : d # old => StaysFinal(d)
        /\ upgrade_manager[old] # None /\ upgrade_manager'[old] = None
        /\ upgrade_manager'[c] = WithProposal(upgrade_manager[old], None)
        /\ \A d \in CommitteeId : d # c /\ d # old => upgrade_manager'[d] = upgrade_manager[d]
    BY <1>4, CommitteeDomains, Zenon DEF Moved, upgradeVars
  <2>2. /\ upgrade_manager'[c].upgrade_proposal = None
        /\ upgrade_manager'[c].cap_version = upgrade_manager[old].cap_version
    BY <2>1 DEF WithProposal
  <2>3. CurrentInv'
    <3> SUFFICES ASSUME NEW d \in CommitteeId
                 PROVE  Pending(d)' => Current(d, upgrade_manager[d].upgrade_proposal)'
      BY Zenon DEF CurrentInv
    <3>1. CASE d = c \/ d = old
      BY <2>1, <2>2, <3>1, Zenon DEF Pending
    <3>2. CASE d # c /\ d # old
      BY <2>1, <3>2, StaysCurrent, Zenon
    <3> QED BY <3>1, <3>2, Zenon
  <2>4. VersionsSpent'
    BY <2>1, <2>2 DEF HistoryInv, VersionsSpent, OpenTickets
  <2> QED BY <2>1, <2>3, <2>4, HistoryStays, Zenon DEF HistoryInv
<1>5. ASSUME NEW a \in Address, NEW c \in CommitteeId, VoteStep(a, c) PROVE UpgradeInv'
  BY <1>5, VoteCurrent, VoteHistory, Zenon
<1> QED BY <1>1, <1>2, <1>3, <1>4, <1>5, Zenon DEF ManagerStep

\* Before the first call nothing is pending or authorized.
LEMMA UpgradeInit == Init => UpgradeInv
BY DEF Init, UpgradeInv, CurrentInv, Pending, HistoryInv, UpgradesKnown, VersionsSpent, UpgradesHadQuorum

\* UpgradeInv holds whatever the interleaving of votes, upgrades and rotations.
THEOREM UpgradeInvariant == Spec => []UpgradeInv
<1>1. TypeOK /\ RosterInv /\ CustodyInv /\ UpgradeInv /\ [Next]_vars => UpgradeInv'
  BY UpgradeNext
<1> QED BY <1>1, UpgradeInit, CustodyInvariant, PTL DEF Spec

\* No pending proposal outlives the upgrade or the rotation that settles it, and its votes
\* are the current members' own.  approve_digest_for_upgrade, commit_upgrade,
\* try_finalize_for_rotation.
THEOREM PendingIsCurrent == Spec => []PendingProposalCurrent
<1>1. UpgradeInv => PendingProposalCurrent
  BY CurrentIsProperty DEF UpgradeInv
<1> QED BY <1>1, UpgradeInvariant, PTL

\* Every authorized upgrade had the approval of threshold members of the committee that
\* authorized it, and no package version is authorized twice.  authorize_upgrade.
THEOREM QuorumIsBehindUpgrades == Spec => []UpgradesHadQuorum
<1>1. UpgradeInv => UpgradesHadQuorum
  BY DEF UpgradeInv, HistoryInv
<1> QED BY <1>1, UpgradeInvariant, PTL

=============================================================================
