---------------------------- MODULE SealCommittee ----------------------------
(***************************************************************************)
(* The on-chain committee package (move/committee/sources/committee.move): *)
(* a fresh committee runs DKG and creates a key server; later committees   *)
(* rotate it, taking over the key server and the package's upgrade manager *)
(* from the committee they replace, which is destroyed; the members of the *)
(* finalized committee vote on upgrades of the package.                    *)
(*                                                                         *)
(* One action is one Move call.  Calls are atomic.  The only values that   *)
(* tie several calls together are the UpgradeTicket and the UpgradeReceipt,*)
(* which must be consumed in the transaction that created them: while      *)
(* ticket # None the transaction of the account ticket is still running,   *)
(* so no other account's calls take effect.  A call that aborts has no     *)
(* effect and is no step.                                                  *)
(*                                                                         *)
(* The fields of the enum State (members_info, partial_pks, pk,            *)
(* messages_hash, approvals) are functions on committee ids.  The code     *)
(* drops them at Finalized; here they stay as history, and no action reads *)
(* them in that state.  endorsed, consent and upgrades are history only.   *)
(***************************************************************************)
EXTENDS KeyServer, Functions

CONSTANTS
  Address,       \* accounts that may send transactions
  CommitteeId,   \* object ids of committees, one per successful init call
  Name, Url,     \* what members register
  NamesOf,       \* NamesOf[a]: the names account a may ask for
  PartialPk, Pk, MessagesHash,   \* what DKG produces
  PartialPks,    \* the partial_pks vectors callers submit
  Digest,        \* package digests (of the required 32 bytes)
  Cap,           \* upgrade caps of published packages ...
  PackageCap,    \* ... and the one of this package
  Roster,        \* the member vectors callers pass to the init functions
  Threshold,     \* the thresholds callers pass
  MaxU16,        \* std::u16::max_value
  MaxU32,        \* a committee version beyond it aborts
  MaxU64,        \* a cap version beyond it aborts
  None

ASSUME ConstantTypes ==
  /\ PackageCap \in Cap
  /\ NamesOf \in [Address -> SUBSET Name]
  /\ PartialPks \subseteq Seq(PartialPk)
  /\ Roster \subseteq Seq(Address)
  /\ Threshold \subseteq Nat
  /\ MaxU16 \in Nat /\ MaxU32 \in Nat /\ MaxU64 \in Nat
  /\ None \notin CommitteeId \cup Address

VARIABLES
  free_caps,         \* upgrade caps not yet consumed by init_committee
  state,             \* "Absent", "Init", "PostDKG", "Finalized", "Deleted"
  threshold, members, old_committee_id,   \* the other fields of Committee
  members_info,      \* Init and PostDKG: what each member registered
  proposal,          \* PostDKG: partial_pks, pk and messages_hash
  approvals,         \* PostDKG: who proposed exactly that
  key_server,        \* the KeyServer object field of a committee, or None
  upgrade_manager,   \* the UpgradeManager object field, or None
  ticket,            \* the account whose transaction holds an upgrade ticket, or None
  endorsed,          \* history: who submitted which DKG output to which committee
  consent,           \* history: standing approve calls
  upgrades           \* history: authorized upgrades

stateVars == <<state, threshold, members, old_committee_id, members_info>>
dkgVars == <<proposal, approvals, endorsed>>
upgradeVars == <<ticket, consent, upgrades>>
vars == <<free_caps, stateVars, dkgVars, key_server, upgrade_manager, upgradeVars>>

\* VecMap: a function from some of S.
Partial(S, T) == UNION {[D -> T] : D \in SUBSET S}
EmptyMap == [x \in {} |-> x]
MapPut(m, key, val) == [x \in DOMAIN m \cup {key} |-> IF x = key THEN val ELSE m[x]]

MemberInfo == [name : Name, url : Url]
DkgOutput == [partial_pks : Seq(PartialPk), pk : Pk, messages_hash : MessagesHash]
KeyServers == KeyServerV2(CommitteeId, Name, Url, PartialPk, Pk)
Vote == {"Approve", "Reject"}
UpgradeProposal == [digest : Digest, version : Nat, votes : Partial(Address, Vote)]
UpgradeManager == [cap_version : Nat, upgrade_proposal : UpgradeProposal \cup {None}]
Upgrade == [committee : CommitteeId, version : Nat, digest : Digest, by : SUBSET Address]

\* None stands for an absent option or object field, never for a present one.
ASSUME NoneIsAbsent ==
  /\ None \notin DkgOutput \cup KeyServers \cup UpgradeProposal \cup UpgradeManager
  /\ None \notin [pk : Pk, version : Nat]

\* A cap is at version 1 when its package is published.
Init ==
  /\ free_caps = Cap
  /\ state = [c \in CommitteeId |-> "Absent"]
  /\ threshold = [c \in CommitteeId |-> 0]
  /\ members = [c \in CommitteeId |-> << >>]
  /\ old_committee_id = [c \in CommitteeId |-> None]
  /\ members_info = [c \in CommitteeId |-> EmptyMap]
  /\ proposal = [c \in CommitteeId |-> None]
  /\ approvals = [c \in CommitteeId |-> {}]
  /\ endorsed = [c \in CommitteeId |-> {}]
  /\ key_server = [c \in CommitteeId |-> None]
  /\ upgrade_manager = [c \in CommitteeId |-> None]
  /\ ticket = None /\ consent = {} /\ upgrades = {}

-----------------------------------------------------------------------------
is_finalized(c) == state[c] = "Finalized"
IsMember(c, a) == a \in Range(members[c])

\* A call of sender can run unless another account's transaction holds a ticket.
MayCall(sender) == ticket \in {None, sender}

\* init_internal: the checks on threshold and members, and the new object in state Init.
init_internal(c, t, ms, old) ==
  /\ state[c] = "Absent"
  /\ t > 1
  /\ Len(ms) < MaxU16
  /\ Len(ms) >= t
  /\ IsInjective(ms)
  /\ state' = [state EXCEPT ![c] = "Init"]
  /\ threshold' = [threshold EXCEPT ![c] = t]
  /\ members' = [members EXCEPT ![c] = ms]
  /\ old_committee_id' = [old_committee_id EXCEPT ![c] = old]
  /\ UNCHANGED <<members_info, dkgVars, key_server, upgradeVars>>

OwnCap_Unchecked(cap) == TRUE

\* The type check of init_committee: only this package's cap has SEAL_COMMITTEE's address.
OwnCap(cap) == cap = PackageCap

\* The cap must be this package's own; it moves into the new upgrade manager.
init_committee(sender, cap, c, t, ms) ==
  /\ MayCall(sender)
  /\ cap \in free_caps
  /\ OwnCap(cap)
  /\ init_internal(c, t, ms, None)
  /\ free_caps' = free_caps \ {cap}
  /\ upgrade_manager' =
       [upgrade_manager EXCEPT ![c] = [cap_version |-> 1, upgrade_proposal |-> None]]

continuing_members_Unfiltered(old, ms) == Len(ms)

\* How many of the new members the old committee has.
continuing_members(old, ms) == Cardinality({i \in DOMAIN ms : IsMember(old, ms[i])})

\* Only a member of the finalized old committee starts a rotation, and the new
\* committee keeps at least old.threshold of the old members.
init_rotation(sender, old, c, t, ms) ==
  /\ MayCall(sender)
  /\ is_finalized(old)
  /\ IsMember(old, sender)
  /\ continuing_members(old, ms) >= threshold[old]
  /\ init_internal(c, t, ms, old)
  /\ UNCHANGED <<free_caps, upgrade_manager>>

\* A member registers once, under a name no other member has taken.
register(sender, c, name, url) ==
  /\ MayCall(sender)
  /\ IsMember(c, sender)
  /\ state[c] = "Init"
  /\ sender \notin DOMAIN members_info[c]
  /\ \A m \in DOMAIN members_info[c] : members_info[c][m].name # name
  /\ members_info' =
       [members_info EXCEPT ![c] = MapPut(@, sender, [name |-> name, url |-> url])]
  /\ UNCHANGED <<free_caps, state, threshold, members, old_committee_id, dkgVars,
                 key_server, upgrade_manager, upgradeVars>>

\* The first proposal needs every member registered; each later one must repeat it exactly
\* and come from a member that has not approved yet.
ProposalFits(sender, c, p) ==
  \/ /\ state[c] = "Init"
     /\ Cardinality(DOMAIN members_info[c]) = Len(members[c])
  \/ /\ state[c] = "PostDKG"
     /\ p = proposal[c]
     /\ sender \notin approvals[c]

propose_internal_Restarts(sender, c, p) ==
  /\ MayCall(sender)
  /\ IsMember(c, sender)
  /\ Len(p.partial_pks) = Len(members[c])
  /\ ProposalFits(sender, c, p) \/ (state[c] = "PostDKG" /\ p # proposal[c])
  /\ proposal' = [proposal EXCEPT ![c] = p]
  /\ approvals' = [approvals EXCEPT ![c] = IF p = proposal[c] THEN @ \cup {sender} ELSE {sender}]
  /\ endorsed' = [endorsed EXCEPT ![c] = @ \cup {<<sender, p>>}]

\* propose_internal up to the state change, which the caller's finalization completes.
propose_internal(sender, c, p) ==
  /\ MayCall(sender)
  /\ IsMember(c, sender)
  /\ Len(p.partial_pks) = Len(members[c])
  /\ ProposalFits(sender, c, p)
  /\ proposal' = [proposal EXCEPT ![c] = p]
  /\ approvals' = [approvals EXCEPT ![c] = @ \cup {sender}]
  /\ endorsed' = [endorsed EXCEPT ![c] = @ \cup {<<sender, p>>}]

AllApproved_OneMore(c) == Cardinality(approvals'[c]) > Len(members[c])

\* The approval just given was the last one missing.
AllApproved(c) == Cardinality(approvals'[c]) = Len(members[c])

build_partial_key_servers(c, partial_pks) ==
  [i \in 1..Len(members[c]) |->
     LET info == members_info[c][members[c][i]]
     IN  create_partial_key_server(info.name, info.url, partial_pks[i], i - 1)]

\* try_finalize: with the last approval the key server is created under the committee.
try_finalize(c, p) ==
  \/ /\ ~AllApproved(c)
     /\ state' = [state EXCEPT ![c] = "PostDKG"]
     /\ UNCHANGED key_server
  \/ /\ AllApproved(c)
     /\ LET partials == build_partial_key_servers(c, p.partial_pks)
        IN  /\ validate_partial_key_servers(threshold[c], partials)
            /\ key_server' = [key_server EXCEPT
                 ![c] = create_committee_v2(c, threshold[c], p.pk, partials)]
     /\ state' = [state EXCEPT ![c] = "Finalized"]

FreshOnly_WhenFinal(c) ==
  old_committee_id[c] = None \/ Cardinality(approvals[c]) + 1 < Len(members[c])

\* propose and try_finalize are for committees that do not rotate another one.
FreshOnly(c) == old_committee_id[c] = None

\* propose: fresh DKG committees only.
propose(sender, c, p) ==
  /\ FreshOnly(c)
  /\ propose_internal(sender, c, p)
  /\ try_finalize(c, p)
  /\ UNCHANGED <<free_caps, threshold, members, old_committee_id, members_info,
                 upgrade_manager, upgradeVars>>

check_rotation_consistency(c, old) ==
  /\ old_committee_id[c] # None
  /\ old = old_committee_id[c]
  /\ is_finalized(old)

\* The same manager (the same cap) with another pending proposal.
WithProposal(um, prop) == [cap_version |-> um.cap_version, upgrade_proposal |-> prop]

\* try_finalize_for_rotation: before the last approval the key server goes back to the
\* old committee; with it, key server and upgrade manager (its pending proposal dropped)
\* move to the new committee and the old one is deleted.
try_finalize_for_rotation(c, old, p) ==
  \/ /\ ~AllApproved(c)
     /\ state' = [state EXCEPT ![c] = "PostDKG"]
     /\ UNCHANGED <<key_server, upgrade_manager>>
  \/ /\ AllApproved(c)
     /\ key_server[old].version < MaxU32
     /\ upgrade_manager[old] # None
     /\ LET partials == build_partial_key_servers(c, p.partial_pks)
        IN  /\ validate_partial_key_servers(threshold[c], partials)
            /\ key_server' = [key_server EXCEPT
                 ![old] = None,
                 ![c] = update_partial_key_servers(key_server[old], threshold[c], partials)]
     /\ upgrade_manager' = [upgrade_manager EXCEPT
          ![old] = None,
          ![c] = WithProposal(upgrade_manager[old], None)]
     /\ state' = [state EXCEPT ![old] = "Deleted", ![c] = "Finalized"]

\* propose_for_rotation: the public key is the old committee's, never an input.
propose_for_rotation(sender, c, old, partial_pks, hash) ==
  /\ check_rotation_consistency(c, old)
  /\ key_server[old] # None
  /\ LET p == [partial_pks |-> partial_pks, pk |-> key_server[old].pk, messages_hash |-> hash]
     IN  /\ propose_internal(sender, c, p)
         /\ try_finalize_for_rotation(c, old, p)
  /\ UNCHANGED <<free_caps, threshold, members, old_committee_id, members_info, upgradeVars>>

\* A member changes the URL of its own entry, found through its place in members.
update_member_url(sender, c, url) ==
  /\ MayCall(sender)
  /\ IsMember(c, sender)
  /\ key_server[c] # None
  /\ LET party_id == (CHOOSE i \in DOMAIN members[c] : members[c][i] = sender) - 1
     IN  /\ party_id < Len(key_server[c].partial_key_servers)
         /\ key_server' = [key_server EXCEPT ![c] = update_url_of(@, url, party_id)]
  /\ UNCHANGED <<free_caps, stateVars, dkgVars, upgrade_manager, upgradeVars>>

-----------------------------------------------------------------------------
\* Votes on a package upgrade, by members of a finalized committee.
MayVote(sender, c) ==
  /\ MayCall(sender)
  /\ IsMember(c, sender)
  /\ is_finalized(c)
  /\ upgrade_manager[c] # None

insert_vote(prop, sender, vote) ==
  [digest |-> prop.digest, version |-> prop.version, votes |-> MapPut(prop.votes, sender, vote)]

count_votes_AnyKind(prop, vote) == Cardinality(DOMAIN prop.votes)

count_votes(prop, vote) == Cardinality({a \in DOMAIN prop.votes : prop.votes[a] = vote})

Consent(c, prop, a) ==
  [committee |-> c, version |-> prop.version, digest |-> prop.digest, member |-> a]

\* The first approval creates the proposal; later ones must name the same digest.
approve_digest_for_upgrade(sender, c, digest) ==
  /\ MayVote(sender, c)
  /\ LET um == upgrade_manager[c]
         prop == IF um.upgrade_proposal = None
                 THEN [digest |-> digest, version |-> um.cap_version + 1, votes |-> EmptyMap]
                 ELSE um.upgrade_proposal
     IN  /\ um.cap_version < MaxU64
         /\ prop.digest = digest
         /\ prop.version = um.cap_version + 1
         /\ upgrade_manager' = [upgrade_manager EXCEPT ![c] =
              WithProposal(um, insert_vote(prop, sender, "Approve"))]
         /\ consent' = consent \cup {Consent(c, prop, sender)}
  /\ UNCHANGED <<free_caps, stateVars, dkgVars, key_server, ticket, upgrades>>

reject_digest_for_upgrade(sender, c) ==
  /\ MayVote(sender, c)
  /\ LET um == upgrade_manager[c]
         prop == um.upgrade_proposal
     IN  /\ prop # None
         /\ upgrade_manager' = [upgrade_manager EXCEPT ![c] =
              WithProposal(um, insert_vote(prop, sender, "Reject"))]
         /\ consent' = consent \ {Consent(c, prop, sender)}
  /\ UNCHANGED <<free_caps, stateVars, dkgVars, key_server, ticket, upgrades>>

\* sui::package::authorize_upgrade: one ticket per cap at a time.
cap_authorize(sender) ==
  /\ ticket = None
  /\ ticket' = sender

\* sui::package::commit_upgrade: the receipt closes the upgrade.
cap_commit ==
  /\ ticket # None
  /\ ticket' = None

\* The proposal is taken out and must have threshold approvals.
authorize_upgrade(sender, c) ==
  /\ MayVote(sender, c)
  /\ LET um == upgrade_manager[c]
         prop == um.upgrade_proposal
     IN  /\ prop # None
         /\ prop.version = um.cap_version + 1
         /\ count_votes(prop, "Approve") >= threshold[c]
         /\ upgrade_manager' = [upgrade_manager EXCEPT ![c] = WithProposal(@, None)]
         /\ upgrades' = upgrades \cup
              {[committee |-> c, version |-> prop.version, digest |-> prop.digest,
                by |-> {a \in Address : Consent(c, prop, a) \in consent}]}
         /\ cap_authorize(sender)
  /\ UNCHANGED <<free_caps, stateVars, dkgVars, key_server, consent>>

CommittedManager_KeepProposal(um) == [um EXCEPT !.cap_version = @ + 1]

\* The manager after a commit: the cap at its next version, whatever was pending dropped.
CommittedManager(um) == [cap_version |-> um.cap_version + 1, upgrade_proposal |-> None]

\* Runs in the transaction of authorize_upgrade, after the package upgrade itself.
commit_upgrade(sender, c) ==
  /\ MayVote(sender, c)
  /\ cap_commit
  /\ upgrade_manager' = [upgrade_manager EXCEPT ![c] = CommittedManager(@)]
  /\ UNCHANGED <<free_caps, stateVars, dkgVars, key_server, consent, upgrades>>

reset_proposal(sender, c) ==
  /\ MayVote(sender, c)
  /\ upgrade_manager[c].upgrade_proposal # None
  /\ count_votes(upgrade_manager[c].upgrade_proposal, "Reject") >= threshold[c]
  /\ upgrade_manager' = [upgrade_manager EXCEPT ![c] = WithProposal(@, None)]
  /\ UNCHANGED <<free_caps, stateVars, dkgVars, key_server, upgradeVars>>

-----------------------------------------------------------------------------
DkgInput == {[partial_pks |-> pp, pk |-> k, messages_hash |-> h] :
               pp \in PartialPks, k \in Pk, h \in MessagesHash}

CreateStep(sender, c) ==
  \E t \in Threshold, ms \in Roster :
    \/ \E cap \in Cap : init_committee(sender, cap, c, t, ms)
    \/ \E old \in CommitteeId : init_rotation(sender, old, c, t, ms)

RegisterStep(sender, c) ==
  \E name \in NamesOf[sender], url \in Url : register(sender, c, name, url)

ProposeStep(sender, c) ==
  \/ \E p \in DkgInput : propose(sender, c, p)
  \/ \E old \in CommitteeId, pp \in PartialPks, h \in MessagesHash :
       propose_for_rotation(sender, c, old, pp, h)

VoteStep(sender, c) ==
  \/ \E d \in Digest : approve_digest_for_upgrade(sender, c, d)
  \/ reject_digest_for_upgrade(sender, c)
  \/ authorize_upgrade(sender, c)
  \/ commit_upgrade(sender, c)
  \/ reset_proposal(sender, c)

Next == \E sender \in Address, c \in CommitteeId :
  \/ CreateStep(sender, c)
  \/ RegisterStep(sender, c)
  \/ ProposeStep(sender, c)
  \/ VoteStep(sender, c)
  \/ \E url \in Url : update_member_url(sender, c, url)

Spec == Init /\ [][Next]_vars

\* While a committee waits for registrations or for proposals, one of its members whose call
\* the chain accepts makes it, and a transaction that took a ticket runs to its end.
MembersAct ==
  /\ \A c \in CommitteeId : /\ WF_vars(\E a \in Address : RegisterStep(a, c))
                            /\ WF_vars(\E a \in Address : ProposeStep(a, c))
  /\ WF_vars(\E a \in Address, c \in CommitteeId : commit_upgrade(a, c))

FairSpec == Spec /\ MembersAct

-----------------------------------------------------------------------------
CommitteeTypeOK ==
  /\ free_caps \subseteq Cap
  /\ state \in [CommitteeId -> {"Absent", "Init", "PostDKG", "Finalized", "Deleted"}]
  /\ threshold \in [CommitteeId -> Nat]
  /\ members \in [CommitteeId -> Seq(Address)]
  /\ old_committee_id \in [CommitteeId -> CommitteeId \cup {None}]
  /\ members_info \in [CommitteeId -> Partial(Address, MemberInfo)]

DkgTypeOK ==
  /\ proposal \in [CommitteeId -> DkgOutput \cup {None}]
  /\ approvals \in [CommitteeId -> SUBSET Address]
  /\ endorsed \in [CommitteeId -> SUBSET (Address \X DkgOutput)]

UpgradeTypeOK ==
  /\ upgrade_manager \in [CommitteeId -> UpgradeManager \cup {None}]
  /\ ticket \in Address \cup {None}
  /\ consent \subseteq [committee : CommitteeId, version : Nat, digest : Digest, member : Address]
  /\ upgrades \subseteq Upgrade

TypeOK ==
  /\ CommitteeTypeOK
  /\ DkgTypeOK
  /\ key_server \in [CommitteeId -> KeyServers \cup {None}]
  /\ UpgradeTypeOK

KeyServerWithFinalized ==
  \A c \in CommitteeId : key_server[c] # None <=> state[c] = "Finalized"

OneFinalized ==
  \A c, d \in CommitteeId : state[c] = "Finalized" /\ state[d] = "Finalized" => c = d

OneManager ==
  \A c, d \in CommitteeId : upgrade_manager[c] # None /\ upgrade_manager[d] # None => c = d

FinalizedHasManager ==
  \A c \in CommitteeId : state[c] = "Finalized" => upgrade_manager[c] # None

\* One custodian: at any time at most one committee is finalized, it alone holds the key
\* server, and no other committee than it (or, before the first finalization, the fresh
\* committee) holds the upgrade manager.  try_finalize, try_finalize_for_rotation.
SingleCustodian ==
  /\ KeyServerWithFinalized
  /\ OneFinalized
  /\ OneManager
  /\ FinalizedHasManager

\* Unanimity: every member of the finalized committee submitted exactly the public key and
\* the partial public keys that its key server carries, entry i is member i's, and the
\* threshold is the committee's own: at least 2 and within reach of the entries.
\* propose_internal, build_partial_key_servers, update_partial_key_servers.
KeyMaterialEndorsed ==
  \A c \in CommitteeId : state[c] = "Finalized" =>
    LET ks == key_server[c]
        n == Len(members[c])
    IN  /\ Len(ks.partial_key_servers) = n
        /\ ks.threshold = threshold[c] /\ ks.threshold \in 2..n
        /\ \A i \in 1..n :
             /\ \E e \in endorsed[c] :
                  /\ e[1] = members[c][i]
                  /\ e[2].pk = ks.pk
                  /\ \A j \in 1..n : e[2].partial_pks[j] = ks.partial_key_servers[j].partial_pk
             /\ ks.partial_key_servers[i].party_id = i - 1
             /\ ks.partial_key_servers[i].name = members_info[c][members[c][i]].name

\* A pending upgrade proposal is always for the cap's next version and carries the votes of
\* current members only, as they last cast them: no proposal outlives the upgrade or the
\* rotation that settles it.  approve_digest_for_upgrade, commit_upgrade,
\* try_finalize_for_rotation.
PendingProposalCurrent ==
  \A c \in CommitteeId :
    upgrade_manager[c] # None /\ upgrade_manager[c].upgrade_proposal # None =>
      LET prop == upgrade_manager[c].upgrade_proposal
      IN  /\ state[c] = "Finalized"
          /\ prop.version = upgrade_manager[c].cap_version + 1
          /\ DOMAIN prop.votes \subseteq Range(members[c])
          /\ \A a \in DOMAIN prop.votes :
               prop.votes[a] = "Approve" => Consent(c, prop, a) \in consent

\* Every authorized upgrade had a standing approve call of at least threshold members of the
\* committee that authorized it, and no package version is authorized twice.
\* authorize_upgrade, count_votes, insert_vote.
UpgradesHadQuorum ==
  /\ \A u \in upgrades :
       Cardinality(u.by \cap Range(members[u.committee])) >= threshold[u.committee]
  /\ \A u, w \in upgrades : u.version = w.version => u = w

\* Once some member's proposal is recorded it is the only one the committee can ever
\* finalize: it is never replaced, approvals are never withdrawn, and the committee never
\* returns to Init.  propose_internal.
ProposalIsFinal ==
  [][\A c \in CommitteeId : state[c] \in {"PostDKG", "Finalized"} =>
       /\ state'[c] # "Init"
       /\ proposal'[c] = proposal[c]
       /\ approvals[c] \subseteq approvals'[c]]_vars

\* A rotation candidate whose old committee was rotated by a competing candidate can never
\* finalize.  check_rotation_consistency.
OrphansFrozen ==
  [][\A c \in CommitteeId :
       old_committee_id[c] # None /\ state[c] \in {"Init", "PostDKG"}
         /\ state[old_committee_id[c]] = "Deleted" =>
       state'[c] = state[c]]_vars

\* When its members keep acting, a fresh committee gets its key server, and a rotation
\* completes unless a competing rotation of the same committee did: no order of
\* registrations and proposals leaves a committee stuck.
DkgCompletes ==
  \A c \in CommitteeId :
    state[c] = "Init" ~>
      \/ state[c] \in {"Finalized", "Deleted"}
      \/ old_committee_id[c] # None /\ state[old_committee_id[c]] = "Deleted"

-----------------------------------------------------------------------------
\* What the committees jointly promise (module KeyCustody): one public key, handed from
\* committee to committee.
Custodian == {c \in CommitteeId : state[c] = "Finalized"}
custody_key ==
  IF Custodian = {} THEN None
  ELSE LET ks == key_server[CHOOSE c \in Custodian : TRUE]
       IN  [pk |-> ks.pk, version |-> ks.version]
custody_roster ==
  IF Custodian = {} THEN {} ELSE Range(members[CHOOSE c \in Custodian : TRUE])
custody_quorum ==
  IF Custodian = {} THEN 0 ELSE threshold[CHOOSE c \in Custodian : TRUE]

Custody == INSTANCE KeyCustody
  WITH key <- custody_key, roster <- custody_roster, quorum <- custody_quorum

\* The committees implement a single key that is created once, keeps its public key for
\* ever, and is handed over one version at a time to a roster that keeps a quorum of the
\* previous one.
CustodySpec == Custody!Spec
=============================================================================
