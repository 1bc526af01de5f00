--------------------------- MODULE EventMonitors ---------------------------
(***************************************************************************)
(* The two alerting tasks of a committee-mode key server                   *)
(* (crates/key-server/src/server.rs): the rotation monitor follows the     *)
(* CommitteeRotationInitiated events, the upgrade monitor polls the        *)
(* pending upgrade proposal.  They tell the operator what happens on       *)
(* chain, so what matters is that nothing is missed or told twice.         *)
(*                                                                         *)
(* The chain is what SealCommittee lets happen, reduced to what the tasks  *)
(* read: which committee owns the key server, the rotation events, and the *)
(* upgrade proposals, numbered in the order of their creation.  A          *)
(* definition named X_Suffix is a faulty variant of X that no              *)
(* specification uses.                                                     *)
(***************************************************************************)
EXTENDS Integers, Sequences, FiniteSets

CONSTANTS
  MaxEvents,     \* bound on the rotations initiated
  MaxProposals   \* bound on the upgrade proposals

ASSUME EventBounds == MaxEvents \in Nat /\ MaxProposals \in Nat

Committee == 0..MaxEvents   \* committee 0 is the first, event e announces committee e

VARIABLES
  owner,      \* the committee that owns the key server
  events,     \* the events: events[e] is the committee being rotated from
  proposal,   \* the pending proposal's number, 0 if none
  created,    \* how many proposals were created
  package,    \* how many were carried out: the version of the package
  rotation,   \* the rotation monitor
  upgrade     \* the upgrade monitor and its periodic updater

chainVars == <<owner, events, proposal, created, package>>
vars == <<chainVars, rotation, upgrade>>

-----------------------------------------------------------------------------
\* On chain.
InitRotation ==
  /\ Len(events) < MaxEvents
  /\ events' = Append(events, owner)
  /\ UNCHANGED <<owner, proposal, created, package, rotation, upgrade>>

\* The new committee takes over the upgrade manager without its pending proposal.
FinalizeRotation ==
  /\ \E e \in DOMAIN events : events[e] = owner /\ owner' = e
  /\ proposal' = 0
  /\ UNCHANGED <<events, created, package, rotation, upgrade>>

\* The first vote for a digest creates a proposal.
Propose ==
  /\ proposal = 0 /\ created < MaxProposals
  /\ proposal' = created + 1 /\ created' = created + 1
  /\ UNCHANGED <<owner, events, package, rotation, upgrade>>

Rejected ==
  /\ proposal # 0
  /\ proposal' = 0
  /\ UNCHANGED <<owner, events, created, package, rotation, upgrade>>

Upgraded ==
  /\ proposal # 0
  /\ proposal' = 0 /\ package' = package + 1
  /\ UNCHANGED <<owner, events, created, rotation, upgrade>>

-----------------------------------------------------------------------------
\* The rotation monitor: every 30 s, or at once after its start.
FetchCommittee ==
  /\ rotation.pc = "fetch"
  /\ rotation' = [rotation EXCEPT !.committee_id = owner, !.pc = "query"]
  /\ UNCHANGED <<chainVars, upgrade>>

\* The cursor starts at the newest event: what happened before the start is not told.
InitCursor ==
  /\ rotation.pc = "query" /\ ~rotation.initialized
  /\ rotation' = [rotation EXCEPT !.last_event_seq = Len(events), !.started_at = Len(events),
                                  !.initialized = TRUE, !.pc = "fetch"]
  /\ UNCHANGED <<chainVars, upgrade>>

NextEvent_Newest(cursor) == Len(events)

\* The next unseen event, one per round.
NextEvent(cursor) == cursor + 1

QueryEvents_MismatchFirst ==
  /\ rotation.pc = "query" /\ rotation.initialized
  /\ LET e == NextEvent(rotation.last_event_seq)
     IN  rotation' =
           IF rotation.last_event_seq < Len(events) /\ events[e] = rotation.committee_id
           THEN [rotation EXCEPT !.last_event_seq = e, !.alerts = Append(@, e), !.pc = "fetch"]
           ELSE [rotation EXCEPT !.pc = "fetch"]
  /\ UNCHANGED <<chainVars, upgrade>>

\* An event whose old committee is not the current one is logged as a mismatch and told as any
\* other.
QueryEvents ==
  /\ rotation.pc = "query" /\ rotation.initialized
  /\ LET e == NextEvent(rotation.last_event_seq)
     IN  rotation' =
           IF rotation.last_event_seq < Len(events)
           THEN [rotation EXCEPT !.last_event_seq = e, !.alerts = Append(@, e), !.pc = "fetch"]
           ELSE [rotation EXCEPT !.pc = "fetch"]
  /\ UNCHANGED <<chainVars, upgrade>>

\* A failed read costs a round.
RotationReadFails ==
  /\ rotation' = [rotation EXCEPT !.pc = "fetch"]
  /\ UNCHANGED <<chainVars, upgrade>>

-----------------------------------------------------------------------------
\* The upgrade monitor's fetch_fn: the committee, then its proposal's version; 0 if there is
\* none.  When the committee no longer owns the upgrade manager the second read fails.
ProposalVersion == IF proposal = 0 THEN 0 ELSE package + 1

FetchOwner ==
  /\ upgrade.pc = "fetch"
  /\ upgrade' = [upgrade EXCEPT !.committee_id = owner, !.pc = "read"]
  /\ UNCHANGED <<chainVars, rotation>>

fetch_upgrade_proposal ==
  /\ upgrade.pc = "read"
  /\ upgrade' = IF upgrade.committee_id = owner
                THEN [upgrade EXCEPT !.value = ProposalVersion, !.read = proposal,
                                     !.changed = TRUE, !.pc = "fetch"]
                ELSE [upgrade EXCEPT !.pc = "fetch"]
  /\ UNCHANGED <<chainVars, rotation>>

\* The task starts with the first value as the last one seen.
UpgradeMonitorStarts ==
  /\ ~upgrade.started /\ upgrade.changed
  /\ upgrade' = [upgrade EXCEPT !.started = TRUE, !.changed = FALSE, !.last_proposal_id = upgrade.value]
  /\ UNCHANGED <<chainVars, rotation>>

NewProposal(id, last) == id # 0 /\ id # last

UpgradeMonitorWakes ==
  /\ upgrade.started /\ upgrade.changed
  /\ upgrade' = [upgrade EXCEPT
       !.changed = FALSE, !.last_proposal_id = upgrade.value,
       !.alerts = IF NewProposal(upgrade.value, upgrade.last_proposal_id)
                  THEN Append(@, upgrade.read) ELSE @]
  /\ UNCHANGED <<chainVars, rotation>>

-----------------------------------------------------------------------------
Init ==
  /\ owner = 0 /\ events = <<>> /\ proposal = 0 /\ created = 0 /\ package = 1
  /\ rotation = [pc |-> "fetch", committee_id |-> 0, initialized |-> FALSE,
                 last_event_seq |-> 0, started_at |-> 0, alerts |-> <<>>]
  /\ upgrade = [pc |-> "fetch", committee_id |-> 0, value |-> 0, read |-> 0, changed |-> FALSE,
                started |-> FALSE, last_proposal_id |-> 0, alerts |-> <<>>]

Chain == InitRotation \/ FinalizeRotation \/ Propose \/ Rejected \/ Upgraded

RotationMonitor == FetchCommittee \/ InitCursor \/ QueryEvents
Updater == FetchOwner \/ fetch_upgrade_proposal
UpgradeMonitor == UpgradeMonitorStarts \/ UpgradeMonitorWakes

Next == Chain \/ RotationMonitor \/ RotationReadFails \/ Updater \/ UpgradeMonitor

Spec == Init /\ [][Next]_vars

\* The rotation monitor keeps running, and its reads do not fail every time they are tried.
FairSpec ==
  /\ Spec
  /\ SF_vars(InitCursor) /\ SF_vars(QueryEvents) /\ WF_vars(FetchCommittee)

-----------------------------------------------------------------------------
\* The rotation monitor tells the events since its start, each once and in their order.
AlertsInOrder ==
  rotation.alerts = [k \in 1..Len(rotation.alerts) |-> rotation.started_at + k]

\* Every rotation initiated after the start is told, however many come between two rounds.
EveryRotationTold ==
  \A e \in 1..MaxEvents :
    (rotation.initialized /\ e > rotation.started_at /\ e <= Len(events))
      ~> (\E k \in DOMAIN rotation.alerts : rotation.alerts[k] = e)

=============================================================================
