---------------------------- MODULE DkgCeremony ----------------------------
(***************************************************************************)
(* The DKG ceremony as the committee CLI runs it                           *)
(* (crates/seal-committee-cli/src/main.rs): a coordinator creates the      *)
(* committee and passes files around, each member generates keys,          *)
(* registers, creates a message, and processes everyone's messages into a  *)
(* proposal.  A command is a sequence of file writes and transactions; the *)
(* process may stop between any two of them, a transaction may be executed *)
(* late or never, and what is left on disk decides what the next command   *)
(* does.  A ceremony starts a key server's life or rotates its committee.  *)
(*                                                                         *)
(* Cryptography is abstracted to what it is computed from: a key is its    *)
(* generation, a message its sender, committee and serial number, and the  *)
(* outputs of the protocol (public key, partial keys, each member's share, *)
(* messages_hash) are the set of messages processed.  Commands that fail   *)
(* before their first write change nothing and are no step.  A definition  *)
(* named X_Suffix is a faulty variant of X that no specification uses.     *)
(***************************************************************************)
EXTENDS Integers, FiniteSets

CONSTANTS
  Member,        \* everybody who may be a member
  CommitteeId,   \* committees the coordinator may create
  Plan,          \* the ceremonies to consider
  None

\* A ceremony: the members, is it a rotation, the continuing members and the threshold of the old
\* committee, and bounds: on the keys and messages each member generates, on the crashes and
\* lost transactions, on restarts and on repeated message rounds.
ASSUME CeremonyConstants ==
  /\ IsFiniteSet(Member)
  /\ \A p \in Plan :
       /\ p.members \subseteq Member /\ p.members # {}
       /\ p.rotating \in BOOLEAN
       /\ p.continuing \subseteq p.members
       /\ p.old_threshold \in 0..Cardinality(p.continuing)
       /\ p.rotating => p.old_threshold > 0
       /\ {p.keys, p.messages, p.faults, p.restarts, p.reopens} \subseteq Nat
  /\ None \notin CommitteeId /\ None \notin Nat

\* None is no set of messages either.
ASSUME NoneIsNoOutput ==
  \A p \in Plan :
    \A msgs \in SUBSET [from : p.members, committee : CommitteeId, serial : 1..p.messages] :
      msgs # None

VARIABLES
  plan,         \* the ceremony, chosen once
  committees,   \* on chain: what each committee object holds
  old_current,  \* on chain: the old committee still owns the key server
  txs,          \* transactions built and not yet executed
  coordinator,  \* the coordinator's process, dkg.yaml and message directory
  disk,         \* each member's dkg.yaml, dkg.key, state.json, message and directory
  proc,         \* each member's process
  made,         \* how many keys and messages each member has generated
  budget        \* what is left of the bounds

vars == <<plan, committees, old_current, txs, coordinator, disk, proc, made, budget>>

Message == [from : plan.members, committee : CommitteeId, serial : 1..plan.messages]
NoOutputs == [pk |-> None, partials |-> None, share |-> None]
Idle == [pc |-> "idle", out |-> {}]

\* A rotation takes the messages of the old threshold, a fresh ceremony everyone's.
MessagesNeeded == IF plan.rotating THEN plan.old_threshold ELSE Cardinality(plan.members)

MayFault == budget.faults > 0
Fault == budget' = [budget EXCEPT !.faults = @ - 1]

-----------------------------------------------------------------------------
\* On chain: a transaction takes effect if the committee's checks pass, else it aborts.
RegisterOk(c, m) ==
  /\ committees[c].proposal = None
  /\ committees[c].registered[m] = None

ProposeOk(c, m, s) ==
  /\ \A n \in plan.members : committees[c].registered[n] # None
  /\ m \notin committees[c].approvals
  /\ committees[c].proposal \in {None, s}
  /\ ~committees[c].finalized
  /\ plan.rotating => old_current

Registered(tx) == [committees EXCEPT ![tx.committee].registered[tx.member] = tx.key]

Proposed(tx) ==
  LET approvals == committees[tx.committee].approvals \cup {tx.member}
  IN  [committees EXCEPT ![tx.committee].proposal = tx.out,
                         ![tx.committee].approvals = approvals,
                         ![tx.committee].finalized = (approvals = plan.members)]

Execute(tx) ==
  /\ txs' = txs \ {tx}
  /\ \/ /\ tx.kind = "register" /\ RegisterOk(tx.committee, tx.member)
        /\ committees' = Registered(tx) /\ UNCHANGED old_current
     \/ /\ tx.kind = "propose" /\ ProposeOk(tx.committee, tx.member, tx.out)
        /\ committees' = Proposed(tx)
        /\ old_current' = (old_current /\ ~committees'[tx.committee].finalized)
     \/ /\ tx.kind = "register" /\ ~RegisterOk(tx.committee, tx.member)
        /\ UNCHANGED <<committees, old_current>>
     \/ /\ tx.kind = "propose" /\ ~ProposeOk(tx.committee, tx.member, tx.out)
        /\ UNCHANGED <<committees, old_current>>
  /\ UNCHANGED <<plan, coordinator, disk, proc, made, budget>>

\* Unsigned bytes that nobody signs, a gas coin spent meanwhile, a node that loses it.
Lose(tx) ==
  /\ MayFault /\ Fault
  /\ txs' = txs \ {tx}
  /\ UNCHANGED <<plan, committees, old_current, coordinator, disk, proc, made>>

-----------------------------------------------------------------------------
\* init-rotation finds the current committee through the key server.
RotationReady == plan.rotating => old_current

\* The coordinator: publish-and-init or init-rotation, then the field COMMITTEE_ID.
CreateCommittee ==
  /\ coordinator.committee = None /\ coordinator.created = None
  /\ RotationReady
  /\ \E c \in CommitteeId :
       /\ ~committees[c].created
       /\ committees' = [committees EXCEPT ![c].created = TRUE]
       /\ coordinator' = [coordinator EXCEPT !.created = c]
  /\ UNCHANGED <<plan, old_current, txs, disk, proc, made, budget>>

SaveCommitteeId ==
  /\ coordinator.created # None
  /\ coordinator' = [coordinator EXCEPT !.committee = coordinator.created, !.created = None]
  /\ UNCHANGED <<plan, committees, old_current, txs, disk, proc, made, budget>>

\* A crash between the two leaves a committee nobody names; the next run creates another.
CoordinatorCrashes ==
  /\ coordinator.created # None
  /\ MayFault /\ Fault
  /\ coordinator' = [coordinator EXCEPT !.created = None]
  /\ UNCHANGED <<plan, committees, old_current, txs, disk, proc, made>>

\* "Remove these fields from config to reinitialize."
Restart ==
  /\ coordinator.committee # None /\ ~committees[coordinator.committee].finalized
  /\ budget.restarts > 0
  /\ budget' = [budget EXCEPT !.restarts = @ - 1]
  /\ coordinator' = [committee |-> None, created |-> None, dir |-> {}, announced |-> FALSE]
  /\ UNCHANGED <<plan, committees, old_current, txs, disk, proc, made>>

\* The coordinator sends its dkg.yaml, which replaces the member's; the member may or may not
\* start from an empty directory.
Distribute(m) ==
  /\ coordinator.committee # None /\ disk[m].committee # coordinator.committee
  /\ proc[m] = Idle
  /\ \E wiped \in BOOLEAN :
       disk' = [disk EXCEPT ![m] =
         [committee |-> coordinator.committee, me |-> FALSE, pk |-> None, outputs |-> NoOutputs,
          key     |-> IF wiped THEN 0 ELSE disk[m].key,
          state   |-> IF wiped THEN None ELSE disk[m].state,
          message |-> IF wiped THEN None ELSE disk[m].message,
          dir     |-> IF wiped THEN {} ELSE disk[m].dir]]
  /\ UNCHANGED <<plan, committees, old_current, txs, coordinator, proc, made, budget>>

\* Message files are collected until Phase C is announced with a directory.
Collect(m) ==
  /\ ~coordinator.announced
  /\ disk[m].message # None
  /\ disk[m].message.committee = coordinator.committee
  /\ coordinator' = [coordinator EXCEPT
       !.dir = {msg \in @ : msg.from # m} \cup {disk[m].message}]
  /\ UNCHANGED <<plan, committees, old_current, txs, disk, proc, made, budget>>

Announce ==
  /\ ~coordinator.announced
  /\ Cardinality(coordinator.dir) >= MessagesNeeded
  /\ coordinator.dir # {}
  /\ \E dir \in SUBSET coordinator.dir :
       /\ Cardinality(dir) = MessagesNeeded
       /\ coordinator' = [coordinator EXCEPT !.dir = dir, !.announced = TRUE]
  /\ UNCHANGED <<plan, committees, old_current, txs, disk, proc, made, budget>>

Reopen ==
  /\ coordinator.announced
  /\ budget.reopens > 0
  /\ budget' = [budget EXCEPT !.reopens = @ - 1]
  /\ coordinator' = [coordinator EXCEPT !.announced = FALSE]
  /\ UNCHANGED <<plan, committees, old_current, txs, disk, proc, made>>

Receive(m) ==
  /\ coordinator.announced
  /\ disk[m].committee = coordinator.committee /\ disk[m].dir # coordinator.dir
  /\ disk' = [disk EXCEPT ![m].dir = coordinator.dir]
  /\ UNCHANGED <<plan, committees, old_current, txs, coordinator, proc, made, budget>>

-----------------------------------------------------------------------------
\* genkey-and-register: dkg.key, then DKG_ENC_PK and DKG_SIGNING_PK, then the transaction.
\* Keys are generated unless dkg.yaml has the public ones.
Tx(kind, m, key, out) ==
  [kind |-> kind, member |-> m, committee |-> disk[m].committee, key |-> key, out |-> out]

GenerateKeys(m) ==
  /\ proc[m] = Idle
  /\ disk[m].committee # None /\ disk[m].pk = None
  /\ made[m].keys < plan.keys
  /\ made' = [made EXCEPT ![m].keys = @ + 1]
  /\ disk' = [disk EXCEPT ![m].me = TRUE, ![m].key = made'[m].keys]
  /\ proc' = [proc EXCEPT ![m].pc = "save_keys"]
  /\ UNCHANGED <<plan, committees, old_current, txs, coordinator, budget>>

SaveKeys(m) ==
  /\ proc[m].pc = "save_keys"
  /\ disk' = [disk EXCEPT ![m].pk = disk[m].key]
  /\ proc' = [proc EXCEPT ![m].pc = "register"]
  /\ UNCHANGED <<plan, committees, old_current, txs, coordinator, made, budget>>

SubmitRegister(m) ==
  /\ proc[m].pc = "register"
  /\ txs' = txs \cup {Tx("register", m, disk[m].key, {})}
  /\ proc' = [proc EXCEPT ![m] = Idle]
  /\ UNCHANGED <<plan, committees, old_current, coordinator, disk, made, budget>>

-----------------------------------------------------------------------------
\* create-message and init-state (create_dkg_state_and_message).  Everyone must be registered
\* and dkg.key must hold the registered keys; in a rotation only the continuing members,
\* who give the right old share, create a message.
AllRegistered(c) == \A n \in plan.members : committees[c].registered[n] # None

Sends(m) == ~plan.rotating \/ m \in plan.continuing

OwnKeyRegistered_Unchecked(m) == TRUE

OwnKeyRegistered(m) == disk[m].key = committees[disk[m].committee].registered[m]

CreateMessage(m) ==
  /\ proc[m] = Idle
  /\ disk[m].me
  /\ AllRegistered(disk[m].committee) /\ ~committees[disk[m].committee].finalized
  /\ OwnKeyRegistered(m)
  /\ plan.rotating => old_current
  /\ IF Sends(m)
     THEN /\ made[m].messages < plan.messages
          /\ made' = [made EXCEPT ![m].messages = @ + 1]
          /\ disk' = [disk EXCEPT ![m].message =
               [from |-> m, committee |-> disk[m].committee, serial |-> made'[m].messages]]
     ELSE UNCHANGED <<made, disk>>
  /\ proc' = [proc EXCEPT ![m].pc = "save_state"]
  /\ UNCHANGED <<plan, committees, old_current, txs, coordinator, budget>>

SaveState(m) ==
  /\ proc[m].pc = "save_state"
  /\ disk' = [disk EXCEPT ![m].state = disk[m].committee]
  /\ proc' = [proc EXCEPT ![m] = Idle]
  /\ UNCHANGED <<plan, committees, old_current, txs, coordinator, made, budget>>

-----------------------------------------------------------------------------
\* process-all-and-propose: the checks, the outputs field by field, then the transaction.
Senders(msgs) == {msg.from : msg \in msgs}

validate_rotation_message_senders(msgs) ==
  /\ Cardinality(Senders(msgs)) = plan.old_threshold
  /\ Senders(msgs) \subseteq plan.continuing

MessagesComplete_Short(msgs) == Cardinality(msgs) = Cardinality(plan.members) - 1

\* One message per sender: of exactly old threshold continuing members, or of everyone.
MessagesComplete(msgs) ==
  /\ Cardinality(Senders(msgs)) = Cardinality(msgs)
  /\ IF plan.rotating THEN validate_rotation_message_senders(msgs)
     ELSE Cardinality(msgs) = Cardinality(plan.members)

verify_signature_AnyCommittee(c, msg) == TRUE

\* The signature covers the committee.
verify_signature(c, msg) == msg.committee = c

existing_process_output_fields_ShareOnly(outputs) == outputs.pk # None /\ outputs.share # None

\* Fields of an earlier run.  KEY_SERVER_PK is an output of a fresh DKG only.
existing_process_output_fields(outputs) == outputs # NoOutputs

process_dkg_messages(m) ==
  /\ disk[m].dir # {}
  /\ MessagesComplete(disk[m].dir)
  /\ OwnKeyRegistered(m)
  /\ \A msg \in disk[m].dir : verify_signature(disk[m].state, msg)

Process(m) ==
  /\ proc[m] = Idle
  /\ disk[m].me
  /\ disk[m].state = disk[m].committee
  /\ plan.rotating => old_current
  /\ ~existing_process_output_fields(disk[m].outputs)
  /\ process_dkg_messages(m)
  /\ proc' = [proc EXCEPT ![m] =
       [pc |-> IF plan.rotating THEN "partials" ELSE "pk", out |-> disk[m].dir]]
  /\ UNCHANGED <<plan, committees, old_current, txs, coordinator, disk, made, budget>>

\* persist_process_outputs writes dkg.yaml once for each field.
Persist(m, pc, field, then) ==
  /\ proc[m].pc = pc
  /\ disk' = [disk EXCEPT ![m].outputs[field] = proc[m].out]
  /\ proc' = [proc EXCEPT ![m].pc = then]
  /\ UNCHANGED <<plan, committees, old_current, txs, coordinator, made, budget>>

SubmitProposal(m) ==
  /\ proc[m].pc = "propose"
  /\ txs' = txs \cup {Tx("propose", m, 0, proc[m].out)}
  /\ proc' = [proc EXCEPT ![m] = Idle]
  /\ UNCHANGED <<plan, committees, old_current, coordinator, disk, made, budget>>

persist_process_outputs_ShareLast(m) ==
  \/ Persist(m, "pk", "pk", "partials")
  \/ /\ proc[m].pc = "partials"
     /\ txs' = txs \cup {Tx("propose", m, 0, proc[m].out)}
     /\ proc' = [proc EXCEPT ![m].pc = "share"]
     /\ UNCHANGED <<plan, committees, old_current, coordinator, disk, made, budget>>
  \/ Persist(m, "share", "share", "propose")

persist_process_outputs(m) ==
  \/ Persist(m, "pk", "pk", "partials")
  \/ Persist(m, "partials", "partials", "share")
  \/ Persist(m, "share", "share", "propose")

-----------------------------------------------------------------------------
MemberCrashes(m) ==
  /\ proc[m] # Idle
  /\ MayFault /\ Fault
  /\ proc' = [proc EXCEPT ![m] = Idle]
  /\ UNCHANGED <<plan, committees, old_current, txs, coordinator, disk, made>>

\* What the messages of the CLI tell the operator to remove before running a command again:
\* the keys unless they are registered, the outputs unless they are proposed.  The operator
\* waits for its own transactions first.
Waiting(m) == \E tx \in txs : tx.member = m /\ tx.committee = disk[m].committee

RemoveKeys(m) ==
  /\ proc[m] = Idle /\ ~Waiting(m)
  /\ disk[m].pk # None
  /\ committees[disk[m].committee].registered[m] = None
  /\ disk' = [disk EXCEPT ![m].me = FALSE, ![m].pk = None]
  /\ UNCHANGED <<plan, committees, old_current, txs, coordinator, proc, made, budget>>

RemoveOutputs(m) ==
  /\ proc[m] = Idle /\ ~Waiting(m)
  /\ disk[m].outputs # NoOutputs
  /\ m \notin committees[disk[m].committee].approvals
  /\ disk' = [disk EXCEPT ![m].outputs = NoOutputs]
  /\ UNCHANGED <<plan, committees, old_current, txs, coordinator, proc, made, budget>>

-----------------------------------------------------------------------------
Init ==
  /\ plan \in Plan
  /\ committees = [c \in CommitteeId |->
       [created |-> FALSE, registered |-> [m \in plan.members |-> None], proposal |-> None,
        approvals |-> {}, finalized |-> FALSE]]
  /\ old_current = plan.rotating
  /\ txs = {}
  /\ coordinator = [committee |-> None, created |-> None, dir |-> {}, announced |-> FALSE]
  /\ disk = [m \in plan.members |->
       [committee |-> None, me |-> FALSE, pk |-> None, outputs |-> NoOutputs, key |-> 0,
        state |-> None, message |-> None, dir |-> {}]]
  /\ proc = [m \in plan.members |-> Idle]
  /\ made = [m \in plan.members |-> [keys |-> 0, messages |-> 0]]
  /\ budget = [faults |-> plan.faults, restarts |-> plan.restarts, reopens |-> plan.reopens]

Coordinate == CreateCommittee \/ SaveCommitteeId

Command(m) ==
  \/ SaveKeys(m) \/ SubmitRegister(m)
  \/ SaveState(m)
  \/ persist_process_outputs(m) \/ SubmitProposal(m)

Next ==
  \/ \E tx \in txs : Execute(tx) \/ Lose(tx)
  \/ Coordinate \/ CoordinatorCrashes \/ Restart \/ Announce \/ Reopen
  \/ \E m \in plan.members :
       \/ Distribute(m) \/ Collect(m) \/ Receive(m)
       \/ GenerateKeys(m) \/ CreateMessage(m) \/ Process(m) \/ Command(m)
       \/ MemberCrashes(m) \/ RemoveKeys(m) \/ RemoveOutputs(m)

Spec == Init /\ [][Next]_vars

\* Transactions are executed, running commands go on, and everyone does what is left to do:
\* a member without a saved state creates one, and so on.  A member that may process, or remove
\* outputs, does so although it could also repeat create-message or init-state for ever.
FairSpec ==
  /\ Spec
  /\ WF_vars(\E tx \in txs : Execute(tx))
  /\ WF_vars(Coordinate) /\ WF_vars(Announce)
  /\ \A m \in Member :
       /\ WF_vars(m \in plan.members /\ Distribute(m))
       /\ WF_vars(m \in plan.members /\ Receive(m))
       /\ WF_vars(m \in plan.members /\ Collect(m) /\ disk[m].message \notin coordinator.dir)
       /\ WF_vars(m \in plan.members /\ Command(m))
       /\ WF_vars(m \in plan.members /\ GenerateKeys(m))
       /\ WF_vars(m \in plan.members /\ CreateMessage(m) /\ disk[m].state # disk[m].committee)
       /\ SF_vars(m \in plan.members /\ Process(m))
       /\ WF_vars(m \in plan.members /\ RemoveKeys(m))
       /\ SF_vars(m \in plan.members /\ RemoveOutputs(m))

-----------------------------------------------------------------------------
\* A member whose approval is on chain has, in the dkg.yaml of that committee, the share the
\* approved proposal was computed with: persist_process_outputs comes before the transaction,
\* and a new run does not overwrite what an earlier one wrote.
ApprovedShareOnDisk ==
  \A c \in CommitteeId : \A m \in committees[c].approvals :
    disk[m].committee = c => disk[m].outputs.share = committees[c].proposal

\* A committee's proposal was computed from messages made for that committee, one from each
\* party that has to send one, although directories and state of an abandoned committee
\* are still on the members' disks.
ProposalFromOwnMessages ==
  \A c \in CommitteeId :
    committees[c].proposal # None =>
      LET msgs == committees[c].proposal
      IN  /\ \A msg \in msgs : msg.committee = c /\ Sends(msg.from)
          /\ \A m1, m2 \in msgs : m1.from = m2.from => m1 = m2
          /\ Cardinality(msgs) = MessagesNeeded

\* The outputs on disk are never a mixture of two runs.
OutputsOfOneRun ==
  \A m \in plan.members :
    LET o == disk[m].outputs
    IN  \A f, g \in DOMAIN o : o[f] # None /\ o[g] # None => o[f] = o[g]

\* A ceremony without restarts and with one message round ends with a finalized committee in
\* spite of crashes and lost transactions.
Finalizes ==
  (plan.restarts = 0 /\ plan.reopens = 0) => <>(\E c \in CommitteeId : committees[c].finalized)

=============================================================================
