------------------------- MODULE DkgCeremonyProofs -------------------------
(***************************************************************************)
(* TLAPS proofs about the DKG ceremony, for any members, threshold and     *)
(* number of committees, crashes, lost transactions and restarts: the      *)
(* share a member approved is the one on its disk, a proposal is computed  *)
(* from one message of each sender made for that committee, and the        *)
(* outputs on disk are of one run.                                         *)
(***************************************************************************)
EXTENDS DkgCeremony, TLAPS

-----------------------------------------------------------------------------
Id == CommitteeId \cup {None}

\* Message, and what a proposal's messages have to be, for a ceremony p.
MessageOf(p) == [from : p.members, committee : CommitteeId, serial : 1..p.messages]

\* As many messages as senders, made for committee c, and as many as are needed.
OwnMessages(p, msgs, c) ==
  /\ \A msg \in msgs : msg.committee = c /\ (~p.rotating \/ msg.from \in p.continuing)
  /\ Cardinality(Senders(msgs)) = Cardinality(msgs)
  /\ Cardinality(msgs) = IF p.rotating THEN p.old_threshold ELSE Cardinality(p.members)

\* A run of process-all-and-propose between its checks and its transaction.
Processing == {"pk", "partials", "share", "propose"}

DiskShape(d) ==
  /\ d = [committee |-> d.committee, me |-> d.me, pk |-> d.pk, outputs |-> d.outputs,
          key |-> d.key, state |-> d.state, message |-> d.message, dir |-> d.dir]
  /\ d.outputs = [pk |-> d.outputs.pk, partials |-> d.outputs.partials,
                  share |-> d.outputs.share]

DiskType(p, d) ==
  /\ DiskShape(d)
  /\ d.committee \in Id
  /\ d.message = None \/ d.message \in MessageOf(p)
  /\ d.dir \subseteq MessageOf(p)
  /\ d.me => d.committee # None

ProcType(p, pr) == pr = [pc |-> pr.pc, out |-> pr.out] /\ pr.out \subseteq MessageOf(p)

CommitteeShape(k) ==
  k = [created |-> k.created, registered |-> k.registered, proposal |-> k.proposal,
       approvals |-> k.approvals, finalized |-> k.finalized]

CommitteeType(p, k) ==
  /\ CommitteeShape(k)
  /\ k.approvals \subseteq p.members
  /\ k.proposal = None \/ k.proposal \subseteq MessageOf(p)
  /\ k.proposal = None => k.approvals = {}

CoordinatorType(p, k) ==
  /\ k = [committee |-> k.committee, created |-> k.created, dir |-> k.dir,
          announced |-> k.announced]
  /\ k.committee \in Id /\ k.created \in Id
  /\ k.committee = None \/ k.created = None
  /\ k.dir \subseteq MessageOf(p)

TxType(p, tx) ==
  /\ tx.member \in p.members /\ tx.committee \in CommitteeId
  /\ tx.kind = "propose" => tx.out \subseteq MessageOf(p)

MadeType(p, k) ==
  k = [keys |-> k.keys, messages |-> k.messages] /\ k.messages \in 0..p.messages

\* What is on chain, on disk and in flight is of its type; a running command belongs to a
\* committee.
CeremonyType ==
  /\ plan \in Plan
  /\ DOMAIN committees = CommitteeId
  /\ \A c \in CommitteeId : CommitteeType(plan, committees[c])
  /\ \A tx \in txs : TxType(plan, tx)
  /\ CoordinatorType(plan, coordinator)
  /\ DOMAIN disk = plan.members /\ \A m \in plan.members : DiskType(plan, disk[m])
  /\ DOMAIN proc = plan.members /\ \A m \in plan.members : ProcType(plan, proc[m])
  /\ DOMAIN made = plan.members /\ \A m \in plan.members : MadeType(plan, made[m])
  /\ \A m \in plan.members : proc[m].pc # "idle" => disk[m].committee # None

\* With committees k and transactions ts, m has a proposal for c on chain or in flight.
HasProposed(k, ts, c, m) ==
  \/ m \in k[c].approvals
  \/ \E tx \in ts : tx.kind = "propose" /\ tx.member = m /\ tx.committee = c

\* Only committees that exist are named anywhere, and a member that has proposed to a committee
\* and left it does not come back to it: the coordinator does not name it any more.
NamesInv ==
  /\ \A c \in CommitteeId : ~committees[c].created =>
       /\ coordinator.committee # c /\ coordinator.created # c
       /\ \A m \in plan.members : disk[m].committee # c /\ ~HasProposed(committees, txs, c, m)
  /\ \A c \in CommitteeId : \A m \in plan.members :
       HasProposed(committees, txs, c, m) /\ disk[m].committee # c =>
         coordinator.committee # c /\ coordinator.created # c

\* A run has checked its messages, writes fields that are empty, and has written the share
\* before it proposes.
RunOk(p, pr, d) ==
  pr.pc \in Processing =>
    /\ OwnMessages(p, pr.out, d.committee)
    /\ d.outputs.pk \in {None, pr.out}
    /\ d.outputs.partials \in {None, pr.out}
    /\ d.outputs.share \in {None, pr.out}
    /\ pr.pc = "propose" => d.outputs.share = pr.out

\* ... and is the first since the outputs were removed.
RunsInv ==
  \A m \in plan.members :
    /\ RunOk(plan, proc[m], disk[m])
    /\ proc[m].pc \in Processing => ~HasProposed(committees, txs, disk[m].committee, m)

\* A proposal, in flight or on chain, has its share on the member's disk.
ShareInv ==
  /\ \A tx \in txs : tx.kind = "propose" /\ disk[tx.member].committee = tx.committee =>
       disk[tx.member].outputs.share = tx.out
  /\ ApprovedShareOnDisk

ProposalInv ==
  /\ \A tx \in txs : tx.kind = "propose" => OwnMessages(plan, tx.out, tx.committee)
  /\ \A c \in CommitteeId :
       committees[c].proposal # None => OwnMessages(plan, committees[c].proposal, c)

\* The fields of one member's outputs that are set agree.
OneRun(o) ==
  /\ o.pk # None /\ o.partials # None => o.pk = o.partials
  /\ o.pk # None /\ o.share # None => o.pk = o.share
  /\ o.partials # None /\ o.share # None => o.partials = o.share

CeremonyInv ==
  /\ CeremonyType /\ NamesInv /\ RunsInv /\ ShareInv /\ ProposalInv
  /\ \A m \in plan.members : OneRun(disk[m].outputs)

-----------------------------------------------------------------------------
\* What process_dkg_messages has checked.
LEMMA CheckedMessages ==
  ASSUME NEW m, process_dkg_messages(m)
  PROVE  OwnMessages(plan, disk[m].dir, disk[m].state)
<1> DEFINE msgs == disk[m].dir
<1>1. /\ Cardinality(Senders(msgs)) = Cardinality(msgs)
      /\ IF plan.rotating THEN validate_rotation_message_senders(msgs)
         ELSE Cardinality(msgs) = Cardinality(plan.members)
      /\ \A msg \in msgs : msg.committee = disk[m].state
  BY DEF process_dkg_messages, MessagesComplete, verify_signature
<1> HIDE DEF msgs
<1>2. \A msg \in msgs : ~plan.rotating \/ msg.from \in plan.continuing
  BY <1>1 DEF validate_rotation_message_senders, Senders
<1>3. Cardinality(msgs) = IF plan.rotating THEN plan.old_threshold ELSE Cardinality(plan.members)
  BY <1>1 DEF validate_rotation_message_senders
<1>4. OwnMessages(plan, msgs, disk[m].state)
  BY <1>1, <1>2, <1>3 DEF OwnMessages
<1> QED BY <1>4 DEF msgs

\* None is no set of messages, so a field that is written is not empty.
LEMMA WrittenIsSet ==
  ASSUME NEW p \in Plan, NEW out, out \subseteq MessageOf(p)
  PROVE  out # None
  BY NoneIsNoOutput DEF MessageOf

-----------------------------------------------------------------------------
\* The writes to a member's files, field by field.
LEMMA WriteDir ==
  ASSUME NEW p, NEW d, DiskType(p, d), NEW x, x \subseteq MessageOf(p),
         NEW e, e = [d EXCEPT !.dir = x]
  PROVE  DiskType(p, e) /\ e.committee = d.committee /\ e.outputs = d.outputs
<1>1. e = [committee |-> d.committee, me |-> d.me, pk |-> d.pk, outputs |-> d.outputs,
           key |-> d.key, state |-> d.state, message |-> d.message, dir |-> x]
  BY DEF DiskType, DiskShape
<1>2. /\ e.committee = d.committee /\ e.me = d.me /\ e.outputs = d.outputs
      /\ e.message = d.message /\ e.dir = x
  BY <1>1
<1>3. DiskShape(e)
  BY <1>1, <1>2 DEF DiskType, DiskShape
<1> QED BY <1>2, <1>3 DEF DiskType

LEMMA WriteMe ==
  ASSUME NEW p, NEW d, DiskType(p, d), d.committee # None, NEW x, NEW e, e = [d EXCEPT !.me = x]
  PROVE  DiskType(p, e) /\ e.committee = d.committee /\ e.outputs = d.outputs
<1>1. e = [committee |-> d.committee, me |-> x, pk |-> d.pk, outputs |-> d.outputs,
           key |-> d.key, state |-> d.state, message |-> d.message, dir |-> d.dir]
  BY DEF DiskType, DiskShape
<1>2. /\ e.committee = d.committee /\ e.outputs = d.outputs
      /\ e.message = d.message /\ e.dir = d.dir
  BY <1>1
<1>3. DiskShape(e)
  BY <1>1, <1>2 DEF DiskType, DiskShape
<1> QED BY <1>2, <1>3 DEF DiskType

LEMMA WriteKey ==
  ASSUME NEW p, NEW d, DiskType(p, d), NEW k, NEW e, e = [d EXCEPT !.key = k]
  PROVE  DiskType(p, e) /\ e.committee = d.committee /\ e.outputs = d.outputs
<1>1. e = [committee |-> d.committee, me |-> d.me, pk |-> d.pk, outputs |-> d.outputs,
           key |-> k, state |-> d.state, message |-> d.message, dir |-> d.dir]
  BY DEF DiskType, DiskShape
<1>2. /\ e.committee = d.committee /\ e.me = d.me /\ e.outputs = d.outputs
      /\ e.message = d.message /\ e.dir = d.dir
  BY <1>1
<1>3. DiskShape(e)
  BY <1>1, <1>2 DEF DiskType, DiskShape
<1> QED BY <1>2, <1>3 DEF DiskType

LEMMA WritePk ==
  ASSUME NEW p, NEW d, DiskType(p, d), NEW k, NEW e, e = [d EXCEPT !.pk = k]
  PROVE  DiskType(p, e) /\ e.committee = d.committee /\ e.outputs = d.outputs
<1>1. e = [committee |-> d.committee, me |-> d.me, pk |-> k, outputs |-> d.outputs,
           key |-> d.key, state |-> d.state, message |-> d.message, dir |-> d.dir]
  BY DEF DiskType, DiskShape
<1>2. /\ e.committee = d.committee /\ e.me = d.me /\ e.outputs = d.outputs
      /\ e.message = d.message /\ e.dir = d.dir
  BY <1>1
<1>3. DiskShape(e)
  BY <1>1, <1>2 DEF DiskType, DiskShape
<1> QED BY <1>2, <1>3 DEF DiskType

LEMMA WriteMessage ==
  ASSUME NEW p, NEW d, DiskType(p, d), NEW x \in MessageOf(p),
         NEW e, e = [d EXCEPT !.message = x]
  PROVE  DiskType(p, e) /\ e.committee = d.committee /\ e.outputs = d.outputs
<1>1. e = [committee |-> d.committee, me |-> d.me, pk |-> d.pk, outputs |-> d.outputs,
           key |-> d.key, state |-> d.state, message |-> x, dir |-> d.dir]
  BY DEF DiskType, DiskShape
<1>2. /\ e.committee = d.committee /\ e.me = d.me /\ e.outputs = d.outputs
      /\ e.message = x /\ e.dir = d.dir
  BY <1>1
<1>3. DiskShape(e)
  BY <1>1, <1>2 DEF DiskType, DiskShape
<1> QED BY <1>2, <1>3 DEF DiskType

LEMMA WriteState ==
  ASSUME NEW p, NEW d, DiskType(p, d), NEW x, NEW e, e = [d EXCEPT !.state = x]
  PROVE  DiskType(p, e) /\ e.committee = d.committee /\ e.outputs = d.outputs
<1>1. e = [committee |-> d.committee, me |-> d.me, pk |-> d.pk, outputs |-> d.outputs,
           key |-> d.key, state |-> x, message |-> d.message, dir |-> d.dir]
  BY DEF DiskType, DiskShape
<1>2. /\ e.committee = d.committee /\ e.me = d.me /\ e.outputs = d.outputs
      /\ e.message = d.message /\ e.dir = d.dir
  BY <1>1
<1>3. DiskShape(e)
  BY <1>1, <1>2 DEF DiskType, DiskShape
<1> QED BY <1>2, <1>3 DEF DiskType

LEMMA ForgetKeys ==
  ASSUME NEW p, NEW d, DiskType(p, d),
         NEW e, e = [[d EXCEPT !.me = FALSE] EXCEPT !.pk = None]
  PROVE  DiskType(p, e) /\ e.committee = d.committee /\ e.outputs = d.outputs
<1>1. e = [committee |-> d.committee, me |-> FALSE, pk |-> None, outputs |-> d.outputs,
           key |-> d.key, state |-> d.state, message |-> d.message, dir |-> d.dir]
  BY ZenonT(30) DEF DiskType, DiskShape
<1>2. /\ e.committee = d.committee /\ e.me = FALSE /\ e.outputs = d.outputs
      /\ e.message = d.message /\ e.dir = d.dir
  BY <1>1
<1>3. DiskShape(e)
  BY <1>1, <1>2, ZenonT(30) DEF DiskType, DiskShape
<1> QED BY <1>2, <1>3 DEF DiskType

LEMMA WriteOutputs ==
  ASSUME NEW p, NEW d, DiskType(p, d), NEW a, NEW b, NEW s, NEW e,
         e = [d EXCEPT !.outputs = [pk |-> a, partials |-> b, share |-> s]]
  PROVE  /\ DiskType(p, e) /\ e.committee = d.committee
         /\ e.outputs.pk = a /\ e.outputs.partials = b /\ e.outputs.share = s
<1> DEFINE o == [pk |-> a, partials |-> b, share |-> s]
<1>0. o.pk = a /\ o.partials = b /\ o.share = s
      /\ o = [pk |-> o.pk, partials |-> o.partials, share |-> o.share]
  OBVIOUS
<1>1. e = [d EXCEPT !.outputs = o]
  OBVIOUS
<1> HIDE DEF o
<1>2. e = [committee |-> d.committee, me |-> d.me, pk |-> d.pk, outputs |-> o,
           key |-> d.key, state |-> d.state, message |-> d.message, dir |-> d.dir]
  BY <1>1 DEF DiskType, DiskShape
<1>3. /\ e.committee = d.committee /\ e.me = d.me /\ e.outputs = o
      /\ e.message = d.message /\ e.dir = d.dir
  BY <1>2
<1>4. DiskShape(e)
  BY <1>0, <1>2, <1>3, ZenonT(30) DEF DiskShape
<1> QED BY <1>0, <1>3, <1>4 DEF DiskType

\* The dkg.yaml of another committee.
FilesOf(d, c, w) ==
  [committee |-> c, me |-> FALSE, pk |-> None, outputs |-> NoOutputs,
   key     |-> IF w THEN 0 ELSE d.key,
   state   |-> IF w THEN None ELSE d.state,
   message |-> IF w THEN None ELSE d.message,
   dir     |-> IF w THEN {} ELSE d.dir]

LEMMA NewFiles ==
  ASSUME NEW p, NEW d, DiskType(p, d), NEW c \in CommitteeId, NEW w
  PROVE  /\ DiskType(p, FilesOf(d, c, w))
         /\ FilesOf(d, c, w).committee = c /\ FilesOf(d, c, w).outputs = NoOutputs
<1> DEFINE e == FilesOf(d, c, w)
           key == IF w THEN 0 ELSE d.key
           state == IF w THEN None ELSE d.state
           message == IF w THEN None ELSE d.message
           dir == IF w THEN {} ELSE d.dir
<1>1. message = None \/ message \in MessageOf(p)
  BY DEF DiskType
<1>2. dir \subseteq MessageOf(p)
  BY DEF DiskType
<1>3. e = [committee |-> c, me |-> FALSE, pk |-> None, outputs |-> NoOutputs, key |-> key,
           state |-> state, message |-> message, dir |-> dir]
  BY DEF FilesOf
<1> HIDE DEF e, key, state, message, dir
<1>4. /\ e.committee = c /\ e.me = FALSE /\ e.pk = None /\ e.outputs = NoOutputs /\ e.key = key
      /\ e.state = state /\ e.message = message /\ e.dir = dir
  BY <1>3
<1>5. e.outputs = [pk |-> e.outputs.pk, partials |-> e.outputs.partials,
                   share |-> e.outputs.share]
  BY <1>4 DEF NoOutputs
<1>6. DiskShape(e)
  BY <1>3, <1>4, <1>5 DEF DiskShape
<1>7. DiskType(p, e)
  BY <1>1, <1>2, <1>4, <1>6 DEF DiskType, Id
<1> QED BY <1>4, <1>7 DEF e

\* A proposal written to a committee: its output, who approved it, and whether it is finalized.
LEMMA WriteProposal ==
  ASSUME NEW k, CommitteeShape(k), NEW out, NEW all, NEW fin
  PROVE  [k EXCEPT !.proposal = out, !.approvals = all, !.finalized = fin] =
           [created |-> k.created, registered |-> k.registered, proposal |-> out,
            approvals |-> all, finalized |-> fin]
<1> DEFINE k1 == [k EXCEPT !.proposal = out]
           k2 == [k1 EXCEPT !.approvals = all]
<1>1. k = [created |-> k.created, registered |-> k.registered, proposal |-> k.proposal,
           approvals |-> k.approvals, finalized |-> k.finalized]
  BY DEF CommitteeShape
<1>2. k1 = [created |-> k.created, registered |-> k.registered, proposal |-> out,
            approvals |-> k.approvals, finalized |-> k.finalized]
  BY <1>1
<1> HIDE DEF k1
<1>3. k2 = [created |-> k.created, registered |-> k.registered, proposal |-> out,
            approvals |-> all, finalized |-> k.finalized]
  BY <1>2
<1> HIDE DEF k2
<1>4. [k2 EXCEPT !.finalized = fin] =
        [created |-> k.created, registered |-> k.registered, proposal |-> out,
         approvals |-> all, finalized |-> fin]
  BY <1>3
<1> QED BY <1>4 DEF k1, k2

LEMMA NoOutputsFields ==
  NoOutputs.pk = None /\ NoOutputs.partials = None /\ NoOutputs.share = None
  BY DEF NoOutputs

LEMMA IdleFields == Idle.pc = "idle" /\ Idle.out = {} /\ "idle" \notin Processing
  BY DEF Idle, Processing

\* A step of one member's process.
LEMMA StepPc ==
  ASSUME NEW p, NEW q, ProcType(p, q), NEW x, NEW r, r = [q EXCEPT !.pc = x]
  PROVE  ProcType(p, r) /\ r.pc = x /\ r.out = q.out
<1>1. r = [pc |-> x, out |-> q.out]
  BY DEF ProcType
<1>2. r.pc = x /\ r.out = q.out
  BY <1>1
<1> QED BY <1>1, <1>2 DEF ProcType

\* The count of what a member has made.
LEMMA CountKeys ==
  ASSUME NEW p, NEW k, MadeType(p, k), NEW x, NEW j, j = [k EXCEPT !.keys = x]
  PROVE  MadeType(p, j)
<1>1. j = [keys |-> x, messages |-> k.messages]
  BY DEF MadeType
<1>2. j.keys = x /\ j.messages = k.messages
  BY <1>1
<1> QED BY <1>1, <1>2 DEF MadeType

LEMMA CountMessages ==
  ASSUME NEW p, NEW k, MadeType(p, k), NEW x \in 0..p.messages,
         NEW j, j = [k EXCEPT !.messages = x]
  PROVE  MadeType(p, j) /\ j.messages = x
<1>1. j = [keys |-> k.keys, messages |-> x]
  BY DEF MadeType
<1>2. j.keys = k.keys /\ j.messages = x
  BY <1>1
<1> QED BY <1>1, <1>2 DEF MadeType

LEMMA IdleType ==
  ASSUME NEW p
  PROVE  ProcType(p, Idle)
  BY DEF ProcType, Idle

-----------------------------------------------------------------------------
LEMMA InitType == Init => CeremonyType
<1> SUFFICES ASSUME Init PROVE CeremonyType
  OBVIOUS
<1>1. plan \in Plan /\ plan.messages \in Nat
  BY CeremonyConstants DEF Init
<1>2. DOMAIN committees = CommitteeId /\ \A c \in CommitteeId : CommitteeType(plan, committees[c])
  <2> DEFINE k == [created |-> FALSE, registered |-> [m \in plan.members |-> None],
                   proposal |-> None, approvals |-> {}, finalized |-> FALSE]
  <2>1. CommitteeType(plan, k)
    BY DEF CommitteeType, CommitteeShape
  <2>2. committees = [c \in CommitteeId |-> k]
    BY DEF Init
  <2> HIDE DEF k
  <2> QED BY <2>1, <2>2
<1>3. txs = {} /\ \A tx \in txs : TxType(plan, tx)
  BY DEF Init
<1>4. CoordinatorType(plan, coordinator)
  BY DEF Init, CoordinatorType, Id
<1>5. DOMAIN disk = plan.members /\ \A m \in plan.members : DiskType(plan, disk[m])
  <2> DEFINE d == [committee |-> None, me |-> FALSE, pk |-> None, outputs |-> NoOutputs,
                   key |-> 0, state |-> None, message |-> None, dir |-> {}]
  <2>1. /\ d.committee = None /\ d.me = FALSE /\ d.pk = None /\ d.outputs = NoOutputs
        /\ d.key = 0 /\ d.state = None /\ d.message = None /\ d.dir = {}
    OBVIOUS
  <2>2. DiskShape(d)
    BY DEF DiskShape, NoOutputs
  <2>3. disk = [m \in plan.members |-> d]
    BY DEF Init
  <2> HIDE DEF d
  <2>4. DiskType(plan, d)
    BY <2>1, <2>2 DEF DiskType, Id
  <2> QED BY <2>3, <2>4
<1>6. /\ DOMAIN proc = plan.members /\ \A m \in plan.members : proc[m] = Idle
      /\ \A m \in plan.members : ProcType(plan, proc[m])
  BY IdleType DEF Init
<1>7. DOMAIN made = plan.members /\ \A m \in plan.members : MadeType(plan, made[m])
  <2> DEFINE k == [keys |-> 0, messages |-> 0]
  <2>1. k = [keys |-> k.keys, messages |-> k.messages] /\ k.messages = 0
    OBVIOUS
  <2>2. made = [m \in plan.members |-> k]
    BY DEF Init
  <2> HIDE DEF k
  <2>3. MadeType(plan, k)
    BY <1>1, <2>1 DEF MadeType
  <2> QED BY <2>2, <2>3
<1> QED BY <1>1, <1>2, <1>3, <1>4, <1>5, <1>6, <1>7, IdleFields DEF CeremonyType

LEMMA InitEstablishes == Init => CeremonyInv
<1> SUFFICES ASSUME Init PROVE CeremonyInv
  OBVIOUS
<1>1. CeremonyType
  BY InitType
<1>2. /\ txs = {} /\ coordinator.committee = None /\ coordinator.created = None
      /\ \A m \in plan.members : disk[m].committee = None /\ disk[m].outputs = NoOutputs
      /\ \A m \in plan.members : proc[m] = Idle
      /\ \A c \in CommitteeId : committees[c].proposal = None /\ committees[c].approvals = {}
  BY DEF Init
<1>3. \A c \in CommitteeId : c # None
  BY CeremonyConstants
<1>4. \A c \in CommitteeId : \A m : ~HasProposed(committees, txs, c, m)
  BY <1>2 DEF HasProposed
<1>5. NamesInv
  BY <1>2, <1>3, <1>4 DEF NamesInv
<1>6. RunsInv
  BY <1>2, IdleFields DEF RunsInv, RunOk
<1>7. ShareInv /\ ProposalInv
  BY <1>2 DEF ShareInv, ApprovedShareOnDisk, ProposalInv
<1>8. \A m \in plan.members : OneRun(disk[m].outputs)
  BY <1>2, NoOutputsFields DEF OneRun
<1> QED BY <1>1, <1>5, <1>6, <1>7, <1>8 DEF CeremonyInv

-----------------------------------------------------------------------------
\* g is f with e at m.
Changes(f, g, m, e) ==
  /\ DOMAIN g = DOMAIN f
  /\ g[m] = e
  /\ \A n \in DOMAIN f : n # m => g[n] = f[n]

\* A step that leaves alone what the invariants other than the types and the coordinator's names
\* are about: proposals may vanish and runs may end.
Still ==
  /\ plan' = plan
  /\ \A c \in CommitteeId :
       /\ committees'[c].proposal = committees[c].proposal
       /\ committees'[c].approvals = committees[c].approvals
  /\ \A tx \in txs' : tx.kind = "propose" => tx \in txs
  /\ \A m \in plan.members :
       /\ disk'[m].committee = disk[m].committee /\ disk'[m].outputs = disk[m].outputs
       /\ proc'[m].pc \in Processing => proc'[m] = proc[m]

\* The coordinator may forget a committee or move one from created to committee.
Quiet ==
  /\ Still
  /\ \A c \in CommitteeId : committees'[c].created = committees[c].created
  /\ coordinator'.committee \in {None, coordinator.committee, coordinator.created}
  /\ coordinator'.created \in {None, coordinator.created}

LEMMA StillProposals ==
  ASSUME Still
  PROVE  \A c \in CommitteeId : \A m :
           HasProposed(committees', txs', c, m) => HasProposed(committees, txs, c, m)
  BY DEF Still, HasProposed

LEMMA StillPreserves ==
  ASSUME CeremonyInv, Still
  PROVE  /\ RunsInv' /\ ShareInv' /\ ProposalInv'
         /\ \A m \in plan'.members : OneRun(disk'[m].outputs)
<1>1. plan' = plan
  BY DEF Still
<1>2. RunsInv'
  <2> SUFFICES ASSUME NEW m \in plan'.members
               PROVE  /\ RunOk(plan', proc'[m], disk'[m])
                      /\ proc'[m].pc \in Processing =>
                           ~HasProposed(committees', txs', disk'[m].committee, m)
    BY DEF RunsInv
  <2> SUFFICES ASSUME proc'[m].pc \in Processing
               PROVE  /\ RunOk(plan', proc'[m], disk'[m])
                      /\ ~HasProposed(committees', txs', disk'[m].committee, m)
    BY DEF RunOk
  <2>1. /\ m \in plan.members /\ proc'[m] = proc[m] /\ proc[m].pc \in Processing
        /\ disk'[m].committee = disk[m].committee /\ disk'[m].outputs = disk[m].outputs
    BY <1>1 DEF Still
  <2>2. RunOk(plan, proc[m], disk[m]) /\ ~HasProposed(committees, txs, disk[m].committee, m)
    BY <2>1 DEF CeremonyInv, RunsInv
  <2>3. disk[m].committee \in CommitteeId
    <3>1. DiskType(plan, disk[m]) /\ disk[m].committee # None
      BY <2>1, IdleFields DEF CeremonyInv, CeremonyType
    <3> QED BY <3>1 DEF DiskType, Id
  <2>4. RunOk(plan', proc'[m], disk'[m])
    BY <1>1, <2>1, <2>2 DEF RunOk
  <2> QED BY <2>1, <2>2, <2>3, <2>4, StillProposals
<1>3. ShareInv'
  <2>1. ASSUME NEW tx \in txs', tx.kind = "propose", disk'[tx.member].committee = tx.committee
        PROVE  disk'[tx.member].outputs.share = tx.out
    <3>1. tx \in txs /\ tx.member \in plan.members
      BY <2>1 DEF Still, CeremonyInv, CeremonyType, TxType
    <3> QED BY <2>1, <3>1 DEF Still, CeremonyInv, ShareInv
  <2>2. ASSUME NEW c \in CommitteeId, NEW m \in committees'[c].approvals,
               disk'[m].committee = c
        PROVE  disk'[m].outputs.share = committees'[c].proposal
    <3>1. m \in committees[c].approvals /\ m \in plan.members
      BY DEF Still, CeremonyInv, CeremonyType, CommitteeType
    <3> QED BY <2>2, <3>1 DEF Still, CeremonyInv, ShareInv, ApprovedShareOnDisk
  <2> QED BY <2>1, <2>2 DEF ShareInv, ApprovedShareOnDisk
<1>4. ProposalInv'
  BY <1>1 DEF Still, CeremonyInv, ProposalInv
<1>5. \A m \in plan'.members : OneRun(disk'[m].outputs)
  BY <1>1 DEF Still, CeremonyInv
<1> QED BY <1>2, <1>3, <1>4, <1>5

LEMMA QuietPreserves ==
  ASSUME CeremonyInv, CeremonyType', Quiet
  PROVE  CeremonyInv'
<1>1. plan' = plan /\ Still
  BY DEF Quiet, Still
<1>2. \A c \in CommitteeId : c # None
  BY CeremonyConstants
<1>3. \A c \in CommitteeId : \A m :
        HasProposed(committees', txs', c, m) => HasProposed(committees, txs, c, m)
  BY <1>1, StillProposals
<1>4. NamesInv'
  <2>1. ASSUME NEW c \in CommitteeId, ~committees'[c].created
        PROVE  /\ coordinator'.committee # c /\ coordinator'.created # c
               /\ \A m \in plan'.members :
                    disk'[m].committee # c /\ ~HasProposed(committees', txs', c, m)
    BY <1>1, <1>2, <1>3, <2>1 DEF Quiet, Still, CeremonyInv, NamesInv
  <2>2. ASSUME NEW c \in CommitteeId, NEW m \in plan'.members,
               HasProposed(committees', txs', c, m), disk'[m].committee # c
        PROVE  coordinator'.committee # c /\ coordinator'.created # c
    BY <1>1, <1>2, <1>3, <2>2, ZenonT(30) DEF Quiet, Still, CeremonyInv, NamesInv
  <2> QED BY <2>1, <2>2 DEF NamesInv
<1> QED BY <1>1, <1>4, StillPreserves DEF CeremonyInv

\* The types after a step of member m.
LEMMA MemberTypes ==
  ASSUME CeremonyType, NEW m \in plan.members, NEW e, NEW r,
         plan' = plan, committees' = committees, coordinator' = coordinator,
         Changes(disk, disk', m, e), Changes(proc, proc', m, r),
         DiskType(plan, e), ProcType(plan, r), r.pc # "idle" => e.committee # None,
         made' = made \/ (DOMAIN made' = plan.members
                            /\ \A n \in plan.members : MadeType(plan, made'[n])),
         \A tx \in txs' : tx \in txs \/ TxType(plan, tx)
  PROVE  CeremonyType'
<1>1. /\ DOMAIN disk' = plan.members
      /\ \A n \in plan.members : disk'[n] = IF n = m THEN e ELSE disk[n]
      /\ DOMAIN proc' = plan.members
      /\ \A n \in plan.members : proc'[n] = IF n = m THEN r ELSE proc[n]
  BY DEF CeremonyType, Changes
<1>2. \A n \in plan.members : DiskType(plan, disk'[n])
  BY <1>1 DEF CeremonyType
<1>3. \A n \in plan.members : ProcType(plan, proc'[n])
  BY <1>1, Zenon DEF CeremonyType
<1>4. \A n \in plan.members : proc'[n].pc # "idle" => disk'[n].committee # None
  BY <1>1 DEF CeremonyType
<1>5. DOMAIN made' = plan.members /\ \A n \in plan.members : MadeType(plan, made'[n])
  BY DEF CeremonyType
<1>6. \A tx \in txs' : TxType(plan, tx)
  BY DEF CeremonyType
<1>7. /\ plan' \in Plan /\ DOMAIN committees' = CommitteeId
      /\ \A c \in CommitteeId : CommitteeType(plan, committees'[c])
      /\ CoordinatorType(plan, coordinator')
  BY DEF CeremonyType
<1> QED BY <1>1, <1>2, <1>3, <1>4, <1>5, <1>6, <1>7, Zenon DEF CeremonyType

\* A step of member m that leaves its committee and outputs alone and starts no run.
LEMMA QuietMember ==
  ASSUME CeremonyInv, NEW m \in plan.members, NEW e, NEW r,
         plan' = plan, committees' = committees, coordinator' = coordinator,
         Changes(disk, disk', m, e), Changes(proc, proc', m, r),
         DiskType(plan, e), ProcType(plan, r), r.pc # "idle" => e.committee # None,
         made' = made \/ (DOMAIN made' = plan.members
                            /\ \A n \in plan.members : MadeType(plan, made'[n])),
         \A tx \in txs' : tx \in txs \/ (TxType(plan, tx) /\ tx.kind # "propose"),
         e.committee = disk[m].committee, e.outputs = disk[m].outputs,
         r.pc \in Processing => r = proc[m]
  PROVE  CeremonyInv'
<1>1. CeremonyType'
  BY MemberTypes DEF CeremonyInv
<1>2. \A n \in plan.members :
        /\ disk'[n].committee = disk[n].committee /\ disk'[n].outputs = disk[n].outputs
        /\ proc'[n].pc \in Processing => proc'[n] = proc[n]
  BY DEF Changes, CeremonyInv, CeremonyType
<1>3. Quiet
  BY <1>2 DEF Quiet, Still
<1> QED BY <1>1, <1>3, QuietPreserves

-----------------------------------------------------------------------------
\* The commands of a member up to its messages, a crash, and the removal of keys.
LEMMA OtherPcs ==
  /\ "save_keys" \notin Processing /\ "register" \notin Processing
  /\ "save_state" \notin Processing
  BY DEF Processing

\* Pieces of the types for member m.
LEMMA TypesOf ==
  ASSUME CeremonyInv, NEW m \in plan.members
  PROVE  /\ DiskType(plan, disk[m]) /\ ProcType(plan, proc[m]) /\ MadeType(plan, made[m])
         /\ DOMAIN disk = plan.members /\ DOMAIN proc = plan.members
         /\ DOMAIN made = plan.members
         /\ proc[m].pc # "idle" => disk[m].committee # None
         /\ Changes(disk, disk, m, disk[m]) /\ Changes(proc, proc, m, proc[m])
  BY DEF CeremonyInv, CeremonyType, Changes

LEMMA ReceivePreserves ==
  ASSUME CeremonyInv, NEW m \in plan.members, Receive(m)
  PROVE  CeremonyInv'
<1> DEFINE e == [disk[m] EXCEPT !.dir = coordinator.dir]
<1>1. Changes(disk, disk', m, e)
  BY TypesOf DEF Receive, Changes
<1>2. coordinator.dir \subseteq MessageOf(plan) /\ DiskType(plan, disk[m])
  BY TypesOf DEF CeremonyInv, CeremonyType, CoordinatorType
<1>3. DiskType(plan, e) /\ e.committee = disk[m].committee /\ e.outputs = disk[m].outputs
  BY <1>2, WriteDir
<1> HIDE DEF e
<1>4. /\ UNCHANGED <<plan, committees, txs, coordinator, proc, made>>
  BY DEF Receive
<1>5. Changes(proc, proc', m, proc[m])
  BY <1>4, TypesOf
<1>6. ProcType(plan, proc[m]) /\ (proc[m].pc # "idle" => e.committee # None)
  BY <1>3, TypesOf
<1> QED BY <1>1, <1>3, <1>4, <1>5, <1>6, QuietMember

LEMMA GenerateKeysPreserves ==
  ASSUME CeremonyInv, NEW m \in plan.members, GenerateKeys(m)
  PROVE  CeremonyInv'
<1> DEFINE key == made'[m].keys
           keys == made[m].keys + 1
           e == [[disk[m] EXCEPT !.me = TRUE] EXCEPT !.key = key]
           r == [proc[m] EXCEPT !.pc = "save_keys"]
           k == [made[m] EXCEPT !.keys = keys]
<1>0. /\ UNCHANGED <<plan, committees, txs, coordinator>>
      /\ disk[m].committee # None
  BY DEF GenerateKeys
<1>1. Changes(disk, disk', m, e)
  BY TypesOf, ZenonT(30) DEF GenerateKeys, Changes
<1>2. Changes(proc, proc', m, r)
  BY TypesOf DEF GenerateKeys, Changes
<1>3. made' = [made EXCEPT ![m] = k]
  BY TypesOf DEF GenerateKeys
<1>4. /\ e = [[disk[m] EXCEPT !.me = TRUE] EXCEPT !.key = key]
      /\ r = [proc[m] EXCEPT !.pc = "save_keys"]
      /\ k = [made[m] EXCEPT !.keys = keys]
  OBVIOUS
<1> HIDE DEF e, r, k, key, keys
<1>5. DiskType(plan, disk[m]) /\ ProcType(plan, proc[m]) /\ MadeType(plan, made[m])
  BY TypesOf
<1>6. DiskType(plan, e) /\ e.committee = disk[m].committee /\ e.outputs = disk[m].outputs
  <2>1. e = [[disk[m] EXCEPT !.me = TRUE] EXCEPT !.key = key]
    BY DEF e
  <2> DEFINE c == [disk[m] EXCEPT !.me = TRUE]
  <2>2. c = [disk[m] EXCEPT !.me = TRUE] /\ e = [c EXCEPT !.key = key]
    BY <2>1
  <2> HIDE DEF c
  <2>3. DiskType(plan, c) /\ c.committee = disk[m].committee /\ c.outputs = disk[m].outputs
    BY <1>0, <1>5, <2>2, WriteMe
  <2>4. DiskType(plan, e) /\ e.committee = c.committee /\ e.outputs = c.outputs
    <3>1. e = [c EXCEPT !.key = key]
      BY <2>2
    <3> QED BY <2>3, <3>1, WriteKey
  <2> QED BY <2>3, <2>4
<1>7. ProcType(plan, r) /\ r.pc = "save_keys"
  BY <1>4, <1>5, StepPc
<1>8. MadeType(plan, k)
  BY <1>4, <1>5, CountKeys
<1>9. DOMAIN made' = plan.members /\ \A n \in plan.members : MadeType(plan, made'[n])
  BY <1>3, <1>8, TypesOf
<1> QED BY <1>0, <1>1, <1>2, <1>6, <1>7, <1>9, OtherPcs, QuietMember

LEMMA SaveKeysPreserves ==
  ASSUME CeremonyInv, NEW m \in plan.members, SaveKeys(m)
  PROVE  CeremonyInv'
<1> DEFINE key == disk[m].key
           e == [disk[m] EXCEPT !.pk = key]
           r == [proc[m] EXCEPT !.pc = "register"]
<1>0. /\ UNCHANGED <<plan, committees, txs, coordinator, made>>
      /\ disk[m].committee # None
  BY TypesOf DEF SaveKeys
<1>1. Changes(disk, disk', m, e)
  BY TypesOf DEF SaveKeys, Changes
<1>2. Changes(proc, proc', m, r)
  BY TypesOf DEF SaveKeys, Changes
<1>3. e = [disk[m] EXCEPT !.pk = key] /\ r = [proc[m] EXCEPT !.pc = "register"]
  OBVIOUS
<1> HIDE DEF e, r, key
<1>4. DiskType(plan, disk[m]) /\ ProcType(plan, proc[m])
  BY TypesOf
<1>5. DiskType(plan, e) /\ e.committee = disk[m].committee /\ e.outputs = disk[m].outputs
  BY <1>3, <1>4, WritePk
<1>6. ProcType(plan, r) /\ r.pc = "register"
  BY <1>3, <1>4, StepPc
<1> QED BY <1>0, <1>1, <1>2, <1>5, <1>6, OtherPcs, QuietMember

LEMMA SubmitRegisterPreserves ==
  ASSUME CeremonyInv, NEW m \in plan.members, SubmitRegister(m)
  PROVE  CeremonyInv'
<1> DEFINE tx == Tx("register", m, disk[m].key, {})
<1>0. /\ UNCHANGED <<plan, committees, coordinator, disk, made>>
      /\ txs' = txs \cup {tx}
      /\ disk[m].committee # None
  BY TypesOf DEF SubmitRegister
<1>1. Changes(disk, disk', m, disk[m])
  BY <1>0, TypesOf
<1>2. Changes(proc, proc', m, Idle)
  BY TypesOf DEF SubmitRegister, Changes
<1>3. tx.kind = "register" /\ tx.member = m /\ tx.committee = disk[m].committee
  BY DEF Tx
<1> HIDE DEF tx
<1>4. disk[m].committee \in CommitteeId
  BY <1>0, TypesOf DEF DiskType, Id
<1>5. TxType(plan, tx) /\ tx.kind # "propose"
  BY <1>3, <1>4 DEF TxType
<1>6. \A t \in txs' : t \in txs \/ (TxType(plan, t) /\ t.kind # "propose")
  BY <1>0, <1>5
<1>7. DiskType(plan, disk[m])
  BY TypesOf
<1> QED BY <1>0, <1>1, <1>2, <1>6, <1>7, IdleType, IdleFields, QuietMember

LEMMA CreateMessagePreserves ==
  ASSUME CeremonyInv, NEW m \in plan.members, CreateMessage(m)
  PROVE  CeremonyInv'
<1> DEFINE r == [proc[m] EXCEPT !.pc = "save_state"]
<1>0. /\ UNCHANGED <<plan, committees, txs, coordinator>>
      /\ disk[m].me
  BY DEF CreateMessage
<1>1. disk[m].committee # None /\ disk[m].committee \in CommitteeId
  BY <1>0, TypesOf DEF DiskType, Id
<1>2. Changes(proc, proc', m, r)
  BY TypesOf DEF CreateMessage, Changes
<1>3. ProcType(plan, r) /\ r.pc = "save_state"
  <2>1. ProcType(plan, proc[m])
    BY TypesOf
  <2> QED BY <2>1, StepPc
<1> HIDE DEF r
<1>4. CASE ~Sends(m)
  <2>1. UNCHANGED <<made, disk>>
    BY <1>4 DEF CreateMessage
  <2>2. Changes(disk, disk', m, disk[m]) /\ DiskType(plan, disk[m])
    BY <2>1, TypesOf, Zenon
  <2> QED BY <1>0, <1>1, <1>2, <1>3, <2>1, <2>2, OtherPcs, QuietMember
<1>5. CASE Sends(m)
  <2> DEFINE n1 == made[m].messages + 1
             x == [from |-> m, committee |-> disk[m].committee, serial |-> made'[m].messages]
             e == [disk[m] EXCEPT !.message = x]
             k == [made[m] EXCEPT !.messages = n1]
  <2>1. made[m].messages < plan.messages /\ made' = [made EXCEPT ![m] = k]
    BY <1>5, TypesOf DEF CreateMessage
  <2>2. disk' = [disk EXCEPT ![m].message = x]
    BY <1>5 DEF CreateMessage
  <2> HIDE DEF x
  <2>3. Changes(disk, disk', m, e)
    BY <2>2, TypesOf DEF Changes
  <2> HIDE DEF e
  <2>4. n1 \in 1..plan.messages /\ n1 \in 0..plan.messages
    <3>1. plan.messages \in Nat /\ made[m].messages \in 0..plan.messages
      BY CeremonyConstants, TypesOf, ZenonT(30) DEF CeremonyInv, CeremonyType, MadeType
    <3> QED BY <2>1, <3>1
  <2>5. k = [made[m] EXCEPT !.messages = n1]
    OBVIOUS
  <2> HIDE DEF k, n1
  <2>6. k.messages = n1 /\ MadeType(plan, k)
    <3>1. MadeType(plan, made[m])
      BY TypesOf
    <3> QED BY <2>4, <2>5, <3>1, CountMessages
  <2>7. made'[m] = k
    BY <2>1, TypesOf
  <2>8. DOMAIN made' = plan.members /\ \A n \in plan.members : MadeType(plan, made'[n])
    BY <2>1, <2>6, TypesOf
  <2>9. x \in MessageOf(plan)
    BY <1>1, <2>4, <2>6, <2>7 DEF x, MessageOf
  <2>10. DiskType(plan, e) /\ e.committee = disk[m].committee /\ e.outputs = disk[m].outputs
    BY <2>9, TypesOf, WriteMessage DEF e
  <2> QED BY <1>0, <1>1, <1>2, <1>3, <2>3, <2>8, <2>10, OtherPcs, QuietMember
<1> QED BY <1>4, <1>5

LEMMA SaveStatePreserves ==
  ASSUME CeremonyInv, NEW m \in plan.members, SaveState(m)
  PROVE  CeremonyInv'
<1> DEFINE e == [disk[m] EXCEPT !.state = disk[m].committee]
<1>0. UNCHANGED <<plan, committees, txs, coordinator, made>>
  BY DEF SaveState
<1>1. Changes(disk, disk', m, e)
  BY TypesOf DEF SaveState, Changes
<1>2. Changes(proc, proc', m, Idle)
  BY TypesOf DEF SaveState, Changes
<1>3. DiskType(plan, e) /\ e.committee = disk[m].committee /\ e.outputs = disk[m].outputs
  <2>1. DiskType(plan, disk[m])
    BY TypesOf
  <2> QED BY <2>1, WriteState
<1> HIDE DEF e
<1> QED BY <1>0, <1>1, <1>2, <1>3, IdleType, IdleFields, QuietMember

LEMMA MemberCrashesPreserves ==
  ASSUME CeremonyInv, NEW m \in plan.members, MemberCrashes(m)
  PROVE  CeremonyInv'
<1>0. UNCHANGED <<plan, committees, txs, coordinator, disk, made>>
  BY DEF MemberCrashes
<1>1. Changes(disk, disk', m, disk[m]) /\ DiskType(plan, disk[m])
  BY <1>0, TypesOf
<1>2. Changes(proc, proc', m, Idle)
  BY TypesOf DEF MemberCrashes, Changes
<1> QED BY <1>0, <1>1, <1>2, IdleType, IdleFields, QuietMember

LEMMA RemoveKeysPreserves ==
  ASSUME CeremonyInv, NEW m \in plan.members, RemoveKeys(m)
  PROVE  CeremonyInv'
<1> DEFINE e == [[disk[m] EXCEPT !.me = FALSE] EXCEPT !.pk = None]
<1>0. UNCHANGED <<plan, committees, txs, coordinator, proc, made>> /\ proc[m] = Idle
  BY DEF RemoveKeys
<1>1. Changes(disk, disk', m, e)
  BY TypesOf, ZenonT(30) DEF RemoveKeys, Changes
<1>2. Changes(proc, proc', m, Idle)
  BY <1>0, TypesOf
<1> HIDE DEF e
<1>3. DiskType(plan, e) /\ e.committee = disk[m].committee /\ e.outputs = disk[m].outputs
  BY TypesOf, ForgetKeys, ZenonT(30) DEF e
<1> QED BY <1>0, <1>1, <1>2, <1>3, IdleType, IdleFields, QuietMember

-----------------------------------------------------------------------------
\* The coordinator's steps, but for the creation of a committee, and a lost transaction.
LEMMA QuietCoordinator ==
  ASSUME CeremonyInv, NEW k, coordinator' = k, CoordinatorType(plan, k),
         UNCHANGED <<plan, committees, disk, proc, made>>, txs' \subseteq txs,
         k.committee \in {None, coordinator.committee, coordinator.created},
         k.created \in {None, coordinator.created}
  PROVE  CeremonyInv'
<1>1. CeremonyType'
  BY DEF CeremonyInv, CeremonyType
<1>2. Quiet
  BY DEF Quiet, Still
<1> QED BY <1>1, <1>2, QuietPreserves

\* The coordinator's fields, one by one.
LEMMA CoordinatorFields ==
  ASSUME NEW p, NEW k, CoordinatorType(p, k), NEW c, NEW d, NEW x, NEW a,
         NEW e, e = [committee |-> c, created |-> d, dir |-> x, announced |-> a],
         c \in Id, d \in Id, c = None \/ d = None, x \subseteq MessageOf(p)
  PROVE  CoordinatorType(p, e) /\ e.committee = c /\ e.created = d
<1>1. e.committee = c /\ e.created = d /\ e.dir = x /\ e.announced = a
  OBVIOUS
<1> QED BY <1>1 DEF CoordinatorType

LEMMA SaveCommitteeIdPreserves ==
  ASSUME CeremonyInv, SaveCommitteeId
  PROVE  CeremonyInv'
<1> DEFINE k == coordinator
           e == [committee |-> k.created, created |-> None, dir |-> k.dir,
                 announced |-> k.announced]
<1>1. CoordinatorType(plan, k)
  BY DEF CeremonyInv, CeremonyType
<1>2. coordinator' = e
  BY <1>1, ZenonT(30) DEF SaveCommitteeId, CoordinatorType
<1>3. UNCHANGED <<plan, committees, txs, disk, proc, made>>
  BY DEF SaveCommitteeId
<1>4. k.created \in Id /\ None \in Id /\ k.dir \subseteq MessageOf(plan)
  BY <1>1 DEF CoordinatorType, Id
<1>5. CoordinatorType(plan, e) /\ e.committee = k.created /\ e.created = None
  BY <1>1, <1>4, CoordinatorFields
<1> HIDE DEF e
<1> QED BY <1>2, <1>3, <1>5, QuietCoordinator

LEMMA CoordinatorCrashesPreserves ==
  ASSUME CeremonyInv, CoordinatorCrashes
  PROVE  CeremonyInv'
<1> DEFINE k == coordinator
           e == [committee |-> k.committee, created |-> None, dir |-> k.dir,
                 announced |-> k.announced]
<1>1. CoordinatorType(plan, k)
  BY DEF CeremonyInv, CeremonyType
<1>2. coordinator' = e
  BY <1>1 DEF CoordinatorCrashes, CoordinatorType
<1>3. UNCHANGED <<plan, committees, txs, disk, proc, made>>
  BY DEF CoordinatorCrashes
<1>4. k.committee \in Id /\ None \in Id /\ k.dir \subseteq MessageOf(plan)
  BY <1>1 DEF CoordinatorType, Id
<1>5. CoordinatorType(plan, e) /\ e.committee = k.committee /\ e.created = None
  BY <1>1, <1>4, CoordinatorFields
<1> HIDE DEF e
<1> QED BY <1>2, <1>3, <1>5, QuietCoordinator

LEMMA RestartPreserves ==
  ASSUME CeremonyInv, Restart
  PROVE  CeremonyInv'
<1> DEFINE e == [committee |-> None, created |-> None, dir |-> {}, announced |-> FALSE]
<1>1. CoordinatorType(plan, coordinator)
  BY DEF CeremonyInv, CeremonyType
<1>2. coordinator' = e /\ UNCHANGED <<plan, committees, txs, disk, proc, made>>
  BY DEF Restart
<1>3. None \in Id
  BY DEF Id
<1>4. CoordinatorType(plan, e) /\ e.committee = None /\ e.created = None
  BY <1>1, <1>3, CoordinatorFields
<1> HIDE DEF e
<1> QED BY <1>2, <1>4, QuietCoordinator

\* A change of the directory or of the announcement.
LEMMA DirectoryPreserves ==
  ASSUME CeremonyInv, NEW x, x \subseteq MessageOf(plan), NEW a,
         coordinator' = [committee |-> coordinator.committee, created |-> coordinator.created,
                         dir |-> x, announced |-> a],
         UNCHANGED <<plan, committees, txs, disk, proc, made>>
  PROVE  CeremonyInv'
<1> DEFINE k == coordinator
           e == [committee |-> k.committee, created |-> k.created, dir |-> x, announced |-> a]
<1>1. CoordinatorType(plan, k)
  BY DEF CeremonyInv, CeremonyType
<1>2. k.committee \in Id /\ k.created \in Id /\ (k.committee = None \/ k.created = None)
  BY <1>1 DEF CoordinatorType
<1>3. CoordinatorType(plan, e) /\ e.committee = k.committee /\ e.created = k.created
  BY <1>1, <1>2, CoordinatorFields
<1>4. coordinator' = e
  OBVIOUS
<1> HIDE DEF e
<1> QED BY <1>3, <1>4, QuietCoordinator, Zenon

LEMMA CollectPreserves ==
  ASSUME CeremonyInv, NEW m \in plan.members, Collect(m)
  PROVE  CeremonyInv'
<1> DEFINE k == coordinator
           old == {msg \in k.dir : msg.from # m}
           x == old \cup {disk[m].message}
<1>1. CoordinatorType(plan, k) /\ DiskType(plan, disk[m])
  BY TypesOf DEF CeremonyInv, CeremonyType
<1>2. /\ coordinator' = [k EXCEPT !.dir = x] /\ disk[m].message # None
      /\ UNCHANGED <<plan, committees, txs, disk, proc, made>>
  BY DEF Collect
<1>3. old \in SUBSET k.dir /\ k.dir \subseteq MessageOf(plan)
      /\ disk[m].message \in MessageOf(plan)
  BY <1>1, <1>2, Zenon DEF CoordinatorType, DiskType
<1> HIDE DEF old
<1>4. x \subseteq MessageOf(plan)
  BY <1>3
<1> HIDE DEF x
<1>5. coordinator' = [committee |-> k.committee, created |-> k.created, dir |-> x,
                      announced |-> k.announced]
  BY <1>1, <1>2 DEF CoordinatorType
<1> QED BY <1>2, <1>4, <1>5, DirectoryPreserves, ZenonT(30)

LEMMA AnnouncePreserves ==
  ASSUME CeremonyInv, Announce
  PROVE  CeremonyInv'
<1> DEFINE k == coordinator
<1>1. CoordinatorType(plan, k)
  BY DEF CeremonyInv, CeremonyType
<1>2. PICK x \in SUBSET k.dir : coordinator' = [k EXCEPT !.dir = x, !.announced = TRUE]
  BY ZenonT(30) DEF Announce
<1>3. UNCHANGED <<plan, committees, txs, disk, proc, made>>
  BY DEF Announce
<1>4. k.dir \subseteq MessageOf(plan)
  BY <1>1 DEF CoordinatorType
<1>5. x \subseteq MessageOf(plan)
  BY <1>4
<1>6. coordinator' = [committee |-> k.committee, created |-> k.created, dir |-> x,
                      announced |-> TRUE]
  BY <1>1, <1>2, ZenonT(30) DEF CoordinatorType
<1> QED BY <1>3, <1>5, <1>6, DirectoryPreserves, Zenon

LEMMA ReopenPreserves ==
  ASSUME CeremonyInv, Reopen
  PROVE  CeremonyInv'
<1> DEFINE k == coordinator
<1>1. CoordinatorType(plan, k)
  BY DEF CeremonyInv, CeremonyType
<1>2. /\ coordinator' = [k EXCEPT !.announced = FALSE]
      /\ UNCHANGED <<plan, committees, txs, disk, proc, made>>
  BY DEF Reopen
<1>3. k.dir \subseteq MessageOf(plan)
  BY <1>1 DEF CoordinatorType
<1>4. coordinator' = [committee |-> k.committee, created |-> k.created, dir |-> k.dir,
                      announced |-> FALSE]
  BY <1>1, <1>2, ZenonT(30) DEF CoordinatorType
<1> QED BY <1>2, <1>3, <1>4, DirectoryPreserves, ZenonT(30)

LEMMA LosePreserves ==
  ASSUME CeremonyInv, NEW tx \in txs, Lose(tx)
  PROVE  CeremonyInv'
<1>1. CoordinatorType(plan, coordinator)
  BY DEF CeremonyInv, CeremonyType
<1>2. txs' \subseteq txs /\ coordinator' = coordinator
      /\ UNCHANGED <<plan, committees, disk, proc, made>>
  BY Zenon DEF Lose
<1> QED BY <1>1, <1>2, QuietCoordinator, Zenon

-----------------------------------------------------------------------------
\* What happens on chain.
LEMMA ChainTypes ==
  ASSUME CeremonyType, NEW c \in CommitteeId, NEW k, Changes(committees, committees', c, k),
         CommitteeType(plan, k), CoordinatorType(plan, coordinator'),
         UNCHANGED <<plan, disk, proc, made>>, txs' \subseteq txs
  PROVE  CeremonyType'
<1>1. DOMAIN committees' = CommitteeId
      /\ \A d \in CommitteeId : committees'[d] = IF d = c THEN k ELSE committees[d]
  BY Zenon DEF CeremonyType, Changes
<1>2. \A d \in CommitteeId : CommitteeType(plan, committees'[d])
  BY <1>1 DEF CeremonyType
<1> QED BY <1>1, <1>2, Zenon DEF CeremonyType

LEMMA CommitteeFields ==
  ASSUME NEW k, CommitteeShape(k), NEW a, NEW b, NEW c, NEW d, NEW f,
         NEW e, e = [created |-> a, registered |-> b, proposal |-> c, approvals |-> d,
                     finalized |-> f]
  PROVE  /\ CommitteeShape(e) /\ e.created = a /\ e.proposal = c /\ e.approvals = d
<1>1. e.created = a /\ e.registered = b /\ e.proposal = c /\ e.approvals = d /\ e.finalized = f
  OBVIOUS
<1> QED BY <1>1 DEF CommitteeShape

LEMMA CreatedFields ==
  ASSUME NEW k, CommitteeShape(k), NEW x
  PROVE  [k EXCEPT !.created = x]
           = [created |-> x, registered |-> k.registered, proposal |-> k.proposal,
              approvals |-> k.approvals, finalized |-> k.finalized]
  BY DEF CommitteeShape

LEMMA CreateCommitteePreserves ==
  ASSUME CeremonyInv, CreateCommittee
  PROVE  CeremonyInv'
<1>1. PICK c \in CommitteeId :
        /\ ~committees[c].created
        /\ committees' = [committees EXCEPT ![c].created = TRUE]
        /\ coordinator' = [coordinator EXCEPT !.created = c]
  BY ZenonT(30) DEF CreateCommittee
<1>2. /\ coordinator.committee = None
      /\ UNCHANGED <<plan, txs, disk, proc, made>>
  BY DEF CreateCommittee
<1> DEFINE k == committees[c]
           g == coordinator
           e == [created |-> TRUE, registered |-> k.registered, proposal |-> k.proposal,
                 approvals |-> k.approvals, finalized |-> k.finalized]
           h == [committee |-> None, created |-> c, dir |-> g.dir, announced |-> g.announced]
<1>3. CommitteeType(plan, k) /\ DOMAIN committees = CommitteeId /\ CoordinatorType(plan, g)
  BY DEF CeremonyInv, CeremonyType
<1>4. [k EXCEPT !.created = TRUE] = e
  <2>1. CommitteeShape(k)
    BY <1>3 DEF CommitteeType
  <2> HIDE DEF k
  <2> QED BY <2>1, CreatedFields, ZenonT(30)
<1>5. coordinator' = h
  BY <1>1, <1>2, <1>3 DEF CoordinatorType
<1> HIDE DEF e, h
<1>6. Changes(committees, committees', c, e)
  BY <1>1, <1>3, <1>4 DEF Changes
<1>7. CommitteeShape(e) /\ e.created = TRUE /\ e.proposal = k.proposal
      /\ e.approvals = k.approvals
  BY <1>3, CommitteeFields DEF e, CommitteeType
<1>8. CommitteeType(plan, e)
  BY <1>3, <1>7 DEF CommitteeType
<1>9. CoordinatorType(plan, h) /\ h.committee = None /\ h.created = c
  <2>1. None \in Id /\ c \in Id /\ g.dir \subseteq MessageOf(plan)
    BY <1>3 DEF Id, CoordinatorType
  <2> QED BY <1>3, <2>1, CoordinatorFields DEF h
<1>10. CeremonyType'
  BY <1>2, <1>5, <1>6, <1>8, <1>9, ChainTypes DEF CeremonyInv
<1>11. \A d \in CommitteeId :
         /\ committees'[d].proposal = committees[d].proposal
         /\ committees'[d].approvals = committees[d].approvals
         /\ ~committees'[d].created => d # c /\ ~committees[d].created
  BY <1>3, <1>6, <1>7 DEF Changes
<1>12. Still
  BY <1>2, <1>11 DEF Still
<1>13. NamesInv'
  <2>1. \A d \in CommitteeId : d # None
    BY CeremonyConstants
  <2>2. \A d \in CommitteeId : \A m :
          HasProposed(committees', txs', d, m) => HasProposed(committees, txs, d, m)
    BY <1>12, StillProposals
  <2>3. ASSUME NEW d \in CommitteeId, ~committees'[d].created
        PROVE  /\ coordinator'.committee # d /\ coordinator'.created # d
               /\ \A m \in plan'.members :
                    disk'[m].committee # d /\ ~HasProposed(committees', txs', d, m)
    BY <1>2, <1>5, <1>9, <1>11, <2>1, <2>2, <2>3 DEF CeremonyInv, NamesInv
  <2>4. ASSUME NEW d \in CommitteeId, NEW m \in plan'.members,
               HasProposed(committees', txs', d, m)
        PROVE  coordinator'.committee # d /\ coordinator'.created # d
    BY <1>1, <1>2, <1>5, <1>9, <2>1, <2>2, <2>4 DEF CeremonyInv, NamesInv
  <2> QED BY <2>3, <2>4 DEF NamesInv
<1> QED BY <1>10, <1>12, <1>13, StillPreserves DEF CeremonyInv

\* A transaction that aborts, or that registers a member.
LEMMA AbortPreserves ==
  ASSUME CeremonyInv, NEW tx \in txs, txs' = txs \ {tx},
         UNCHANGED <<plan, committees, coordinator, disk, proc, made>>
  PROVE  CeremonyInv'
<1>1. CoordinatorType(plan, coordinator)
  BY DEF CeremonyInv, CeremonyType
<1> QED BY <1>1, QuietCoordinator, ZenonT(30)

LEMMA RegisterPreserves ==
  ASSUME CeremonyInv, NEW tx \in txs, txs' = txs \ {tx}, committees' = Registered(tx),
         UNCHANGED <<plan, coordinator, disk, proc, made>>
  PROVE  CeremonyInv'
<1> DEFINE c == tx.committee
           k == committees[c]
           reg == [k.registered EXCEPT ![tx.member] = tx.key]
           e == [created |-> k.created, registered |-> reg, proposal |-> k.proposal,
                 approvals |-> k.approvals, finalized |-> k.finalized]
<1>1. c \in CommitteeId /\ DOMAIN committees = CommitteeId /\ CoordinatorType(plan, coordinator)
  BY DEF CeremonyInv, CeremonyType, TxType
<1>2. CommitteeType(plan, k)
  BY <1>1 DEF CeremonyInv, CeremonyType
<1>3. committees' = [committees EXCEPT ![c] = [k EXCEPT !.registered = reg]]
  BY <1>1 DEF Registered
<1> HIDE DEF reg
<1>4. [k EXCEPT !.registered = reg] = e
  BY <1>2 DEF CommitteeType, CommitteeShape
<1> HIDE DEF e
<1>5. Changes(committees, committees', c, e)
  BY <1>1, <1>3, <1>4, ZenonT(30) DEF Changes
<1>6. CommitteeShape(e) /\ e.created = k.created /\ e.proposal = k.proposal
      /\ e.approvals = k.approvals
  BY <1>2, CommitteeFields DEF e, CommitteeType
<1>7. CommitteeType(plan, e)
  BY <1>2, <1>6, Zenon DEF CommitteeType
<1>8. CeremonyType'
  BY <1>1, <1>5, <1>7, ChainTypes DEF CeremonyInv
<1>9. Quiet
  BY <1>1, <1>5, <1>6, Zenon DEF Quiet, Still, Changes
<1> QED BY <1>8, <1>9, QuietPreserves, Zenon

\* The first or a further approval.
LEMMA ProposePreserves ==
  ASSUME CeremonyInv, NEW tx \in txs, tx.kind = "propose", txs' = txs \ {tx},
         ProposeOk(tx.committee, tx.member, tx.out), committees' = Proposed(tx),
         UNCHANGED <<plan, coordinator, disk, proc, made>>
  PROVE  CeremonyInv'
<1> DEFINE c == tx.committee
           m == tx.member
           k == committees[c]
           all == k.approvals \cup {m}
           fin == (all = plan.members)
           e == [created |-> k.created, registered |-> k.registered, proposal |-> tx.out,
                 approvals |-> all, finalized |-> fin]
<1>1. /\ c \in CommitteeId /\ DOMAIN committees = CommitteeId /\ m \in plan.members
      /\ CoordinatorType(plan, coordinator) /\ tx.out \subseteq MessageOf(plan)
      /\ plan \in Plan
  BY Zenon DEF CeremonyInv, CeremonyType, TxType
<1>2. CommitteeType(plan, k)
  BY <1>1, Zenon DEF CeremonyInv, CeremonyType
<1>3. tx.out # None
  BY <1>1, WrittenIsSet
<1>4. k.proposal \in {None, tx.out}
  BY DEF ProposeOk
<1>5. Changes(committees, committees', c, e)
  <2>1. committees' = [committees EXCEPT ![c].proposal = tx.out, ![c].approvals = all,
                                         ![c].finalized = fin]
    BY DEF Proposed
  <2> DEFINE out == tx.out
             k1 == [k EXCEPT !.proposal = out]
             k2 == [k1 EXCEPT !.approvals = all]
             k3 == [k2 EXCEPT !.finalized = fin]
  <2> HIDE DEF all, fin
  <2>2. Changes(committees, committees', c, k3)
    BY <1>1, <2>1, ZenonT(30) DEF Changes
  <2>3. k3 = [created |-> k.created, registered |-> k.registered, proposal |-> out,
              approvals |-> all, finalized |-> fin]
    <3>1. CommitteeShape(k)
      BY <1>2, ZenonT(30) DEF CommitteeType
    <3> HIDE DEF k, out
    <3> QED BY <3>1, WriteProposal
  <2> HIDE DEF k3
  <2> QED BY <2>2, <2>3
<1> HIDE DEF e
<1>6. CommitteeShape(e) /\ e.created = k.created /\ e.proposal = tx.out /\ e.approvals = all
  BY <1>2, CommitteeFields DEF e, CommitteeType
<1>7. CommitteeType(plan, e)
  BY <1>1, <1>2, <1>3, <1>6, ZenonT(30) DEF CommitteeType
<1>8. CeremonyType'
  BY <1>1, <1>5, <1>7, ChainTypes DEF CeremonyInv
<1>9. \A d \in CommitteeId : d # c => committees'[d] = committees[d]
  BY <1>1, <1>5 DEF Changes
<1>10. committees'[c].created = k.created /\ committees'[c].proposal = tx.out
       /\ committees'[c].approvals = k.approvals \cup {m}
  BY <1>5, <1>6 DEF Changes
<1>11. \A d \in CommitteeId : \A n :
         HasProposed(committees', txs', d, n) => HasProposed(committees, txs, d, n)
  BY <1>9, <1>10 DEF HasProposed
<1>12. \A d \in CommitteeId : committees'[d].created = committees[d].created
  BY <1>9, <1>10
<1>13. NamesInv'
  BY <1>11, <1>12, ZenonT(30) DEF CeremonyInv, NamesInv
<1>14. RunsInv'
  <2> SUFFICES ASSUME NEW n \in plan.members, proc[n].pc \in Processing
               PROVE  ~HasProposed(committees', txs', disk[n].committee, n)
    BY Zenon DEF CeremonyInv, RunsInv
  <2>1. DiskType(plan, disk[n]) /\ disk[n].committee # None
    BY TypesOf, IdleFields
  <2>2. disk[n].committee \in CommitteeId
    BY <2>1, Zenon DEF DiskType, Id
  <2> QED BY <1>11, <2>2, Zenon DEF CeremonyInv, RunsInv
<1>15. ShareInv'
  <2>1. ASSUME NEW t \in txs', t.kind = "propose", disk[t.member].committee = t.committee
        PROVE  disk[t.member].outputs.share = t.out
    BY <2>1 DEF CeremonyInv, ShareInv
  <2>2. ASSUME NEW d \in CommitteeId, NEW n \in committees'[d].approvals, disk[n].committee = d
        PROVE  disk[n].outputs.share = committees'[d].proposal
    <3>1. CASE d # c
      BY <1>9, <2>2, <3>1, ZenonT(30) DEF CeremonyInv, ShareInv, ApprovedShareOnDisk
    <3>2. CASE d = c /\ n = m
      BY <1>10, <2>2, <3>2, Zenon DEF CeremonyInv, ShareInv
    <3>3. CASE d = c /\ n \in k.approvals
      <4>1. k.proposal = tx.out
        BY <1>2, <1>4, <3>3 DEF CommitteeType
      <4> QED BY <1>10, <2>2, <3>3, <4>1, Zenon DEF CeremonyInv, ShareInv, ApprovedShareOnDisk
    <3> QED BY <1>10, <3>1, <3>2, <3>3, Zenon
  <2> QED BY <2>1, <2>2 DEF ShareInv, ApprovedShareOnDisk
<1>16. ProposalInv'
  <2>1. \A t \in txs' : t.kind = "propose" => OwnMessages(plan, t.out, t.committee)
    BY DEF CeremonyInv, ProposalInv
  <2>2. OwnMessages(plan, tx.out, c)
    BY Zenon DEF CeremonyInv, ProposalInv
  <2>3. \A d \in CommitteeId :
          committees'[d].proposal # None => OwnMessages(plan, committees'[d].proposal, d)
    BY <1>9, <1>10, <2>2, Zenon DEF CeremonyInv, ProposalInv
  <2> QED BY <2>1, <2>3 DEF ProposalInv
<1>17. \A n \in plan'.members : OneRun(disk'[n].outputs)
  BY DEF CeremonyInv
<1> QED BY <1>8, <1>13, <1>14, <1>15, <1>16, <1>17, Zenon DEF CeremonyInv

LEMMA ExecutePreserves ==
  ASSUME CeremonyInv, NEW tx \in txs, Execute(tx)
  PROVE  CeremonyInv'
<1>1. txs' = txs \ {tx} /\ UNCHANGED <<plan, coordinator, disk, proc, made>>
  BY DEF Execute
<1>2. CASE tx.kind = "register" /\ committees' = Registered(tx)
  BY <1>1, <1>2, RegisterPreserves
<1>3. CASE /\ tx.kind = "propose" /\ ProposeOk(tx.committee, tx.member, tx.out)
           /\ committees' = Proposed(tx)
  BY <1>1, <1>3, ProposePreserves
<1>4. CASE UNCHANGED committees
  BY <1>1, <1>4, AbortPreserves, Zenon
<1> QED BY <1>2, <1>3, <1>4 DEF Execute

-----------------------------------------------------------------------------
\* A step of a member after which it has no proposal to the committee of its dkg.yaml may write
\* any outputs of one run.
LEMMA FilesStep ==
  ASSUME CeremonyInv, NEW m \in plan.members, NEW e, NEW r,
         UNCHANGED <<plan, committees, txs, coordinator, made>>,
         Changes(disk, disk', m, e), Changes(proc, proc', m, r),
         DiskType(plan, e), ProcType(plan, r), r.pc # "idle" => e.committee # None,
         ~HasProposed(committees, txs, e.committee, m), NamesInv',
         RunOk(plan, r, e), OneRun(e.outputs)
  PROVE  CeremonyInv'
<1>1. CeremonyType'
  BY MemberTypes, Zenon DEF CeremonyInv
<1>2. /\ disk'[m] = e /\ proc'[m] = r
      /\ \A n \in plan.members : n # m => disk'[n] = disk[n] /\ proc'[n] = proc[n]
  BY TypesOf, Zenon DEF Changes
<1>3. RunsInv'
  <2> SUFFICES ASSUME NEW n \in plan.members
               PROVE  /\ RunOk(plan, proc'[n], disk'[n])
                      /\ proc'[n].pc \in Processing =>
                           ~HasProposed(committees, txs, disk'[n].committee, n)
    BY Zenon DEF RunsInv
  <2> QED BY <1>2, Zenon DEF CeremonyInv, RunsInv
<1>4. ShareInv'
  <2>1. ASSUME NEW tx \in txs, tx.kind = "propose", disk'[tx.member].committee = tx.committee
        PROVE  disk'[tx.member].outputs.share = tx.out
    <3>1. tx.member \in plan.members
      BY Zenon DEF CeremonyInv, CeremonyType, TxType
    <3>2. tx.member # m
      BY <1>2, <2>1, ZenonT(30) DEF HasProposed
    <3> QED BY <1>2, <2>1, <3>1, <3>2 DEF CeremonyInv, ShareInv
  <2>2. ASSUME NEW c \in CommitteeId, NEW n \in committees[c].approvals, disk'[n].committee = c
        PROVE  disk'[n].outputs.share = committees[c].proposal
    <3>1. n \in plan.members
      BY Zenon DEF CeremonyInv, CeremonyType, CommitteeType
    <3>2. n # m
      BY <1>2, <2>2, Zenon DEF HasProposed
    <3> QED BY <1>2, <2>2, <3>1, <3>2 DEF CeremonyInv, ShareInv, ApprovedShareOnDisk
  <2> QED BY <2>1, <2>2, ZenonT(30) DEF ShareInv, ApprovedShareOnDisk
<1>5. ProposalInv'
  BY Zenon DEF CeremonyInv, ProposalInv
<1>6. \A n \in plan'.members : OneRun(disk'[n].outputs)
  BY <1>2 DEF CeremonyInv
<1> QED BY <1>1, <1>3, <1>4, <1>5, <1>6, Zenon DEF CeremonyInv

\* process-all-and-propose, and the removal of its outputs, by a member that has not proposed to
\* its committee.
LEMMA RunStep ==
  ASSUME CeremonyInv, NEW m \in plan.members, NEW e, NEW r,
         UNCHANGED <<plan, committees, txs, coordinator, made>>,
         Changes(disk, disk', m, e), Changes(proc, proc', m, r),
         DiskType(plan, e), ProcType(plan, r), r.pc # "idle" => e.committee # None,
         e.committee = disk[m].committee,
         ~HasProposed(committees, txs, disk[m].committee, m),
         RunOk(plan, r, e), OneRun(e.outputs)
  PROVE  CeremonyInv'
<1>1. \A n \in plan.members : disk'[n].committee = disk[n].committee
  BY TypesOf, Zenon DEF Changes
<1>2. NamesInv'
  BY <1>1, Zenon DEF CeremonyInv, NamesInv
<1> QED BY <1>2, FilesStep, Zenon

\* Without outputs on its disk a member has not proposed to its committee.
LEMMA NothingProposed ==
  ASSUME CeremonyInv, NEW m \in plan.members, disk[m].outputs = NoOutputs,
         disk[m].committee \in CommitteeId
  PROVE  ~HasProposed(committees, txs, disk[m].committee, m)
<1> DEFINE c == disk[m].committee
<1>1. disk[m].outputs.share = None
  BY NoOutputsFields
<1>2. ASSUME NEW tx \in txs, tx.kind = "propose", tx.member = m, tx.committee = c
      PROVE  FALSE
  <2>1. tx.out = None
    BY <1>1, <1>2, ZenonT(30) DEF CeremonyInv, ShareInv
  <2>2. plan \in Plan /\ tx.out \subseteq MessageOf(plan)
    BY <1>2 DEF CeremonyInv, CeremonyType, TxType
  <2> QED BY <2>1, <2>2, WrittenIsSet
<1>3. ASSUME m \in committees[c].approvals
      PROVE  FALSE
  <2>1. committees[c].proposal = None
    BY <1>1, <1>3, ZenonT(30) DEF CeremonyInv, ShareInv, ApprovedShareOnDisk
  <2>2. CommitteeType(plan, committees[c])
    BY DEF CeremonyInv, CeremonyType
  <2> QED BY <1>3, <2>1, <2>2, Zenon DEF CommitteeType
<1> QED BY <1>2, <1>3 DEF HasProposed

LEMMA ProcessPreserves ==
  ASSUME CeremonyInv, NEW m \in plan.members, Process(m)
  PROVE  CeremonyInv'
<1> DEFINE pc == IF plan.rotating THEN "partials" ELSE "pk"
           out == disk[m].dir
           r == [pc |-> pc, out |-> out]
<1>1. /\ UNCHANGED <<plan, committees, txs, coordinator, disk, made>>
      /\ disk[m].me /\ disk[m].state = disk[m].committee
      /\ disk[m].outputs = NoOutputs /\ process_dkg_messages(m)
      /\ proc' = [proc EXCEPT ![m] = r]
  BY DEF Process, existing_process_output_fields
<1>2. DiskType(plan, disk[m]) /\ Changes(disk, disk', m, disk[m])
  BY <1>1, TypesOf, Zenon
<1>3. disk[m].committee # None /\ disk[m].committee \in CommitteeId
  BY <1>1, <1>2 DEF DiskType, Id
<1>4. out \subseteq MessageOf(plan)
  BY <1>2 DEF DiskType
<1>5. r.pc = pc /\ r.out = out /\ pc # "idle" /\ pc # "propose"
  OBVIOUS
<1>6. ProcType(plan, r)
  BY <1>4, Zenon DEF ProcType
<1> HIDE DEF r
<1>7. Changes(proc, proc', m, r)
  BY <1>1, TypesOf, Zenon DEF Changes
<1>8. OwnMessages(plan, out, disk[m].committee)
  BY <1>1, <1>4, CheckedMessages, Zenon
<1>9. RunOk(plan, r, disk[m])
  BY <1>1, <1>5, <1>8, NoOutputsFields DEF RunOk
<1>10. OneRun(disk[m].outputs)
  BY DEF CeremonyInv
<1>11. ~HasProposed(committees, txs, disk[m].committee, m)
  BY <1>1, <1>3, NothingProposed
<1> QED BY <1>1, <1>2, <1>3, <1>6, <1>7, <1>9, <1>10, <1>11, RunStep, ZenonT(30)

\* A run writes one of its outputs.
LEMMA WriteStep ==
  ASSUME CeremonyInv, NEW m \in plan.members, proc[m].pc \in Processing,
         UNCHANGED <<plan, committees, txs, coordinator, made>>,
         NEW a \in {None, proc[m].out}, NEW b \in {None, proc[m].out},
         NEW s \in {None, proc[m].out}, NEW then \in Processing,
         then = "propose" => s = proc[m].out,
         NEW e, e = [disk[m] EXCEPT !.outputs = [pk |-> a, partials |-> b, share |-> s]],
         Changes(disk, disk', m, e),
         NEW r, r = [proc[m] EXCEPT !.pc = then], Changes(proc, proc', m, r)
  PROVE  CeremonyInv'
<1>1. /\ DiskType(plan, disk[m]) /\ ProcType(plan, proc[m]) /\ proc[m].pc # "idle"
      /\ disk[m].committee # None
  BY TypesOf, IdleFields
<1>2. /\ DiskType(plan, e) /\ e.committee = disk[m].committee
      /\ e.outputs.pk = a /\ e.outputs.partials = b /\ e.outputs.share = s
  BY <1>1, WriteOutputs
<1>3. ProcType(plan, r) /\ r.pc = then /\ r.out = proc[m].out
  BY <1>1, StepPc
<1>4. /\ OwnMessages(plan, proc[m].out, disk[m].committee)
      /\ ~HasProposed(committees, txs, disk[m].committee, m)
  BY DEF CeremonyInv, RunsInv, RunOk
<1>5. RunOk(plan, r, e)
  BY <1>2, <1>3, <1>4 DEF RunOk
<1>6. OneRun(e.outputs)
  BY <1>2 DEF OneRun
<1> QED BY <1>1, <1>2, <1>3, <1>4, <1>5, <1>6, RunStep, ZenonT(30)

LEMMA OutputFields ==
  ASSUME NEW o, NEW x, NEW y, NEW z, o = [pk |-> x, partials |-> y, share |-> z],
         NEW out, NEW f \in {"pk", "partials", "share"}
  PROVE  [o EXCEPT ![f] = out] = [pk |-> IF f = "pk" THEN out ELSE x,
                                  partials |-> IF f = "partials" THEN out ELSE y,
                                  share |-> IF f = "share" THEN out ELSE z]
<1> DEFINE w == [g \in {"pk", "partials", "share"} |-> IF g = f THEN out ELSE o[g]]
<1>1. DOMAIN o = {"pk", "partials", "share"}
  BY Zenon
<1>2. [o EXCEPT ![f] = out] = w
  BY <1>1
<1>3. w = [pk |-> IF f = "pk" THEN out ELSE x, partials |-> IF f = "partials" THEN out ELSE y,
           share |-> IF f = "share" THEN out ELSE z]
  OBVIOUS
<1> QED BY <1>2, <1>3

LEMMA PersistPreserves ==
  ASSUME CeremonyInv, NEW m \in plan.members, persist_process_outputs(m)
  PROVE  CeremonyInv'
<1> DEFINE d == disk[m]
           o == d.outputs
           out == proc[m].out
<1>1. DiskType(plan, d) /\ o = [pk |-> o.pk, partials |-> o.partials, share |-> o.share]
  BY TypesOf, ZenonT(30) DEF DiskType, DiskShape
<1>2. ASSUME NEW pc \in Processing, NEW field \in {"pk", "partials", "share"},
             NEW then \in Processing, Persist(m, pc, field, then), field = "share" <=> then = "propose"
      PROVE  CeremonyInv'
  <2> DEFINE w == [o EXCEPT ![field] = out]
             e == [d EXCEPT !.outputs = w]
             r == [proc[m] EXCEPT !.pc = then]
  <2>1. proc[m].pc = pc /\ UNCHANGED <<plan, committees, txs, coordinator, made>>
    BY <1>2, ZenonT(30) DEF Persist
  <2>2. o.pk \in {None, out} /\ o.partials \in {None, out} /\ o.share \in {None, out}
    BY <2>1 DEF CeremonyInv, RunsInv, RunOk
  <2>3. Changes(proc, proc', m, r)
    BY <1>2, TypesOf DEF Persist, Changes
  <2>4. Changes(disk, disk', m, e)
    BY <1>2, TypesOf DEF Persist, Changes
  <2> DEFINE a == IF field = "pk" THEN out ELSE o.pk
             b == IF field = "partials" THEN out ELSE o.partials
             s == IF field = "share" THEN out ELSE o.share
  <2>5. w = [pk |-> a, partials |-> b, share |-> s]
    <3> DEFINE x == o.pk
               y == o.partials
               z == o.share
    <3>1. o = [pk |-> x, partials |-> y, share |-> z]
      BY <1>1, Zenon
    <3> HIDE DEF o, out, x, y, z
    <3>2. w = [pk |-> IF field = "pk" THEN out ELSE x,
               partials |-> IF field = "partials" THEN out ELSE y,
               share |-> IF field = "share" THEN out ELSE z]
      BY <3>1, OutputFields
    <3> QED BY <3>2, Zenon DEF x, y, z
  <2>6. a \in {None, out} /\ b \in {None, out} /\ s \in {None, out}
        /\ (then = "propose" => s = out)
    BY <1>2, <2>2
  <2> HIDE DEF w, a, b, s
  <2>7. e = [d EXCEPT !.outputs = [pk |-> a, partials |-> b, share |-> s]]
    BY <2>5
  <2>8. r = [proc[m] EXCEPT !.pc = then]
    OBVIOUS
  <2> HIDE DEF e, r
  <2> QED BY <2>1, <2>3, <2>4, <2>6, <2>7, <2>8, WriteStep
<1>3. {"pk", "partials", "share", "propose"} \subseteq Processing
  BY DEF Processing
<1>4. CASE Persist(m, "pk", "pk", "partials")
  BY <1>2, <1>3, <1>4
<1>5. CASE Persist(m, "partials", "partials", "share")
  BY <1>2, <1>3, <1>5
<1>6. CASE Persist(m, "share", "share", "propose")
  BY <1>2, <1>3, <1>6, ZenonT(30)
<1> QED BY <1>4, <1>5, <1>6 DEF persist_process_outputs

LEMMA RemoveOutputsPreserves ==
  ASSUME CeremonyInv, NEW m \in plan.members, RemoveOutputs(m)
  PROVE  CeremonyInv'
<1> DEFINE e == [disk[m] EXCEPT !.outputs = [pk |-> None, partials |-> None, share |-> None]]
<1>1. UNCHANGED <<plan, committees, txs, coordinator, proc, made>> /\ proc[m] = Idle
  BY DEF RemoveOutputs
<1>2. Changes(disk, disk', m, e)
  BY TypesOf DEF RemoveOutputs, NoOutputs, Changes
<1>3. e = [disk[m] EXCEPT !.outputs = [pk |-> None, partials |-> None, share |-> None]]
  OBVIOUS
<1> HIDE DEF e
<1>4. /\ DiskType(plan, e) /\ e.committee = disk[m].committee
      /\ e.outputs.pk = None /\ e.outputs.partials = None /\ e.outputs.share = None
  BY <1>3, TypesOf, WriteOutputs
<1>5. Changes(proc, proc', m, Idle)
  BY <1>1, TypesOf
<1>6. ~HasProposed(committees, txs, disk[m].committee, m)
  BY Zenon DEF RemoveOutputs, Waiting, HasProposed
<1>7. RunOk(plan, Idle, e) /\ OneRun(e.outputs)
  BY <1>4, IdleFields DEF RunOk, OneRun
<1> QED BY <1>1, <1>2, <1>4, <1>5, <1>6, <1>7, IdleType, IdleFields, RunStep

LEMMA SubmitProposalPreserves ==
  ASSUME CeremonyInv, NEW m \in plan.members, SubmitProposal(m)
  PROVE  CeremonyInv'
<1> DEFINE c == disk[m].committee
           out == proc[m].out
           tx == Tx("propose", m, 0, out)
<1>1. /\ UNCHANGED <<plan, committees, coordinator, disk, made>>
      /\ txs' = txs \cup {tx} /\ proc[m].pc = "propose"
  BY Zenon DEF SubmitProposal
<1>2. Changes(disk, disk', m, disk[m]) /\ DiskType(plan, disk[m])
  BY <1>1, TypesOf, Zenon
<1>3. Changes(proc, proc', m, Idle)
  BY TypesOf, Zenon DEF SubmitProposal, Changes
<1>4. tx.kind = "propose" /\ tx.member = m /\ tx.committee = c /\ tx.out = out
  BY Zenon DEF Tx
<1> HIDE DEF tx
<1>5. c \in CommitteeId
  BY <1>1, TypesOf DEF DiskType, Id
<1>6. OwnMessages(plan, out, c) /\ disk[m].outputs.share = out /\ out \subseteq MessageOf(plan)
  BY <1>1, TypesOf, ZenonT(30) DEF CeremonyInv, RunsInv, RunOk, Processing, ProcType
<1>7. CeremonyType'
  <2>1. TxType(plan, tx)
    BY <1>4, <1>5, <1>6, Zenon DEF TxType
  <2>2. \A t \in txs' : t \in txs \/ TxType(plan, t)
    BY <1>1, <2>1, Zenon
  <2> QED BY <1>1, <1>2, <1>3, <2>2, IdleType, IdleFields, MemberTypes, Zenon DEF CeremonyInv
<1>8. /\ proc'[m] = Idle
      /\ \A n \in plan.members : n # m => proc'[n] = proc[n]
  BY <1>3, TypesOf, Zenon DEF Changes
<1>9. \A d, n : HasProposed(committees, txs', d, n) =>
                  HasProposed(committees, txs, d, n) \/ (d = c /\ n = m)
  BY <1>1, <1>4 DEF HasProposed
<1>10. NamesInv'
  <2>1. ASSUME NEW d \in CommitteeId, ~committees[d].created
        PROVE  /\ coordinator.committee # d /\ coordinator.created # d
               /\ \A n \in plan.members :
                    disk[n].committee # d /\ ~HasProposed(committees, txs', d, n)
    BY <1>9, <2>1, Zenon DEF CeremonyInv, NamesInv
  <2>2. ASSUME NEW d \in CommitteeId, NEW n \in plan.members,
               HasProposed(committees, txs', d, n), disk[n].committee # d
        PROVE  coordinator.committee # d /\ coordinator.created # d
    BY <1>9, <2>2, Zenon DEF CeremonyInv, NamesInv
  <2> QED BY <1>1, <2>1, <2>2, ZenonT(30) DEF NamesInv
<1>11. RunsInv'
  <2> SUFFICES ASSUME NEW n \in plan.members
               PROVE  /\ RunOk(plan, proc'[n], disk[n])
                      /\ proc'[n].pc \in Processing =>
                           ~HasProposed(committees, txs', disk[n].committee, n)
    BY <1>1, Zenon DEF RunsInv
  <2>1. CASE n = m
    BY <1>8, <2>1, IdleFields, Zenon DEF RunOk
  <2>2. CASE n # m
    BY <1>8, <1>9, <2>2, Zenon DEF CeremonyInv, RunsInv
  <2> QED BY <2>1, <2>2, Zenon
<1>12. ShareInv'
  BY <1>1, <1>4, <1>6, Zenon DEF CeremonyInv, ShareInv, ApprovedShareOnDisk
<1>13. ProposalInv'
  BY <1>1, <1>4, <1>6, ZenonT(30) DEF CeremonyInv, ProposalInv
<1>14. \A n \in plan'.members : OneRun(disk'[n].outputs)
  BY <1>1 DEF CeremonyInv
<1> QED BY <1>7, <1>10, <1>11, <1>12, <1>13, <1>14, Zenon DEF CeremonyInv

LEMMA DistributePreserves ==
  ASSUME CeremonyInv, NEW m \in plan.members, Distribute(m)
  PROVE  CeremonyInv'
<1> DEFINE c == coordinator.committee
           d == disk[m]
<1>1. /\ c # None /\ d.committee # c /\ proc[m] = Idle
      /\ UNCHANGED <<plan, committees, txs, coordinator, proc, made>>
  BY DEF Distribute
<1>2. PICK w \in BOOLEAN : disk' = [disk EXCEPT ![m] = FilesOf(d, c, w)]
  BY ZenonT(30) DEF Distribute, FilesOf
<1> DEFINE e == FilesOf(d, c, w)
<1>3. Changes(disk, disk', m, e)
  BY <1>2, TypesOf, ZenonT(30) DEF Changes
<1>4. c \in CommitteeId /\ coordinator.created = None
  BY <1>1, Zenon DEF CeremonyInv, CeremonyType, CoordinatorType, Id
<1>5. DiskType(plan, d)
  BY TypesOf, ZenonT(30)
<1>6. DiskType(plan, e) /\ e.committee = c /\ e.outputs = NoOutputs
  BY <1>4, <1>5, NewFiles
<1> HIDE DEF e
<1>7. Changes(proc, proc', m, Idle)
  BY <1>1, TypesOf, Zenon
<1>8. disk'[m] = e /\ \A n \in plan.members : n # m => disk'[n] = disk[n]
  BY <1>3, TypesOf, Zenon DEF Changes
<1>9. ~HasProposed(committees, txs, c, m)
  BY <1>1, <1>4, Zenon DEF CeremonyInv, NamesInv
<1>10. NamesInv'
  <2>1. ASSUME NEW k \in CommitteeId, ~committees[k].created
        PROVE  /\ c # k /\ coordinator.created # k
               /\ \A n \in plan.members :
                    disk'[n].committee # k /\ ~HasProposed(committees, txs, k, n)
    BY <1>6, <1>8, <2>1, Zenon DEF CeremonyInv, NamesInv
  <2>2. ASSUME NEW k \in CommitteeId, NEW n \in plan.members,
               HasProposed(committees, txs, k, n), disk'[n].committee # k
        PROVE  c # k /\ coordinator.created # k
    <3>1. k # None
      BY CeremonyConstants
    <3> QED BY <1>4, <1>6, <1>8, <2>2, <3>1, Zenon DEF CeremonyInv, NamesInv
  <2> QED BY <1>1, <2>1, <2>2, Zenon DEF NamesInv
<1>11. RunOk(plan, Idle, e)
  BY IdleFields, Zenon DEF RunOk
<1>12. OneRun(e.outputs)
  BY <1>6, NoOutputsFields, Zenon DEF OneRun
<1>13. ProcType(plan, Idle) /\ Idle.pc = "idle" /\ ~HasProposed(committees, txs, e.committee, m)
  BY <1>6, <1>9, IdleType, IdleFields, Zenon
<1> QED BY <1>1, <1>3, <1>6, <1>7, <1>10, <1>11, <1>12, <1>13, FilesStep, ZenonT(30)

-----------------------------------------------------------------------------
LEMMA StutterPreserves ==
  ASSUME CeremonyInv, UNCHANGED vars
  PROVE  CeremonyInv'
<1>1. CoordinatorType(plan, coordinator)
  BY DEF CeremonyInv, CeremonyType
<1>2. UNCHANGED <<plan, committees, txs, coordinator, disk, proc, made>>
  BY Zenon DEF vars
<1> QED BY <1>1, <1>2, QuietCoordinator, Zenon

LEMMA CommandPreserves ==
  ASSUME CeremonyInv, NEW m \in plan.members, Command(m)
  PROVE  CeremonyInv'
  BY SaveKeysPreserves, SubmitRegisterPreserves, SaveStatePreserves, PersistPreserves,
     SubmitProposalPreserves, Zenon DEF Command

LEMMA StepPreserves == CeremonyInv /\ [Next]_vars => CeremonyInv'
<1> SUFFICES ASSUME CeremonyInv, [Next]_vars PROVE CeremonyInv'
  OBVIOUS
<1>1. ASSUME NEW tx \in txs, Execute(tx) \/ Lose(tx) PROVE CeremonyInv'
  BY <1>1, ExecutePreserves, LosePreserves
<1>2. CASE Coordinate \/ CoordinatorCrashes
  BY <1>2, CreateCommitteePreserves, SaveCommitteeIdPreserves, CoordinatorCrashesPreserves
     DEF Coordinate
<1>3. CASE Restart \/ Announce \/ Reopen
  BY <1>3, RestartPreserves, AnnouncePreserves, ReopenPreserves
<1>4. ASSUME NEW m \in plan.members, Distribute(m) \/ Collect(m) \/ Receive(m)
      PROVE  CeremonyInv'
  BY <1>4, DistributePreserves, CollectPreserves, ReceivePreserves, Zenon
<1>5. ASSUME NEW m \in plan.members,
             GenerateKeys(m) \/ CreateMessage(m) \/ Process(m) \/ Command(m)
      PROVE  CeremonyInv'
  BY <1>5, GenerateKeysPreserves, CreateMessagePreserves, ProcessPreserves, CommandPreserves, Zenon
<1>6. ASSUME NEW m \in plan.members, MemberCrashes(m) \/ RemoveKeys(m) \/ RemoveOutputs(m)
      PROVE  CeremonyInv'
  BY <1>6, MemberCrashesPreserves, RemoveKeysPreserves, RemoveOutputsPreserves
<1>7. CASE UNCHANGED vars
  BY <1>7, StutterPreserves
<1> QED BY <1>1, <1>2, <1>3, <1>4, <1>5, <1>6, <1>7 DEF Next

\* CeremonyInv is an inductive invariant: whatever crashes, is lost, removed or restarted, a
\* running process-all-and-propose has checked its messages and is the only one since the
\* outputs were last empty, and a proposal on chain or in flight is the share on disk.
THEOREM CeremonyInvariant == Spec => []CeremonyInv
  BY InitEstablishes, StepPreserves, PTL DEF Spec

\* persist_process_outputs comes before the transaction and a later run of the command refuses
\* outputs that are there, so what a member has approved on chain is the share in its dkg.yaml.
THEOREM ApprovedSharesAreKept == Spec => []ApprovedShareOnDisk
<1>1. CeremonyInv => ApprovedShareOnDisk
  BY DEF CeremonyInv, ShareInv
<1> QED BY <1>1, CeremonyInvariant, PTL

\* The three fields persist_process_outputs writes one after the other are of one run of the
\* protocol, also when a crash came between them and the command was run again.
THEOREM OutputsAreOfOneRun == Spec => []OutputsOfOneRun
<1>1. CeremonyInv => OutputsOfOneRun
  <2> SUFFICES ASSUME CeremonyInv, NEW m \in plan.members
               PROVE  LET o == disk[m].outputs
                      IN  \A f, g \in DOMAIN o : o[f] # None /\ o[g] # None => o[f] = o[g]
    BY DEF OutputsOfOneRun
  <2> DEFINE o == disk[m].outputs
  <2>1. o = [pk |-> o.pk, partials |-> o.partials, share |-> o.share] /\ OneRun(o)
    BY TypesOf, ZenonT(30) DEF CeremonyInv, DiskType, DiskShape
  <2> HIDE DEF o
  <2>2. DOMAIN o = {"pk", "partials", "share"}
    BY <2>1
  <2>3. \A f, g \in DOMAIN o : o[f] # None /\ o[g] # None => o[f] = o[g]
    BY <2>1, <2>2, Zenon DEF OneRun
  <2> QED BY <2>3, Zenon DEF o
<1> QED BY <1>1, CeremonyInvariant, PTL

LEMMA ProposalTypes ==
  ASSUME CeremonyInv, NEW c \in CommitteeId, committees[c].proposal # None
  PROVE  /\ OwnMessages(plan, committees[c].proposal, c)
         /\ plan \in Plan /\ committees[c].proposal \subseteq MessageOf(plan)
  BY Zenon DEF CeremonyInv, CeremonyType, CommitteeType, ProposalInv

-----------------------------------------------------------------------------
INSTANCE FiniteSetTheorems

\* A set of messages with as many senders as messages has one message from each.
LEMMA OneEach ==
  ASSUME NEW msgs, IsFiniteSet(msgs), Cardinality(Senders(msgs)) = Cardinality(msgs)
  PROVE  \A m1, m2 \in msgs : m1.from = m2.from => m1 = m2
<1> DEFINE f == [msg \in msgs |-> msg.from]
<1>1. f \in Surjection(msgs, Senders(msgs))
  BY DEF Surjection, Senders
<1>2. f \in Injection(msgs, Senders(msgs))
  <2> HIDE DEF f
  <2> QED BY <1>1, FS_Surjection, Zenon
<1>3. \A m1, m2 \in msgs : f[m1] = f[m2] => m1 = m2
  <2> HIDE DEF f
  <2> QED BY <1>2 DEF Injection, IsInjective
<1> QED BY <1>3

\* There are finitely many messages for one committee: the senders are finitely many and each
\* makes boundedly many.
LEMMA FinitelyMany ==
  ASSUME NEW p \in Plan, NEW c, NEW msgs, msgs \subseteq MessageOf(p),
         \A msg \in msgs : msg.committee = c
  PROVE  IsFiniteSet(msgs)
<1> DEFINE S == p.members \X (1..p.messages)
           f == [x \in S |-> [from |-> x[1], committee |-> c, serial |-> x[2]]]
           T == {f[x] : x \in S}
<1>1. IsFiniteSet(p.members) /\ p.messages \in Nat
  BY CeremonyConstants, FS_Subset, Zenon
<1>2. IsFiniteSet(1..p.messages)
  BY <1>1, FS_Interval
<1>3. IsFiniteSet(S)
  BY <1>1, <1>2, FS_Product, ZenonT(30)
<1>4. f \in Surjection(S, T)
  <2> HIDE DEF S
  <2> QED BY DEF Surjection
<1>5. IsFiniteSet(T)
  <2> HIDE DEF S, f, T
  <2> QED BY <1>3, <1>4, FS_Surjection, Zenon
<1>6. ASSUME NEW msg \in msgs PROVE msg \in T
  <2>1. /\ msg = [from |-> msg.from, committee |-> c, serial |-> msg.serial]
        /\ msg.from \in p.members /\ msg.serial \in 1..p.messages
    BY Zenon DEF MessageOf
  <2>2. <<msg.from, msg.serial>> \in S /\ f[<<msg.from, msg.serial>>] = msg
    BY <2>1
  <2> QED BY <2>2, Zenon
<1> HIDE DEF T
<1> QED BY <1>5, <1>6, FS_Subset, Zenon

\* A proposal on chain was computed by process_dkg_messages from messages made for that
\* committee, one of each sender, and as many as a fresh ceremony or a rotation needs.
THEOREM ProposalsFromOwnMessages == Spec => []ProposalFromOwnMessages
<1>1. CeremonyInv => ProposalFromOwnMessages
  <2> SUFFICES ASSUME CeremonyInv PROVE ProposalFromOwnMessages
    BY Zenon
  <2>1. ASSUME NEW c \in CommitteeId, committees[c].proposal # None
        PROVE  /\ OwnMessages(plan, committees[c].proposal, c)
               /\ \A m1, m2 \in committees[c].proposal : m1.from = m2.from => m1 = m2
    <3> DEFINE msgs == committees[c].proposal
    <3>1. OwnMessages(plan, msgs, c) /\ plan \in Plan /\ msgs \subseteq MessageOf(plan)
      BY <2>1, ProposalTypes, Zenon
    <3> HIDE DEF msgs
    <3>2. IsFiniteSet(msgs)
      BY <3>1, FinitelyMany, Zenon DEF OwnMessages
    <3>3. \A m1, m2 \in msgs : m1.from = m2.from => m1 = m2
      BY <3>1, <3>2, OneEach DEF OwnMessages
    <3> QED BY <3>1, <3>3, Zenon DEF msgs
  <2> QED BY <2>1 DEF ProposalFromOwnMessages, OwnMessages, Sends, MessagesNeeded
<1> QED BY <1>1, CeremonyInvariant, PTL

=============================================================================
