-------------------------- MODULE CommitteeService --------------------------
(***************************************************************************)
(* The decryption service of a committee as a client meets it: the key     *)
(* server object on chain, the members' key servers and the aggregator.    *)
(*                                                                         *)
(* A member's server is the abstract ShareHolder, which MemberServer       *)
(* implements; the aggregator is Aggregator with the members' servers      *)
(* answering; an unreliable one may answer anything.  A member may have a  *)
(* seat in some versions only.                                             *)
(***************************************************************************)
EXTENDS Aggregator

CONSTANTS
  Member,    \* the operators of all versions
  Seat,      \* Seat[v][m]: m's party id in committee v, or None
  Reliable   \* the members assumed to keep their servers running, configured and reachable

VARIABLE serving   \* serving[m]: the version whose share m's server answers with, or None

serviceVars == <<vars, serving>>

Holder(v, i) == CHOOSE m \in Member : Seat[v][m] = i

ASSUME Seats ==
  \A v \in Version :
    /\ \A i \in Parties(v) : \E m \in Member : Seat[v][m] = i
    /\ \A m, n \in Member : Seat[v][m] = Seat[v][n] /\ Seat[v][m] # None => m = n

\* Enough reliable members in every version.
ASSUME EnoughReliable ==
  \A v \in Version : Cardinality({m \in Reliable : Seat[v][m] # None}) >= Threshold[v]

ServiceInit == Init /\ serving = [m \in Member |-> None]

\* A member's server comes up in the committee the configuration names.
StartMember(m, v) ==
  /\ serving[m] = None
  /\ v <= chain
  /\ Seat[v][m] # None
  /\ serving' = [serving EXCEPT ![m] = v]
  /\ UNCHANGED vars

SwitchMember_SamePartyId(m) ==
  /\ serving[m] # None
  /\ serving[m] < chain
  /\ Seat[serving[m] + 1][m] = Seat[serving[m]][m]
  /\ serving' = [serving EXCEPT ![m] = serving[m] + 1]
  /\ UNCHANGED vars

\* A server in rotation mode follows the chain.
SwitchMember(m) ==
  /\ serving[m] # None
  /\ serving[m] < chain
  /\ Seat[serving[m] + 1][m] # None
  /\ serving' = [serving EXCEPT ![m] = serving[m] + 1]
  /\ UNCHANGED vars

StopMember(m) ==
  /\ serving[m] # None
  /\ serving' = [serving EXCEPT ![m] = None]
  /\ UNCHANGED vars

\* What m's server may answer: keys under the share it serves.  An unreliable member may
\* answer anything.
Keys(m, expected) ==
  LET ids == SetToSeq(expected)
  IN  [kind |-> "keys", version_ok |-> TRUE,
       keys |-> [k \in DOMAIN ids |->
                   [id |-> ids[k], share |-> <<serving[m], Seat[serving[m]][m]>>]]]

AnswersOf(m, expected) ==
  (IF serving[m] = None THEN {} ELSE {Keys(m, expected)}) \cup (IF m \in Reliable THEN {} ELSE Answer)

\* The member that request r asks as party i.
Asked(r, i) == Holder(req[r].snapshot.members[i][1], i)

MemberAnswers(r, i) ==
  /\ \E answer \in AnswersOf(Asked(r, i), req[r].expected) : NextResult(r, i, answer)
  /\ UNCHANGED serving

\* A member that is down or unreliable need not answer: the connection fails or the timeout of
\* the fetch expires.
FetchTimesOut(r, i) ==
  /\ serving[Asked(r, i)] = None \/ Asked(r, i) \notin Reliable
  /\ NextResult(r, i, Failure)
  /\ UNCHANGED serving

SomeMemberAnswers(r) == \E i \in req[r].pending : MemberAnswers(r, i)

SomeFetchTimesOut(r) == \E i \in req[r].pending : FetchTimesOut(r, i)

Refresh(v) == monitor_members_update(v) /\ UNCHANGED serving

RefreshCurrent == Refresh(chain)

Restarts == (\E v \in Version : Restart(v)) /\ UNCHANGED serving

Asks(r) == (\E expected \in SUBSET KeyId : handle_fetch_key(r, expected)) /\ UNCHANGED serving

Replies(r) == Reply(r) /\ UNCHANGED serving

ServiceNext ==
  \/ Rotate /\ UNCHANGED serving
  \/ Restarts
  \/ \E v \in Version : Refresh(v)
  \/ \E m \in Member : (\E v \in Version : StartMember(m, v)) \/ SwitchMember(m) \/ StopMember(m)
  \/ \E r \in Request : Asks(r) \/ SomeMemberAnswers(r) \/ SomeFetchTimesOut(r) \/ Replies(r)

ReliableAnswers(r) == \E i \in req[r].pending : Asked(r, i) \in Reliable /\ MemberAnswers(r, i)

CatchUp(m) == (\E v \in Version : StartMember(m, v)) \/ SwitchMember(m)

\* Reliable members answer, timeouts expire, refreshes complete, and reliable operators bring
\* their server back and up to date after a rotation, as the runbook asks.  Nobody else has to
\* answer.
ServiceSpec ==
  /\ ServiceInit
  /\ [][ServiceNext]_serviceVars
  /\ WF_serviceVars(RefreshCurrent)
  /\ \A r \in Request : /\ WF_serviceVars(ReliableAnswers(r))
                        /\ WF_serviceVars(SomeFetchTimesOut(r))
                        /\ WF_serviceVars(Replies(r))
  /\ \A m \in Reliable : WF_serviceVars(CatchUp(m))

-----------------------------------------------------------------------------
\* What a client can tell: the full nodes no longer lag, nothing rotates or restarts, and the
\* reliable members stay.  A member without a seat in the current committee may stay behind.
Calm ==
  /\ \A m \in Reliable : serving[m] # None => serving'[m] # None
  /\ chain' = chain
  /\ committee' # committee => committee' = extract_committee_info(chain)

\* The service recovers: once rotations, restarts and lag end, and although up to n - t
\* members are down, behind, silent or answer falsely, every request ends and from some point on
\* none fails for want of answers.
ServiceRecovers ==
  <>[][Calm]_serviceVars =>
    /\ <>[](\A r \in Request : ~Done(r, "insufficient"))
    /\ \A r \in Request : []<>(req[r].pc # "collecting")

=============================================================================
