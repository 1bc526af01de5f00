----------------------------- MODULE Aggregator -----------------------------
(***************************************************************************)
(* The aggregator server: crates/key-server/src/aggregator.                *)
(*                                                                         *)
(* It keeps a snapshot of the on-chain committee, refreshed by a           *)
(* background task.  A request fans out to every member of the snapshot    *)
(* taken when it starts, verifies each answer against that member's        *)
(* partial public key, stops as soon as the threshold is reached or out of *)
(* reach, and combines the encrypted shares.                               *)
(*                                                                         *)
(* A share, and the partial public key it verifies under, is named by the  *)
(* version and the party id it belongs to.  Key ids, error kinds and       *)
(* requests are model values.  A definition named X_Suffix is a faulty     *)
(* variant of X that no specification uses.                                *)
(***************************************************************************)
EXTENDS Integers, Sequences, FiniteSets, SequencesExt

CONSTANTS
  MaxVersion,    \* the last committee version of the model
  Size,          \* Size[v]: the number of members of committee v
  Threshold,     \* Threshold[v]: its threshold
  Lag,           \* how many rotations a full node may be behind
  NoCredentials, \* partial keys of members without API credentials in the options
  KeyId,         \* full key ids
  Answer,        \* what a server that does not run this code may answer
  Request,       \* clients' requests
  None

Version == 0..MaxVersion

Parties(v) == 0..(Size[v] - 1)

PartialKey == {<<v, i>> : v \in Version, i \in UNION {Parties(w) : w \in Version}}

ASSUME Committees ==
  /\ MaxVersion \in Nat /\ Lag \in Nat
  /\ \A v \in Version : Size[v] \in Nat /\ Threshold[v] \in 1..Size[v]

\* An HTTP answer: an error relayed or raised, or decryption keys with the server's version
\* header meeting the requirement or not.
Failure == [kind |-> "error", error |-> "Failure"]

VARIABLES
  chain,      \* the version of the key server object on chain
  committee,  \* the CommitteeSnapshot behind the lock
  req         \* per request: what handle_fetch_key has collected

aggVars == <<committee, req>>
vars == <<chain, aggVars>>

-----------------------------------------------------------------------------
\* CommitteeSnapshot of version v: party i's entry carries its partial public key.
extract_committee_info(v) ==
  [threshold |-> Threshold[v], members |-> [i \in Parties(v) |-> <<v, i>>]]

Readable == {v \in Version : v <= chain /\ chain <= v + Lag}

Idle == [pc |-> "idle", expected |-> {}, snapshot |-> None, pending |-> {},
         responses |-> <<>>, errors |-> <<>>, outcome |-> None]

verify_decryption_keys_IdsOnly(keys, partial_pk, expected) ==
  /\ Len(keys) = Cardinality(expected)
  /\ {keys[k].id : k \in DOMAIN keys} = expected

\* The ids are exactly the expected ones, each once, and every share is partial_pk's.
verify_decryption_keys(keys, partial_pk, expected) ==
  /\ Len(keys) = Cardinality(expected)
  /\ \A j, k \in DOMAIN keys : keys[j].id = keys[k].id => j = k
  /\ {keys[k].id : k \in DOMAIN keys} = expected
  /\ \A k \in DOMAIN keys : keys[k].share = partial_pk

\* The result of the fetch from one member: its answer when it is good, an error otherwise.
fetch_from_member(partial_pk, answer, expected) ==
  CASE partial_pk \in NoCredentials -> Failure
    [] partial_pk \notin NoCredentials /\ answer.kind = "error" -> answer
    [] OTHER -> IF answer.version_ok /\ verify_decryption_keys(answer.keys, partial_pk, expected)
                THEN answer
                ELSE Failure

Count(errors, e) == Cardinality({k \in DOMAIN errors : errors[k] = e})

\* The most frequent error; the hash map's order decides between equals.  Without any error
\* a generic one.
handle_insufficient_responses(errors) ==
  IF errors = <<>> THEN {"Failure"}
  ELSE {e \in Range(errors) : \A f \in Range(errors) : Count(errors, f) <= Count(errors, e)}

\* The shares pushed for one key id, each with its place: the response and the key within it.
SharesOf(id, responses) ==
  UNION {{[response |-> k, place |-> j,
           party |-> responses[k].party, share |-> responses[k].keys[j].share] :
             j \in {j \in DOMAIN responses[k].keys : responses[k].keys[j].id = id}} :
           k \in DOMAIN responses}

\* The shares pushed up to s, and the first n of them.
UpTo(s, shares) ==
  {t \in shares : t.response < s.response \/ (t.response = s.response /\ t.place <= s.place)}

First(n, shares) == {s \in shares : Cardinality(UpTo(s, shares)) <= n}

\* elgamal::aggregate_encrypted: the shares combined for one key id, None for InvalidInput.
aggregate_encrypted(threshold, shares) ==
  IF threshold = 0 \/ Cardinality(shares) < threshold
     \/ \E s, t \in shares : s # t /\ s.party = t.party
  THEN None
  ELSE {s.share : s \in First(threshold, shares)}

\* Exactly threshold responses are combined, key id by key id.
aggregate_verified_encrypted_responses(threshold, responses) ==
  LET ids == UNION {{key.id : key \in Range(responses[k].keys)} : k \in DOMAIN responses}
      parts == [id \in ids |-> aggregate_encrypted(threshold, SharesOf(id, responses))]
  IN  IF Len(responses) # threshold \/ \E id \in ids : parts[id] = None THEN None ELSE parts

\* What the handler returns once it stops collecting.
Outcomes(threshold, responses, errors) ==
  IF Len(responses) < threshold
  THEN {[kind |-> "insufficient", error |-> e, keys |-> None] :
          e \in handle_insufficient_responses(errors)}
  ELSE LET parts == aggregate_verified_encrypted_responses(threshold, responses)
       IN  IF parts = None
           THEN {[kind |-> "aggregation_failed", error |-> "Failure", keys |-> None]}
           ELSE {[kind |-> "ok", error |-> None, keys |-> parts]}

StopsCollecting_Eager(threshold, got, remaining) ==
  got >= threshold \/ got + remaining <= threshold \/ remaining = 0

StopsCollecting_Stubborn(threshold, got, remaining) == got >= threshold \/ remaining = 0

\* The break conditions of the collecting loop, and its end.
StopsCollecting(threshold, got, remaining) ==
  got >= threshold \/ got + remaining < threshold \/ remaining = 0

-----------------------------------------------------------------------------
Init ==
  /\ chain = 0
  /\ committee = extract_committee_info(0)
  /\ req = [r \in Request |-> Idle]

\* handle_fetch_key up to the fan-out: expected is what the transaction asks for.  The
\* snapshot is read once, threshold and members together.
handle_fetch_key(r, expected) ==
  /\ req[r].pc = "idle"
  /\ req' = [req EXCEPT ![r] =
       IF expected = {}
       THEN [Idle EXCEPT !.pc = "done",
               !.outcome = [kind |-> "rejected", error |-> "InvalidPTB", keys |-> None]]
       ELSE [Idle EXCEPT !.pc = "collecting", !.expected = expected, !.snapshot = committee,
               !.pending = DOMAIN committee.members]]
  /\ UNCHANGED <<chain, committee>>

\* Request q with the result of the fetch from party i.
Received(q, i, result) ==
  IF result.kind = "keys"
  THEN [q EXCEPT !.pending = @ \ {i},
                 !.responses = Append(@, [party |-> i, keys |-> result.keys])]
  ELSE [q EXCEPT !.pending = @ \ {i}, !.errors = Append(@, result.error)]

\* One of the fetches of request r completes, and with it, possibly, the request.
NextResult(r, i, answer) ==
  /\ req[r].pc = "collecting"
  /\ i \in req[r].pending
  /\ \E result \in {fetch_from_member(req[r].snapshot.members[i], answer, req[r].expected)} :
     \E q \in {Received(req[r], i, result)} :
       IF StopsCollecting(q.snapshot.threshold, Len(q.responses), Cardinality(q.pending))
       THEN \E o \in Outcomes(q.snapshot.threshold, q.responses, q.errors) :
              req' = [req EXCEPT ![r] = [q EXCEPT !.pc = "done", !.outcome = o]]
       ELSE req' = [req EXCEPT ![r] = q]
  /\ UNCHANGED <<chain, committee>>

\* The response reaches the client, which may ask again.
Reply(r) ==
  /\ req[r].pc = "done"
  /\ req' = [req EXCEPT ![r] = Idle]
  /\ UNCHANGED <<chain, committee>>

\* monitor_members_update; a failed refresh keeps the snapshot.
monitor_members_update(v) ==
  /\ v \in Readable
  /\ committee' = extract_committee_info(v)
  /\ UNCHANGED <<chain, req>>

\* The process restarts (load_committee_state): requests in flight are gone.
Restart(v) ==
  /\ v \in Readable
  /\ committee' = extract_committee_info(v)
  /\ req' = [r \in Request |-> Idle]
  /\ UNCHANGED chain

Rotate ==
  /\ chain < MaxVersion
  /\ chain' = chain + 1
  /\ UNCHANGED aggVars

-----------------------------------------------------------------------------
Done(r, kind) == req[r].pc = "done" /\ req[r].outcome.kind = kind

\* What recovers the full key of an id: threshold-many shares of distinct parties, all of
\* one version that is or was on chain.
Recovers(shares) ==
  \E v \in Version :
    /\ v <= chain
    /\ shares \subseteq {<<v, i>> : i \in Parties(v)}
    /\ Cardinality(shares) = Threshold[v]

\* A success carries, for every id asked for and no other, a combination that recovers the
\* full key, whatever rotations, refreshes and false answers happened meanwhile.
AggregateRecovers ==
  \A r \in Request : Done(r, "ok") =>
    /\ DOMAIN req[r].outcome.keys = req[r].expected
    /\ \A id \in req[r].expected : Recovers(req[r].outcome.keys[id])

\* Giving up is justified: so many members failed that the others cannot reach the threshold.
FailureIsReal ==
  \A r \in Request : Done(r, "insufficient") =>
    Cardinality(DOMAIN req[r].snapshot.members) - Len(req[r].errors) < req[r].snapshot.threshold

\* The loop stops early: it never waits for more answers once the result is settled.
NeverWaitsInVain ==
  \A r \in Request : req[r].pc = "collecting" =>
    /\ Len(req[r].responses) < req[r].snapshot.threshold
    /\ Len(req[r].responses) + Cardinality(req[r].pending) >= req[r].snapshot.threshold

=============================================================================
