----------------------- MODULE CommitteeServiceProofs -----------------------
(***************************************************************************)
(* TLAPS proofs about the aggregator in front of a committee's servers,    *)
(* for committees of any size and threshold, any number of rotations,      *)
(* requests and key ids, and members that may answer anything: what it     *)
(* returns recovers the full keys, it gives up only when it has to, and it *)
(* does not wait for answers that cannot matter.                           *)
(***************************************************************************)
EXTENDS CommitteeService, FiniteSetTheorems, TLAPS

-----------------------------------------------------------------------------
IsSeq(s) == s \in Seq({s[k] : k \in DOMAIN s})

\* A request is a record with these fields.
RequestShape(q) ==
  q = [pc |-> q.pc, expected |-> q.expected, snapshot |-> q.snapshot, pending |-> q.pending,
       responses |-> q.responses, errors |-> q.errors, outcome |-> q.outcome]

\* What a request that fanned out to committee v has: every member either has not answered,
\* or its good answer is among the responses, or it failed.
Collected(q, v) ==
  /\ RequestShape(q)
  /\ q.snapshot = extract_committee_info(v)
  /\ q.pending \subseteq Parties(v)
  /\ IsSeq(q.responses) /\ IsSeq(q.errors)
  /\ Cardinality(q.pending) + Len(q.responses) + Len(q.errors) = Size[v]
  /\ \A k \in 1..Len(q.responses) :
       /\ q.responses[k].party \in Parties(v) \ q.pending
       /\ verify_decryption_keys(q.responses[k].keys, <<v, q.responses[k].party>>, q.expected)
  /\ \A j, k \in 1..Len(q.responses) : q.responses[j].party = q.responses[k].party => j = k

Stops(q) == StopsCollecting(q.snapshot.threshold, Len(q.responses), Cardinality(q.pending))

Collecting(q, v) == Collected(q, v) /\ q.pc = "collecting" /\ ~Stops(q)

Finished(q, v) ==
  /\ Collected(q, v) /\ q.pc = "done" /\ Stops(q)
  /\ q.outcome \in Outcomes(q.snapshot.threshold, q.responses, q.errors)

Rejected(q) == RequestShape(q) /\ q.pc = "done" /\ q.outcome.kind = "rejected"

\* The versions that are or were on chain.
Past == {v \in Version : v <= chain}

RequestInv(q) ==
  \/ q = Idle
  \/ Rejected(q)
  \/ \E v \in Past : Collecting(q, v) \/ Finished(q, v)

\* The inductive invariant: the snapshot, and every request's, is one of the chain's.
ServiceInv ==
  /\ chain \in Version
  /\ \E v \in Past : committee = extract_committee_info(v)
  /\ DOMAIN req = Request
  /\ \A r \in Request : RequestInv(req[r])

-----------------------------------------------------------------------------
\* Pushing onto a vector.
LEMMA AppendSeq ==
  ASSUME NEW s, NEW e, IsSeq(s)
  PROVE  /\ Len(s) \in Nat /\ DOMAIN s = 1..Len(s)
         /\ IsSeq(Append(s, e))
         /\ Len(Append(s, e)) = Len(s) + 1
         /\ \A k \in 1..Len(s) : Append(s, e)[k] = s[k]
         /\ Append(s, e)[Len(s) + 1] = e
<1> DEFINE T == {s[k] : k \in DOMAIN s} \cup {e}
<1>1. s \in Seq(T)
  BY DEF IsSeq
<1>2. e \in T
  OBVIOUS
<1> HIDE DEF T
<1>3. /\ Append(s, e) \in Seq(T)
      /\ Len(s) \in Nat /\ DOMAIN s = 1..Len(s)
      /\ Len(Append(s, e)) = Len(s) + 1
      /\ \A k \in 1..Len(s) : Append(s, e)[k] = s[k]
      /\ Append(s, e)[Len(s) + 1] = e
  BY <1>1, <1>2
<1> DEFINE a == Append(s, e)
<1>4. a \in Seq(T)
  BY <1>3
<1> HIDE DEF a
<1>5. Len(a) \in Nat /\ DOMAIN a = 1..Len(a) /\ a \in [1..Len(a) -> T]
  BY <1>4
<1>6. a \in [1..Len(a) -> {a[k] : k \in DOMAIN a}]
  BY <1>5
<1>7. a \in Seq({a[k] : k \in DOMAIN a})
  BY <1>5, <1>6
<1> QED BY <1>3, <1>7 DEF IsSeq, a

LEMMA EmptyIsSeq == IsSeq(<<>>) /\ Len(<<>>) = 0
  BY DEF IsSeq

LEMMA RangeImage ==
  ASSUME NEW s, NEW T, {s[j].id : j \in DOMAIN s} = T
  PROVE  {key.id : key \in Range(s)} = T
BY DEF Range

LEMMA TooFew ==
  ASSUME NEW n \in Nat, NEW size \in Nat, NEW got \in Nat, NEW failed \in Nat, NEW left \in Nat,
         left + got + failed = size, got < n, got >= n \/ got + left < n \/ left = 0
  PROVE  size - failed < n
OBVIOUS

\* A committee has finitely many parties, and its threshold is in reach.
LEMMA CommitteeSize ==
  ASSUME NEW v \in Version
  PROVE  /\ IsFiniteSet(Parties(v)) /\ Cardinality(Parties(v)) = Size[v]
         /\ Size[v] \in Nat /\ Threshold[v] \in Nat
         /\ Threshold[v] >= 1 /\ Threshold[v] <= Size[v]
<1>1. Size[v] \in Nat /\ Threshold[v] \in 1..Size[v]
  BY Committees
<1> DEFINE last == Size[v] - 1
<1>2. last \in Int /\ last + 1 = Size[v]
  BY <1>1
<1> HIDE DEF last
<1>3. /\ IsFiniteSet(0..last)
      /\ Cardinality(0..last) = IF 0 > last THEN 0 ELSE last - 0 + 1
  BY <1>2, FS_Interval
<1>4. Cardinality(0..last) = last + 1
  BY <1>1, <1>2, <1>3
<1> QED BY <1>1, <1>2, <1>3, <1>4 DEF Parties, last

\* Threshold and members of a snapshot.
LEMMA SnapshotFields ==
  ASSUME NEW v
  PROVE  /\ extract_committee_info(v).threshold = Threshold[v]
         /\ DOMAIN extract_committee_info(v).members = Parties(v)
         /\ \A i \in Parties(v) : extract_committee_info(v).members[i] = <<v, i>>
  BY DEF extract_committee_info

-----------------------------------------------------------------------------
\* A result that counts as a response has been verified against the member's partial key.
LEMMA GoodIsVerified ==
  ASSUME NEW pk, NEW answer, NEW expected,
         fetch_from_member(pk, answer, expected).kind = "keys"
  PROVE  verify_decryption_keys(fetch_from_member(pk, answer, expected).keys, pk, expected)
<1>1. Failure.kind # "keys"
  BY DEF Failure
<1>2. CASE pk \in NoCredentials
  BY <1>1, <1>2 DEF fetch_from_member
<1>3. CASE pk \notin NoCredentials /\ answer.kind = "error"
  BY <1>3 DEF fetch_from_member
<1>4. CASE pk \notin NoCredentials /\ answer.kind # "error"
  <2>1. fetch_from_member(pk, answer, expected)
          = IF answer.version_ok /\ verify_decryption_keys(answer.keys, pk, expected)
            THEN answer ELSE Failure
    BY <1>4, Zenon DEF fetch_from_member
  <2> QED BY <1>1, <2>1
<1> QED BY <1>2, <1>3, <1>4, Zenon

\* What Received changes.
LEMMA ReceivedFields ==
  ASSUME NEW q, RequestShape(q), NEW i, NEW result
  PROVE  LET p == Received(q, i, result)
         IN  /\ RequestShape(p)
             /\ p.pc = q.pc /\ p.expected = q.expected /\ p.snapshot = q.snapshot
             /\ p.pending = q.pending \ {i}
             /\ result.kind = "keys" =>
                  /\ p.responses = Append(q.responses, [party |-> i, keys |-> result.keys])
                  /\ p.errors = q.errors
             /\ result.kind # "keys" =>
                  p.responses = q.responses /\ p.errors = Append(q.errors, result.error)
<1> DEFINE r1 == Append(q.responses, [party |-> i, keys |-> result.keys])
           e1 == Append(q.errors, result.error)
           d1 == q.pending \ {i}
<1>1. CASE result.kind = "keys"
  <2>1. Received(q, i, result)
          = [pc |-> q.pc, expected |-> q.expected, snapshot |-> q.snapshot, pending |-> d1,
             responses |-> r1, errors |-> q.errors, outcome |-> q.outcome]
    <3> HIDE DEF r1, d1
    <3>1. Received(q, i, result) = [q EXCEPT !.pending = d1, !.responses = r1]
      BY <1>1 DEF Received, r1, d1
    <3> QED BY <3>1, ZenonT(30) DEF RequestShape
  <2> HIDE DEF r1, d1
  <2>2. RequestShape(Received(q, i, result))
    BY <2>1 DEF RequestShape
  <2> QED BY <1>1, <2>1, <2>2 DEF r1, d1
<1>2. CASE result.kind # "keys"
  <2>1. Received(q, i, result)
          = [pc |-> q.pc, expected |-> q.expected, snapshot |-> q.snapshot, pending |-> d1,
             responses |-> q.responses, errors |-> e1, outcome |-> q.outcome]
    <3> HIDE DEF e1, d1
    <3>1. Received(q, i, result) = [q EXCEPT !.pending = d1, !.errors = e1]
      BY <1>2 DEF Received, e1, d1
    <3> QED BY <3>1, ZenonT(30) DEF RequestShape
  <2> HIDE DEF e1, d1
  <2>2. RequestShape(Received(q, i, result))
    BY <2>1 DEF RequestShape
  <2> QED BY <1>2, <2>1, <2>2 DEF e1, d1
<1> QED BY <1>1, <1>2

\* A fetch moves one member from pending to the responses, verified, or to the errors.
LEMMA ReceivedCollected ==
  ASSUME NEW v \in Version, NEW q, Collected(q, v), NEW i \in q.pending, NEW answer
  PROVE  LET p == Received(q, i, fetch_from_member(<<v, i>>, answer, q.expected))
         IN  Collected(p, v) /\ p.pc = q.pc
<1> DEFINE result == fetch_from_member(<<v, i>>, answer, q.expected)
           p == Received(q, i, result)
           new == [party |-> i, keys |-> result.keys]
<1>0. new.party = i /\ new.keys = result.keys
  OBVIOUS
<1>1. result.kind = "keys" => verify_decryption_keys(result.keys, <<v, i>>, q.expected)
  BY GoodIsVerified, Zenon
<1> HIDE DEF result
<1>2. /\ RequestShape(p) /\ p.pc = q.pc
      /\ p.expected = q.expected /\ p.snapshot = q.snapshot /\ p.pending = q.pending \ {i}
      /\ result.kind = "keys" => p.responses = Append(q.responses, new) /\ p.errors = q.errors
      /\ result.kind # "keys" =>
           p.responses = q.responses /\ p.errors = Append(q.errors, result.error)
  BY ReceivedFields DEF Collected
<1> HIDE DEF p, new
<1>3. /\ IsFiniteSet(q.pending) /\ Cardinality(q.pending) \in Nat
      /\ i \in Parties(v) /\ p.pending \subseteq Parties(v)
      /\ Cardinality(p.pending) = Cardinality(q.pending) - 1
  <2>1. q.pending \subseteq Parties(v)
    BY DEF Collected
  <2>2. IsFiniteSet(q.pending)
    BY <2>1, CommitteeSize, FS_Subset, Zenon
  <2>3. Cardinality(q.pending) \in Nat
    BY <2>2, FS_CardinalityType
  <2>4. Cardinality(q.pending \ {i}) = Cardinality(q.pending) - 1
    BY <2>2, FS_RemoveElement, ZenonT(30)
  <2> QED BY <1>2, <2>1, <2>2, <2>3, <2>4, ZenonT(30)
<1>4. /\ Len(q.responses) \in Nat /\ Len(q.errors) \in Nat
      /\ IsSeq(Append(q.responses, new)) /\ IsSeq(Append(q.errors, result.error))
      /\ Len(Append(q.responses, new)) = Len(q.responses) + 1
      /\ Len(Append(q.errors, result.error)) = Len(q.errors) + 1
  BY AppendSeq DEF Collected
<1>5. /\ \A k \in 1..Len(q.responses) : Append(q.responses, new)[k] = q.responses[k]
      /\ Append(q.responses, new)[Len(q.responses) + 1] = new
  BY AppendSeq DEF Collected
<1>6. IsSeq(p.responses) /\ IsSeq(p.errors)
  BY <1>2, <1>4, ZenonT(30) DEF Collected
<1>7. Cardinality(p.pending) + Len(p.responses) + Len(p.errors) = Size[v]
  <2>1. Cardinality(q.pending) + Len(q.responses) + Len(q.errors) = Size[v]
    BY DEF Collected
  <2>2. \/ Len(p.responses) = Len(q.responses) + 1 /\ Len(p.errors) = Len(q.errors)
        \/ Len(p.responses) = Len(q.responses) /\ Len(p.errors) = Len(q.errors) + 1
    BY <1>2, <1>4, Zenon
  <2>3. ASSUME NEW a \in Nat, NEW b \in Nat, NEW c \in Nat, NEW d, a + b + c = d,
               NEW b1, NEW c1, (b1 = b + 1 /\ c1 = c) \/ (b1 = b /\ c1 = c + 1)
        PROVE  (a - 1) + b1 + c1 = d
    BY <2>3
  <2> HIDE DEF p, result
  <2>4. (Cardinality(q.pending) - 1) + Len(p.responses) + Len(p.errors) = Size[v]
    BY <1>3, <1>4, <2>1, <2>2, <2>3
  <2> QED BY <1>3, <2>4, Zenon
<1>8. \A k \in 1..Len(q.responses) :
        /\ q.responses[k].party \in Parties(v) \ q.pending
        /\ verify_decryption_keys(q.responses[k].keys, <<v, q.responses[k].party>>, p.expected)
  BY <1>2 DEF Collected
<1>9. \A j, k \in 1..Len(q.responses) : q.responses[j].party = q.responses[k].party => j = k
  BY DEF Collected
<1>10. /\ \A k \in 1..Len(p.responses) :
            /\ p.responses[k].party \in Parties(v) \ p.pending
            /\ verify_decryption_keys(p.responses[k].keys, <<v, p.responses[k].party>>, p.expected)
       /\ \A j, k \in 1..Len(p.responses) : p.responses[j].party = p.responses[k].party => j = k
  <2>1. CASE result.kind # "keys"
    BY <1>2, <1>8, <1>9, <2>1, Zenon
  <2>2. CASE result.kind = "keys"
    <3> DEFINE n == Len(q.responses)
               P(k) == p.responses[k].party
    <3>1. n \in Nat /\ Len(p.responses) = n + 1
      BY <1>2, <1>4, <2>2, Zenon
    <3>2. \A k \in 1..n : p.responses[k] = q.responses[k]
      BY <1>2, <1>5, <2>2
    <3>3. P(n + 1) = i /\ p.responses[n + 1].keys = result.keys
      BY <1>0, <1>2, <1>5, <2>2, ZenonT(30)
    <3>4. \A k \in 1..n : P(k) \in Parties(v) \ q.pending /\ P(k) # i
      BY <1>8, <3>2, ZenonT(30)
    <3>5. \A k \in 1..n : verify_decryption_keys(p.responses[k].keys, <<v, P(k)>>, p.expected)
      BY <1>8, <3>2, Zenon
    <3>6. verify_decryption_keys(p.responses[n + 1].keys, <<v, P(n + 1)>>, p.expected)
      BY <1>1, <1>2, <2>2, <3>3, ZenonT(30)
    <3>7. P(n + 1) \in Parties(v) \ p.pending
      BY <1>2, <1>3, <3>3, Zenon
    <3>8. \A k \in 1..Len(p.responses) : k \in 1..n \/ k = n + 1
      BY <3>1
    <3>9. \A j, k \in 1..n : P(j) = P(k) => j = k
      BY <1>9, <3>2, Zenon
    <3> HIDE DEF n, P
    <3>10. \A k \in 1..Len(p.responses) :
             /\ P(k) \in Parties(v) \ p.pending
             /\ verify_decryption_keys(p.responses[k].keys, <<v, P(k)>>, p.expected)
      BY <1>2, <3>4, <3>5, <3>6, <3>7, <3>8, ZenonT(30)
    <3>11. \A j, k \in 1..Len(p.responses) : P(j) = P(k) => j = k
      BY <3>3, <3>4, <3>8, <3>9, ZenonT(30)
    <3> QED BY <3>10, <3>11, Zenon DEF P
  <2> QED BY <2>1, <2>2, Zenon
<1>11. p.snapshot = extract_committee_info(v)
  BY <1>2, Zenon DEF Collected
<1>12. Collected(p, v)
  BY <1>2, <1>3, <1>6, <1>7, <1>10, <1>11, ZenonT(30) DEF Collected
<1> QED BY <1>2, <1>12 DEF p, result

\* The same with the partial key looked up in the request's snapshot.
LEMMA ResultCollected ==
  ASSUME NEW v \in Version, NEW q, Collecting(q, v), NEW i \in q.pending, NEW answer, NEW p,
         p = Received(q, i, fetch_from_member(q.snapshot.members[i], answer, q.expected))
  PROVE  Collected(p, v) /\ p.pc = "collecting"
<1>1. Collected(q, v) /\ q.pc = "collecting"
  BY DEF Collecting
<1>2. q.snapshot.members[i] = <<v, i>>
  BY <1>1, SnapshotFields, Zenon DEF Collected
<1>3. p = Received(q, i, fetch_from_member(<<v, i>>, answer, q.expected))
  BY <1>2
<1> QED BY <1>1, <1>3, ReceivedCollected

-----------------------------------------------------------------------------
\* The shares pushed for an id from verified responses: one for each response, namely the
\* partial key of its party.
LEMMA OneShareEach ==
  ASSUME NEW v \in Version, NEW q, Collected(q, v), NEW id \in q.expected
  PROVE  LET n == Len(q.responses)
             S == SharesOf(id, q.responses)
         IN  /\ IsFiniteSet(S) /\ Cardinality(S) <= n
             /\ {s.share : s \in S} = {<<v, q.responses[k].party>> : k \in 1..n}
<1> DEFINE n == Len(q.responses)
           K(k) == q.responses[k].keys
           P(k) == q.responses[k].party
           At(k) == {j \in DOMAIN K(k) : K(k)[j].id = id}
           E(k, j) == [response |-> k, place |-> j, party |-> P(k), share |-> K(k)[j].share]
           S == SharesOf(id, q.responses)
<1>1. n \in Nat /\ DOMAIN q.responses = 1..n
  BY AppendSeq DEF Collected
<1>2. S = UNION {{E(k, j) : j \in At(k)} : k \in 1..n}
  BY <1>1, Zenon DEF SharesOf
<1>3. \A k \in 1..n : verify_decryption_keys(K(k), <<v, P(k)>>, q.expected)
  BY Zenon DEF Collected
<1>4. \A k \in 1..n : \E j \in At(k) : TRUE
  BY <1>3 DEF verify_decryption_keys
<1>5. \A k \in 1..n : \A j1, j2 \in At(k) : j1 = j2
  BY <1>3, ZenonT(30) DEF verify_decryption_keys
<1>6. \A k \in 1..n : \A j \in At(k) : K(k)[j].share = <<v, P(k)>>
  BY <1>3, Zenon DEF verify_decryption_keys
<1>7. \A k \in 1..n : \A j \in At(k) : E(k, j).share = <<v, P(k)>>
  BY <1>6
<1> HIDE DEF n, K, P, At, E, S
<1> DEFINE f == [k \in 1..n |-> E(k, CHOOSE j \in At(k) : TRUE)]
<1>8. \A k \in 1..n : (CHOOSE j \in At(k) : TRUE) \in At(k)
  BY <1>4
<1>9. f \in Surjection(1..n, S)
  <2>1. f \in [1..n -> S]
    <3>1. ASSUME NEW k \in 1..n PROVE E(k, CHOOSE j \in At(k) : TRUE) \in S
      <4> DEFINE c == CHOOSE j \in At(k) : TRUE
      <4>1. c \in At(k)
        BY <1>8
      <4> HIDE DEF c
      <4>2. E(k, c) \in S
        BY <1>2, <4>1
      <4> QED BY <4>2 DEF c
    <3> QED BY <3>1
  <2>2. ASSUME NEW s \in S PROVE \E k \in 1..n : f[k] = s
    <3>1. PICK k \in 1..n : \E j \in At(k) : s = E(k, j)
      BY <1>2
    <3>2. PICK j \in At(k) : s = E(k, j)
      BY <3>1
    <3>3. j = CHOOSE jj \in At(k) : TRUE
      BY <1>5, <1>8, Zenon
    <3> QED BY <3>2, <3>3, ZenonT(30)
  <2> QED BY <2>1, <2>2, ZenonT(30) DEF Surjection
<1>10. IsFiniteSet(1..n) /\ Cardinality(1..n) = n
  BY <1>1, FS_Interval
<1>11. IsFiniteSet(S) /\ Cardinality(S) <= n
  <2> HIDE DEF f
  <2> QED BY <1>9, <1>10, FS_Surjection
<1>12. {s.share : s \in S} = {<<v, P(k)>> : k \in 1..n}
  <2>1. ASSUME NEW s \in S PROVE \E k \in 1..n : s.share = <<v, P(k)>>
    BY <1>2, <1>7, Zenon
  <2>2. ASSUME NEW k \in 1..n PROVE \E s \in S : s.share = <<v, P(k)>>
    BY <1>2, <1>4, <1>7
  <2> QED BY <2>1, <2>2, Zenon
<1> QED BY <1>11, <1>12, Zenon DEF n, S, P

\* So the first n shares are all there are, and what is combined are as many partial keys of
\* one version as there are responses.
LEMMA CombinesAll ==
  ASSUME NEW v \in Version, NEW q, Collected(q, v), NEW id \in q.expected,
         Len(q.responses) = Threshold[v],
         aggregate_encrypted(Threshold[v], SharesOf(id, q.responses)) # None
  PROVE  /\ aggregate_encrypted(Threshold[v], SharesOf(id, q.responses))
              \subseteq {<<v, i>> : i \in Parties(v)}
         /\ Cardinality(aggregate_encrypted(Threshold[v], SharesOf(id, q.responses)))
              = Threshold[v]
<1> DEFINE n == Threshold[v]
           S == SharesOf(id, q.responses)
           P(k) == q.responses[k].party
           g == [k \in 1..n |-> <<v, P(k)>>]
           C == {<<v, P(k)>> : k \in 1..n}
<1>1. n \in Nat
  BY CommitteeSize
<1>2. /\ IsFiniteSet(S) /\ Cardinality(S) <= n
      /\ {s.share : s \in S} = C
  BY OneShareEach
<1>3. /\ \A k \in 1..n : P(k) \in Parties(v)
      /\ \A j, k \in 1..n : P(j) = P(k) => j = k
  BY ZenonT(30) DEF Collected
<1> HIDE DEF n, S, P
<1>4. First(n, S) = S
  <2>1. ASSUME NEW s \in S PROVE Cardinality(UpTo(s, S)) <= n
    <3>1. UpTo(s, S) \in SUBSET S
      BY DEF UpTo
    <3>2. IsFiniteSet(UpTo(s, S)) /\ Cardinality(UpTo(s, S)) <= Cardinality(S)
      BY <1>2, <3>1, FS_Subset, Zenon
    <3>3. Cardinality(UpTo(s, S)) \in Nat /\ Cardinality(S) \in Nat
      BY <1>2, <3>2, FS_CardinalityType, Zenon
    <3> QED BY <1>1, <1>2, <3>2, <3>3
  <2> QED BY <2>1 DEF First
<1>5. aggregate_encrypted(n, S) = C
  <2>1. aggregate_encrypted(n, S) # None
    BY DEF n, S
  <2>2. aggregate_encrypted(n, S) = {s.share : s \in First(n, S)}
    BY <2>1 DEF aggregate_encrypted
  <2> QED BY <1>2, <1>4, <2>2, Zenon
<1>6. C \subseteq {<<v, i>> : i \in Parties(v)}
  BY <1>3
<1>7. g \in Surjection(1..n, C)
  BY DEF Surjection
<1>8. g \in Injection(1..n, C)
  <2>1. g \in [1..n -> C]
    OBVIOUS
  <2>2. \A j, k \in 1..n : g[j] = g[k] => j = k
    BY <1>3
  <2> QED BY <2>1, <2>2, Zenon DEF Injection, IsInjective
<1>9. IsFiniteSet(1..n) /\ Cardinality(1..n) = n
  BY <1>1, FS_Interval
<1>10. Cardinality(C) = n
  <2> HIDE DEF g, C
  <2> QED BY <1>7, <1>8, <1>9, FS_Surjection, ZenonT(30)
<1> QED BY <1>5, <1>6, <1>10, ZenonT(30) DEF n, S

\* What a successful outcome holds: for each id asked for a combination that recovers its key.
LEMMA OutcomeRecovers ==
  ASSUME NEW v \in Version, chain \in Version, v <= chain, NEW q, Collected(q, v),
         NEW o \in Outcomes(q.snapshot.threshold, q.responses, q.errors), o.kind = "ok"
  PROVE  DOMAIN o.keys = q.expected /\ \A id \in q.expected : Recovers(o.keys[id])
<1> DEFINE n == Threshold[v]
           resp == q.responses
           parts == aggregate_verified_encrypted_responses(n, resp)
           agg(id) == aggregate_encrypted(n, SharesOf(id, resp))
           ids == UNION {{key.id : key \in Range(resp[k].keys)} : k \in DOMAIN resp}
<1>1. q.snapshot.threshold = n
  BY SnapshotFields DEF Collected
<1>2. o.keys = parts /\ parts # None
  <2> HIDE DEF parts, resp, n
  <2>1. \A e : [kind |-> "insufficient", error |-> e, keys |-> None].kind # "ok"
    OBVIOUS
  <2>2. [kind |-> "aggregation_failed", error |-> "Failure", keys |-> None].kind # "ok"
    OBVIOUS
  <2>3. ~(Len(resp) < n)
    <3> SUFFICES ASSUME Len(resp) < n PROVE FALSE
      OBVIOUS
    <3>1. o \in {[kind |-> "insufficient", error |-> e, keys |-> None] :
                   e \in handle_insufficient_responses(q.errors)}
      BY <1>1 DEF Outcomes, resp
    <3> QED BY <2>1, <3>1, Zenon
  <2>4. o \in IF parts = None
              THEN {[kind |-> "aggregation_failed", error |-> "Failure", keys |-> None]}
              ELSE {[kind |-> "ok", error |-> None, keys |-> parts]}
    BY <1>1, <2>3, Zenon DEF Outcomes, parts, resp
  <2> QED BY <2>2, <2>4
<1>3. Len(resp) = n /\ parts = [id \in ids |-> agg(id)] /\ \A id \in ids : agg(id) # None
  <2> DEFINE table == [id \in ids |-> agg(id)]
  <2>1. parts = IF Len(resp) # n \/ \E id \in ids : table[id] = None THEN None ELSE table
    BY DEF aggregate_verified_encrypted_responses
  <2>2. \A id \in ids : table[id] = agg(id)
    OBVIOUS
  <2> HIDE DEF parts, table, ids, agg
  <2>3. Len(resp) = n /\ parts = table /\ \A id \in ids : agg(id) # None
    BY <1>2, <2>1, <2>2, Zenon
  <2> QED BY <2>3, Zenon DEF table
<1>4. ids = q.expected
  <2>1. n \in Nat /\ n >= 1 /\ DOMAIN resp = 1..n
    BY <1>3, CommitteeSize, AppendSeq, Zenon DEF Collected
  <2>2. \A k \in 1..n : {key.id : key \in Range(resp[k].keys)} = q.expected
    <3>1. ASSUME NEW k \in 1..n
          PROVE  {resp[k].keys[j].id : j \in DOMAIN resp[k].keys} = q.expected
      BY <1>3 DEF Collected, verify_decryption_keys
    <3> HIDE DEF resp
    <3> QED BY <3>1, RangeImage, ZenonT(30)
  <2>3. 1 \in 1..n
    BY <2>1
  <2> HIDE DEF resp, n
  <2>4. ids \subseteq q.expected
    BY <2>1, <2>2, ZenonT(30)
  <2>5. q.expected \subseteq ids
    BY <2>1, <2>2, <2>3, ZenonT(30)
  <2> QED BY <2>4, <2>5, Zenon
<1> HIDE DEF ids
<1>5. \A id \in q.expected :
        agg(id) \subseteq {<<v, i>> : i \in Parties(v)} /\ Cardinality(agg(id)) = n
  BY <1>3, <1>4, CombinesAll, ZenonT(30)
<1> HIDE DEF agg, parts
<1>6. \A id \in q.expected : o.keys[id] = agg(id)
  BY <1>2, <1>3, <1>4, ZenonT(30)
<1>7. \A id \in q.expected : Recovers(o.keys[id])
  BY <1>5, <1>6, Zenon DEF Recovers
<1>8. DOMAIN o.keys = q.expected
  BY <1>2, <1>3, <1>4, ZenonT(30)
<1> QED BY <1>7, <1>8, Zenon

-----------------------------------------------------------------------------
\* The end of a request leaves what it collected.
LEMMA EndFields ==
  ASSUME NEW q, RequestShape(q), NEW o
  PROVE  LET p == [q EXCEPT !.pc = "done", !.outcome = o]
         IN  /\ RequestShape(p) /\ p.pc = "done" /\ p.outcome = o
             /\ p.expected = q.expected /\ p.snapshot = q.snapshot /\ p.pending = q.pending
             /\ p.responses = q.responses /\ p.errors = q.errors
<1> DEFINE p == [q EXCEPT !.pc = "done", !.outcome = o]
<1>1. p = [pc |-> "done", expected |-> q.expected, snapshot |-> q.snapshot,
           pending |-> q.pending, responses |-> q.responses, errors |-> q.errors, outcome |-> o]
  <2>1. p = [q EXCEPT !.pc = "done", !.outcome = o]
    OBVIOUS
  <2> HIDE DEF p
  <2> QED BY <2>1, ZenonT(40) DEF RequestShape
<1> HIDE DEF p
<1>2. RequestShape(p)
  BY <1>1 DEF RequestShape
<1>3. /\ p.pc = "done" /\ p.outcome = o
      /\ p.expected = q.expected /\ p.snapshot = q.snapshot /\ p.pending = q.pending
      /\ p.responses = q.responses /\ p.errors = q.errors
  BY <1>1
<1> QED BY <1>2, <1>3 DEF p

LEMMA EndFinishes ==
  ASSUME NEW v, NEW q, Collected(q, v), Stops(q),
         NEW o \in Outcomes(q.snapshot.threshold, q.responses, q.errors)
  PROVE  Finished([q EXCEPT !.pc = "done", !.outcome = o], v)
<1> DEFINE p == [q EXCEPT !.pc = "done", !.outcome = o]
<1>1. /\ RequestShape(p) /\ p.pc = "done" /\ p.outcome = o
      /\ p.expected = q.expected /\ p.snapshot = q.snapshot /\ p.pending = q.pending
      /\ p.responses = q.responses /\ p.errors = q.errors
  BY EndFields, ZenonT(30) DEF Collected
<1> HIDE DEF p
<1>2. Collected(p, v)
  BY <1>1, Zenon DEF Collected
<1>3. Stops(p) /\ p.outcome \in Outcomes(p.snapshot.threshold, p.responses, p.errors)
  BY <1>1 DEF Stops
<1>4. Finished(p, v)
  BY <1>1, <1>2, <1>3, ZenonT(30) DEF Finished
<1> QED BY <1>4 DEF p

\* A request that fans out waits for all members, of which there are enough.
LEMMA FansOut ==
  ASSUME NEW v \in Version, NEW expected, committee = extract_committee_info(v)
  PROVE  Collecting([Idle EXCEPT !.pc = "collecting", !.expected = expected,
                       !.snapshot = committee, !.pending = DOMAIN committee.members], v)
<1> DEFINE p == [Idle EXCEPT !.pc = "collecting", !.expected = expected,
                   !.snapshot = committee, !.pending = DOMAIN committee.members]
           all == DOMAIN committee.members
<1>1. p = [pc |-> "collecting", expected |-> expected, snapshot |-> committee, pending |-> all,
           responses |-> <<>>, errors |-> <<>>, outcome |-> None]
  <2> HIDE DEF all
  <2>1. p = [Idle EXCEPT !.pc = "collecting", !.expected = expected,
               !.snapshot = committee, !.pending = all]
    BY DEF all
  <2> HIDE DEF p
  <2> QED BY <2>1, ZenonT(30) DEF Idle
<1>2. all = Parties(v) /\ committee.threshold = Threshold[v]
  BY SnapshotFields, Zenon
<1> HIDE DEF p, all
<1>3. /\ p.pc = "collecting" /\ p.expected = expected /\ p.snapshot = committee
      /\ p.pending = Parties(v) /\ p.responses = <<>> /\ p.errors = <<>>
  BY <1>1, <1>2, Zenon
<1>4. RequestShape(p)
  BY <1>1 DEF RequestShape
<1>5. /\ Len(p.responses) = 0 /\ Len(p.errors) = 0 /\ IsSeq(p.responses) /\ IsSeq(p.errors)
  BY <1>3, EmptyIsSeq, Zenon
<1>6. /\ Cardinality(p.pending) = Size[v] /\ Size[v] \in Nat /\ Threshold[v] \in Nat
      /\ Threshold[v] >= 1 /\ Threshold[v] <= Size[v]
  BY <1>3, CommitteeSize, ZenonT(30)
<1>7. Cardinality(p.pending) + Len(p.responses) + Len(p.errors) = Size[v]
  BY <1>5, <1>6
<1>8. 1..Len(p.responses) = {}
  BY <1>5
<1>9. Collected(p, v)
  BY <1>3, <1>4, <1>5, <1>7, <1>8, ZenonT(30) DEF Collected
<1>10. ~Stops(p)
  <2>1. p.snapshot.threshold = Threshold[v]
    BY <1>2, <1>3, Zenon
  <2> QED BY <1>5, <1>6, <2>1 DEF Stops, StopsCollecting
<1>11. Collecting(p, v)
  BY <1>3, <1>9, <1>10, ZenonT(30) DEF Collecting
<1> QED BY <1>11 DEF p

-----------------------------------------------------------------------------
LEMMA InitEstablishes == ServiceInit => ServiceInv
<1> SUFFICES ASSUME ServiceInit PROVE ServiceInv
  OBVIOUS
<1>1. chain = 0 /\ 0 \in Version /\ chain \in Version /\ 0 \in Past
  BY Committees DEF ServiceInit, Init, Version, Past
<1> QED BY <1>1 DEF ServiceInit, Init, ServiceInv, RequestInv

\* The chain only grows, so a request's version stays one of the chain's.
LEMMA PastStays ==
  ASSUME chain \in Version, chain' \in Version, chain <= chain'
  PROVE  /\ Past \subseteq Past'
         /\ \A q : RequestInv(q) => \/ q = Idle \/ Rejected(q)
                                    \/ \E v \in Past' : Collecting(q, v) \/ Finished(q, v)
<1>1. Past \subseteq Past'
  BY Committees DEF Past, Version
<1> QED BY <1>1, Zenon DEF RequestInv

\* A step that changes one request.
LEMMA OneRequest ==
  ASSUME ServiceInv, NEW r \in Request, NEW q,
         req' = [req EXCEPT ![r] = q], UNCHANGED <<chain, committee>>,
         RequestInv(q)
  PROVE  ServiceInv'
<1>1. DOMAIN req' = Request /\ req'[r] = q /\ \A s \in Request : s # r => req'[s] = req[s]
  BY DEF ServiceInv
<1>2. Past' = Past /\ chain' = chain /\ committee' = committee
  BY DEF Past
<1>3. \A s \in Request : RequestInv(req'[s])
  BY <1>1, Zenon DEF ServiceInv
<1>4. \A s \in Request : \/ req'[s] = Idle \/ Rejected(req'[s])
                         \/ \E v \in Past' : Collecting(req'[s], v) \/ Finished(req'[s], v)
  BY <1>2, <1>3, ZenonT(30) DEF RequestInv
<1>5. \A s \in Request : RequestInv(req[s])'
  BY <1>4 DEF RequestInv
<1> QED BY <1>1, <1>2, <1>5, ZenonT(30) DEF ServiceInv

LEMMA AsksPreserves ==
  ASSUME ServiceInv, NEW r \in Request, NEW expected, handle_fetch_key(r, expected)
  PROVE  ServiceInv'
<1> DEFINE none == [Idle EXCEPT !.pc = "done",
                      !.outcome = [kind |-> "rejected", error |-> "InvalidPTB", keys |-> None]]
           some == [Idle EXCEPT !.pc = "collecting", !.expected = expected,
                      !.snapshot = committee, !.pending = DOMAIN committee.members]
<1>1. req' = [req EXCEPT ![r] = IF expected = {} THEN none ELSE some]
      /\ UNCHANGED <<chain, committee>>
  BY DEF handle_fetch_key
<1>2. RequestInv(none)
  <2> DEFINE o == [kind |-> "rejected", error |-> "InvalidPTB", keys |-> None]
  <2>1. o.kind = "rejected"
    OBVIOUS
  <2>2. none = [Idle EXCEPT !.pc = "done", !.outcome = o]
    OBVIOUS
  <2> HIDE DEF none, o
  <2>3. none = [pc |-> "done", expected |-> {}, snapshot |-> None, pending |-> {},
                responses |-> <<>>, errors |-> <<>>, outcome |-> o]
    BY <2>2, ZenonT(30) DEF Idle
  <2>4. RequestShape(none) /\ none.pc = "done" /\ none.outcome = o
    BY <2>3 DEF RequestShape
  <2> QED BY <2>1, <2>4, Zenon DEF RequestInv, Rejected
<1>3. RequestInv(some)
  BY FansOut, ZenonT(30) DEF ServiceInv, RequestInv, Past
<1> HIDE DEF none, some
<1> QED BY <1>1, <1>2, <1>3, OneRequest, ZenonT(30)

\* One fetch completes.
LEMMA AnswerPreserves ==
  ASSUME ServiceInv, NEW r \in Request, NEW i, NEW answer, NextResult(r, i, answer)
  PROVE  ServiceInv'
<1> DEFINE q == req[r]
           p == Received(q, i, fetch_from_member(q.snapshot.members[i], answer, q.expected))
<1>0. /\ q.pc = "collecting" /\ i \in q.pending
      /\ UNCHANGED <<chain, committee>>
      /\ IF Stops(p)
         THEN \E o \in Outcomes(p.snapshot.threshold, p.responses, p.errors) :
                req' = [req EXCEPT ![r] = [p EXCEPT !.pc = "done", !.outcome = o]]
         ELSE req' = [req EXCEPT ![r] = p]
  BY ZenonT(40) DEF NextResult, Stops
<1> HIDE DEF p
<1>1. PICK v \in Past : Collecting(q, v)
  <2>1. Idle.pc # "collecting"
    BY DEF Idle
  <2> QED BY <1>0, <2>1, ZenonT(30) DEF ServiceInv, RequestInv, Rejected, Finished
<1>2. v \in Version
  BY <1>1 DEF Past
<1>3. p = Received(q, i, fetch_from_member(q.snapshot.members[i], answer, q.expected))
  BY DEF p
<1> HIDE DEF q
<1>4. Collected(p, v) /\ p.pc = "collecting"
  BY <1>0, <1>1, <1>2, <1>3, ResultCollected, ZenonT(30)
<1>5. CASE Stops(p)
  <2>1. PICK o \in Outcomes(p.snapshot.threshold, p.responses, p.errors) :
          req' = [req EXCEPT ![r] = [p EXCEPT !.pc = "done", !.outcome = o]]
    BY <1>0, <1>5, ZenonT(40)
  <2>2. RequestInv([p EXCEPT !.pc = "done", !.outcome = o])
    BY <1>4, <1>5, EndFinishes, ZenonT(30) DEF RequestInv
  <2> QED BY <1>0, <2>1, <2>2, OneRequest, ZenonT(40)
<1>6. CASE ~Stops(p)
  <2>1. RequestInv(p)
    BY <1>4, <1>6, ZenonT(30) DEF RequestInv, Collecting
  <2> QED BY <1>0, <1>6, <2>1, OneRequest, ZenonT(30)
<1> QED BY <1>5, <1>6, Zenon

\* The background refresh and a restart load a committee that is or was on chain.
LEMMA LoadPreserves ==
  ASSUME ServiceInv, NEW v \in Readable, committee' = extract_committee_info(v), chain' = chain,
         req' = req \/ req' = [s \in Request |-> Idle]
  PROVE  ServiceInv'
<1>1. Past' = Past /\ v \in Past'
  BY DEF Past, Readable
<1>2. chain' \in Version /\ \E w \in Past' : committee' = extract_committee_info(w)
  BY <1>1 DEF ServiceInv
<1>3. CASE req' = req
  <2>1. \A s \in Request : RequestInv(req[s])'
    BY <1>1, <1>3, Zenon DEF ServiceInv, RequestInv
  <2> QED BY <1>2, <1>3, <2>1, ZenonT(30) DEF ServiceInv
<1>4. CASE req' = [s \in Request |-> Idle]
  <2>1. DOMAIN req' = Request /\ \A s \in Request : RequestInv(req[s])'
    BY <1>4 DEF RequestInv
  <2> QED BY <1>2, <2>1, Zenon DEF ServiceInv
<1> QED BY <1>3, <1>4, ZenonT(30)

LEMMA RotatePreserves ==
  ASSUME ServiceInv, Rotate
  PROVE  ServiceInv'
<1>1. chain' \in Version /\ chain <= chain' /\ UNCHANGED <<committee, req>>
  BY Committees DEF ServiceInv, Rotate, Version, aggVars
<1>2. \E v \in Past' : committee' = extract_committee_info(v)
  BY <1>1, PastStays, ZenonT(30) DEF ServiceInv
<1>3. \A s \in Request : RequestInv(req[s])'
  BY <1>1, PastStays, ZenonT(30) DEF ServiceInv, RequestInv
<1> QED BY <1>1, <1>2, <1>3, ZenonT(30) DEF ServiceInv

LEMMA StepPreserves == ServiceInv /\ [ServiceNext]_serviceVars => ServiceInv'
<1> SUFFICES ASSUME ServiceInv, [ServiceNext]_serviceVars PROVE ServiceInv'
  OBVIOUS
<1>1. CASE UNCHANGED vars
  <2>1. chain' = chain /\ committee' = committee /\ req' = req /\ Past' = Past
    BY <1>1 DEF vars, aggVars, Past
  <2>2. \A s \in Request : RequestInv(req[s])'
    BY <2>1 DEF ServiceInv, RequestInv
  <2> QED BY <2>1, <2>2, Zenon DEF ServiceInv
<1>2. CASE Rotate
  BY <1>2, RotatePreserves, Zenon
<1>3. CASE Restarts
  <2>1. PICK v \in Version : Restart(v)
    BY <1>3 DEF Restarts
  <2> QED BY <2>1, LoadPreserves, Zenon DEF Restart
<1>4. CASE \E v \in Version : Refresh(v)
  <2>1. PICK v \in Version : monitor_members_update(v)
    BY <1>4, Zenon DEF Refresh
  <2> QED BY <2>1, LoadPreserves, Zenon DEF monitor_members_update
<1>5. CASE \E m \in Member :
             (\E v \in Version : StartMember(m, v)) \/ SwitchMember(m) \/ StopMember(m)
  BY <1>1, <1>5, Zenon DEF StartMember, SwitchMember, StopMember
<1>6. ASSUME NEW r \in Request, Asks(r) PROVE ServiceInv'
  BY <1>6, AsksPreserves, Zenon DEF Asks
<1>7. ASSUME NEW r \in Request, SomeMemberAnswers(r) \/ SomeFetchTimesOut(r) PROVE ServiceInv'
  BY <1>7, AnswerPreserves, Zenon DEF SomeMemberAnswers, MemberAnswers, SomeFetchTimesOut, FetchTimesOut
<1>8. ASSUME NEW r \in Request, Replies(r) PROVE ServiceInv'
  <2>1. RequestInv(Idle)
    BY DEF RequestInv
  <2> QED BY <1>8, <2>1, OneRequest, ZenonT(30) DEF Replies, Reply
<1>9. UNCHANGED serviceVars => UNCHANGED vars
  BY DEF serviceVars
<1> QED BY <1>1, <1>2, <1>3, <1>4, <1>5, <1>6, <1>7, <1>8, <1>9, ZenonT(30) DEF ServiceNext

\* Every request of the aggregator is accounted for: each member of its snapshot is pending,
\* among the verified responses or among the errors.
THEOREM ServiceInvariant == ServiceSpec => []ServiceInv
  BY InitEstablishes, StepPreserves, PTL DEF ServiceSpec

-----------------------------------------------------------------------------
\* What handle_fetch_key returns recovers the full keys of the ids asked for, for committees of
\* any size and threshold, although the committee may rotate and the snapshot be refreshed
\* while answers come in, and any member may answer anything.
THEOREM AggregatesRecover == ServiceSpec => []AggregateRecovers
<1>1. ServiceInv => AggregateRecovers
  <2> SUFFICES ASSUME ServiceInv, NEW r \in Request, Done(r, "ok")
               PROVE  /\ DOMAIN req[r].outcome.keys = req[r].expected
                      /\ \A id \in req[r].expected : Recovers(req[r].outcome.keys[id])
    BY DEF AggregateRecovers
  <2>1. Idle.pc # "done"
    BY Zenon DEF Idle
  <2>2. PICK v \in Past : Finished(req[r], v)
    BY <2>1 DEF ServiceInv, RequestInv, Done, Rejected, Collecting
  <2> QED BY <2>2, OutcomeRecovers, Zenon DEF Finished, Past, ServiceInv, Done
<1> QED BY <1>1, ServiceInvariant, PTL

\* The two ways the numbers can be when a request is given up.
LEMMA GivesUp ==
  ASSUME NEW v \in Version, NEW q, Finished(q, v), q.outcome.kind = "insufficient"
  PROVE  Cardinality(DOMAIN q.snapshot.members) - Len(q.errors) < q.snapshot.threshold
<1> DEFINE n == Threshold[v]
           got == Len(q.responses)
           failed == Len(q.errors)
           left == Cardinality(q.pending)
<1>1. /\ q.snapshot.threshold = n /\ DOMAIN q.snapshot.members = Parties(v)
      /\ Cardinality(DOMAIN q.snapshot.members) = Size[v] /\ n \in Nat /\ Size[v] \in Nat
  BY SnapshotFields, CommitteeSize, Zenon DEF Finished, Collected
<1>2. got \in Nat /\ failed \in Nat
  BY AppendSeq, Zenon DEF Finished, Collected
<1>3. left \in Nat
  <2>1. q.pending \in SUBSET Parties(v)
    BY DEF Finished, Collected
  <2>2. IsFiniteSet(q.pending)
    BY <2>1, CommitteeSize, FS_Subset, ZenonT(30)
  <2> QED BY <2>2, FS_CardinalityType, ZenonT(30)
<1>4. left + got + failed = Size[v]
  BY DEF Finished, Collected
<1>5. got >= n \/ got + left < n \/ left = 0
  BY <1>1 DEF Finished, Stops, StopsCollecting
<1>6. got < n
  <2> SUFFICES ASSUME ~(got < n) PROVE FALSE
    BY Zenon
  <2> DEFINE parts == aggregate_verified_encrypted_responses(n, q.responses)
  <2>1. q.outcome \in IF parts = None
              THEN {[kind |-> "aggregation_failed", error |-> "Failure", keys |-> None]}
              ELSE {[kind |-> "ok", error |-> None, keys |-> parts]}
    BY <1>1, Zenon DEF Finished, Outcomes
  <2> HIDE DEF parts
  <2> QED BY <2>1
<1> HIDE DEF n, got, failed, left
<1>7. Size[v] - failed < n
  BY <1>1, <1>2, <1>3, <1>4, <1>5, <1>6, TooFew, ZenonT(30)
<1> QED BY <1>1, <1>7, Zenon DEF failed

\* handle_fetch_key answers that there are too few responses only when so many members failed
\* that the others could not have reached the threshold.
THEOREM FailuresAreReal == ServiceSpec => []FailureIsReal
<1>1. ServiceInv => FailureIsReal
  <2> SUFFICES ASSUME ServiceInv, NEW r \in Request, Done(r, "insufficient")
               PROVE  Cardinality(DOMAIN req[r].snapshot.members) - Len(req[r].errors)
                        < req[r].snapshot.threshold
    BY DEF FailureIsReal
  <2>1. Idle.pc # "done"
    BY Zenon DEF Idle
  <2>2. PICK v \in Past : Finished(req[r], v)
    BY <2>1, Zenon DEF ServiceInv, RequestInv, Done, Rejected, Collecting
  <2> QED BY <2>2, GivesUp, ZenonT(30) DEF Past, Done
<1> QED BY <1>1, ServiceInvariant, PTL

\* The numbers while a request is collecting.
LEMMA WorthWaiting ==
  ASSUME NEW v \in Version, NEW q, Collecting(q, v)
  PROVE  /\ Len(q.responses) < q.snapshot.threshold
         /\ Len(q.responses) + Cardinality(q.pending) >= q.snapshot.threshold
<1> DEFINE n == q.snapshot.threshold
           got == Len(q.responses)
           left == Cardinality(q.pending)
<1>1. Collected(q, v) /\ ~Stops(q)
  BY Zenon DEF Collecting
<1>2. q.snapshot = extract_committee_info(v) /\ IsSeq(q.responses)
      /\ q.pending \in SUBSET Parties(v)
  BY <1>1, Zenon DEF Collected
<1>3. n \in Nat
  BY <1>2, SnapshotFields, CommitteeSize, ZenonT(30)
<1>4. got \in Nat
  BY <1>2, AppendSeq, Zenon
<1>5. left \in Nat
  <2>1. IsFiniteSet(q.pending)
    BY <1>2, CommitteeSize, FS_Subset, ZenonT(30)
  <2> QED BY <2>1, FS_CardinalityType, ZenonT(30)
<1>6. ~(got >= n) /\ ~(got + left < n)
  BY <1>1 DEF Stops, StopsCollecting
<1> HIDE DEF n, got, left
<1>7. got < n /\ got + left >= n
  BY <1>3, <1>4, <1>5, <1>6
<1> QED BY <1>7 DEF n, got, left

\* The collecting loop of handle_fetch_key goes on only while the answers still to come decide
\* between success and failure.
THEOREM WaitsForAReason == ServiceSpec => []NeverWaitsInVain
<1>1. ServiceInv => NeverWaitsInVain
  <2> SUFFICES ASSUME ServiceInv, NEW r \in Request, req[r].pc = "collecting"
               PROVE  /\ Len(req[r].responses) < req[r].snapshot.threshold
                      /\ Len(req[r].responses) + Cardinality(req[r].pending)
                           >= req[r].snapshot.threshold
    BY DEF NeverWaitsInVain
  <2>1. Idle.pc # "collecting"
    BY Zenon DEF Idle
  <2>2. PICK v \in Past : Collecting(req[r], v)
    BY <2>1 DEF ServiceInv, RequestInv, Rejected, Finished
  <2>3. v \in Version
    BY DEF Past
  <2> QED BY <2>2, <2>3, WorthWaiting, ZenonT(30)
<1> QED BY <1>1, ServiceInvariant, PTL

=============================================================================
