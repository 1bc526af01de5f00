------------------------------- MODULE Voting -------------------------------
(***************************************************************************)
(* The voting pattern (move/patterns/sources/voting.move): voters cast     *)
(* encrypted ballots, the key servers release the keys once seal_approve   *)
(* accepts, and anyone decrypts all of the ballots on chain.               *)
(***************************************************************************)
EXTENDS SealEncryption
CONSTANTS
  Voter,       \* addresses
  VoteVoters,  \* the lists of voters that votes are created with
  KeyServers,  \* the lists of key servers that votes are created with
  Options      \* the number of options

ASSUME VotingAssumption ==
  /\ \A v \in VoteVoters : v \in Seq(Voter)
  /\ Options \in 1 .. 255

NoBallot == [id |-> "none"]
NotCounted == -1

VARIABLES
  vote,    \* the shared Vote object
  intent,  \* intent[i]: what the i-th voter sealed a ballot for, or NotCounted
  held,    \* the key servers whose derived key for the vote's id is known
  result   \* the VoteResult, <<>> until finalize_vote returns it

vars == <<vote, intent, held, result>>

\* create_vote: the asserts are on the lengths of the lists and the threshold.
create_vote(voters, key_servers, threshold) ==
  [voters |-> voters, key_servers |-> key_servers, threshold |-> threshold,
   votes |-> [i \in DOMAIN voters |-> NoBallot], is_finalized |-> FALSE]

Init ==
  /\ \E voters \in VoteVoters, ks \in KeyServers : \E t \in 1 .. Len(ks) :
       vote = create_vote(voters, ks, t)
  /\ intent = [i \in DOMAIN vote.voters |-> NotCounted]
  /\ held = {}
  /\ result = <<>>

-----------------------------------------------------------------------------

Ballot(voter, data) == [mode |-> "Hmac256Ctr", data |-> data, aad |-> voter]

\* A ballot made with seal_encrypt for the vote.
Sealed(voter, data) ==
  seal_encrypt("vote", vote.key_servers, vote.key_servers, vote.threshold, 5,
               [i \in DOMAIN vote.key_servers |-> 9 + i], Ballot(voter, data))

\* Ballots that parse and are for this vote, but do not decrypt: the last share is
\* off the polynomial, or it is encrypted to the public key of another server.
Uneven(voter, data) ==
  LET ks == vote.key_servers
      shares == split_byte(5, vote.threshold, Len(ks), [i \in DOMAIN ks |-> 9 + i])
  IN  Seal("vote", ks, ks, vote.threshold, 5, [i \in DOMAIN ks |-> i],
           [shares EXCEPT ![Len(ks)] = add(@, 1)], Ballot(voter, data))

WrongKey(voter, data) ==
  LET ks == vote.key_servers
  IN  seal_encrypt("vote", ks, [ks EXCEPT ![Len(ks)] = "other"], vote.threshold, 5,
                   [i \in DOMAIN ks |-> 9 + i], Ballot(voter, data))

\* A ballot for fewer servers than the vote's, which cast_vote refuses.
Fewer(voter, data) ==
  LET ks == Front(vote.key_servers)
  IN  seal_encrypt("vote", ks, ks, vote.threshold, 5, [i \in DOMAIN ks |-> 9 + i],
                   Ballot(voter, data))

\* A ballot of another voter with the aad replaced.
Copied(voter, i) == [vote.votes[i] EXCEPT !.ciphertext.aad = voter]

\* The slot of a voter: the first place in the list.
Slot(voter) == Min({i \in DOMAIN vote.voters : vote.voters[i] = voter})

\* fill aborts if the slot has a ballot, and find_index if the sender is no voter.
cast_vote_Replaces(sender, ballot, means) ==
  /\ Parses(ballot)
  /\ ballot.ciphertext.aad = sender
  /\ ballot.services = vote.key_servers /\ ballot.threshold = vote.threshold
  /\ ballot.id = "vote"
  /\ sender \in Range(vote.voters)
  /\ vote' = [vote EXCEPT !.votes[Slot(sender)] = ballot]
  /\ intent' = [intent EXCEPT ![Slot(sender)] = means]
  /\ UNCHANGED <<held, result>>
cast_vote_AnyServers(sender, ballot, means) ==
  /\ Parses(ballot)
  /\ ballot.ciphertext.aad = sender
  /\ ballot.threshold = vote.threshold
  /\ ballot.id = "vote"
  /\ sender \in Range(vote.voters)
  /\ vote.votes[Slot(sender)] = NoBallot
  /\ vote' = [vote EXCEPT !.votes[Slot(sender)] = ballot]
  /\ intent' = [intent EXCEPT ![Slot(sender)] = means]
  /\ UNCHANGED <<held, result>>
cast_vote(sender, ballot, means) ==
  /\ Parses(ballot)
  /\ ballot.ciphertext.aad = sender
  /\ ballot.services = vote.key_servers /\ ballot.threshold = vote.threshold
  /\ ballot.id = "vote"
  /\ sender \in Range(vote.voters)
  /\ vote.votes[Slot(sender)] = NoBallot
  /\ vote' = [vote EXCEPT !.votes[Slot(sender)] = ballot]
  /\ intent' = [intent EXCEPT ![Slot(sender)] = means]
  /\ UNCHANGED <<held, result>>

CastSealed(v) ==
  \E o \in 0 .. Options - 1 : \E ballot \in {Sealed(v, <<o>>)} : cast_vote(v, ballot, o)

\* With as many shares as the threshold any shares fit together.
InvalidBallots(v) ==
  {Sealed(v, <<Options>>), Sealed(v, <<>>)} \cup
  (IF vote.threshold < Len(vote.key_servers)
     THEN {Uneven(v, <<0>>), WrongKey(v, <<0>>), Fewer(v, <<0>>)} ELSE {})

CastInvalid(v) == \E ballot \in InvalidBallots(v) : cast_vote(v, ballot, NotCounted)

CastCopy(v) ==
  \E i \in {k \in DOMAIN vote.votes : vote.votes[k] # NoBallot /\ vote.voters[k] # v} :
    \E ballot \in {Copied(v, i)} : cast_vote(v, ballot, NotCounted)

-----------------------------------------------------------------------------

seal_approve_Any(id) == id = "vote" /\ \E i \in DOMAIN vote.votes : vote.votes[i] # NoBallot
seal_approve(id) == id = "vote" /\ \A i \in DOMAIN vote.votes : vote.votes[i] # NoBallot

\* A key server runs seal_approve and hands out the derived key of the vote's id.
FetchKey(s) ==
  /\ s \in Range(vote.key_servers) \ held
  /\ seal_approve("vote")
  /\ held' = held \cup {s}
  /\ UNCHANGED <<vote, intent, result>>

\* given: the servers of the derived keys, in the order in which the finalizer gives them.
Decrypted(ballot, given) ==
  decrypt(ballot, given, [s \in Range(given) |-> extract(s, "vote")],
          [s \in Range(vote.key_servers) |-> s])

\* The ballots that decrypt to one byte that is an option.
Counts(ballot, given, o) ==
  LET d == Decrypted(ballot, given) IN d.outcome = "ok" /\ d.data = <<o>>

Tally(given) ==
  [o \in 1 .. Options |->
     Cardinality({i \in DOMAIN vote.votes :
                    vote.votes[i] # NoBallot /\ Counts(vote.votes[i], given, o - 1)})]

\* The asserts of finalize_vote and of the decrypt calls it makes: enough keys, all
\* of them valid for servers of the vote, and no server listed twice.
Finalizable(given) ==
  /\ Len(given) >= vote.threshold
  /\ Range(given) \subseteq Range(vote.key_servers)
  /\ \A i \in DOMAIN vote.votes : vote.votes[i] # NoBallot =>
       IsInjective(vote.key_servers) /\ Decrypted(vote.votes[i], given) # Abort

finalize_vote(given) ==
  /\ ~vote.is_finalized
  /\ Finalizable(given)
  /\ vote' = [vote EXCEPT !.is_finalized = TRUE]
  /\ result' = Tally(given)
  /\ UNCHANGED <<intent, held>>

\* Nobody can make up a derived key: the finalizer uses released ones, in any order.
Finalize == \E given \in SetToAllKPermutations(held) : finalize_vote(given)

Next ==
  \/ \E v \in Voter : CastSealed(v) \/ CastInvalid(v) \/ CastCopy(v)
  \/ \E s \in Range(vote.key_servers) : FetchKey(s)
  \/ Finalize

Spec == Init /\ [][Next]_vars

-----------------------------------------------------------------------------

(***************************************************************************)
(* The result counts every ballot that was sealed for an option, for that  *)
(* option, and no other: not the invalid ones, and not the copy of another *)
(* voter's ballot under one's own address.                                 *)
(***************************************************************************)
TallyOfIntents ==
  result # <<>> =>
    \A o \in 1 .. Options :
      result[o] = Cardinality({i \in DOMAIN intent : intent[i] = o - 1})

(***************************************************************************)
(* From the first key that is released on, every slot has its ballot and   *)
(* no step changes a ballot: nobody votes knowing how others voted.        *)
(***************************************************************************)
BallotsFixedBeforeKeys ==
  [][held # {} => vote'.votes = vote.votes /\ NoBallot \notin Range(vote.votes)]_vars

(***************************************************************************)
(* Once the keys of enough servers are released the vote can be finalized  *)
(* with them: no ballot that cast_vote accepts, valid or not, makes        *)
(* finalize_vote abort and so locks the result away, for votes that list   *)
(* every key server once.                                                  *)
(***************************************************************************)
ReleasedKeysFinalize ==
  IsInjective(vote.key_servers) =>
    \A given \in SetToAllKPermutations(held) : Len(given) >= vote.threshold => Finalizable(given)
=============================================================================
