------------------------- MODULE MemberServerProofs -------------------------
(***************************************************************************)
(* TLAPS proofs about a committee member's server, for any number of       *)
(* versions and requests, any seats and any behaviour of the full nodes:   *)
(* a request that found a key before its awaits finds one after them, a    *)
(* validated share is the member's on chain, and the server implements     *)
(* ShareHolder.                                                            *)
(***************************************************************************)
EXTENDS MemberServer, TLAPS

-----------------------------------------------------------------------------
\* A share some committee dealt to this member.
Dealt(s) == \E w \in Version : Seat[w] # None /\ s = OwnShare(w)

\* ... and that is the member's on chain by now.
OnChain(s) == \E v \in Version : v <= chain /\ s = OwnShare(v)

\* Where the process, the monitor and the requests may be together.
ControlInv ==
  /\ proc = "down" => monitor = "off" /\ key_state.kind = "Active"
  /\ proc = "validating" => monitor = "off" /\ key_state.kind = "Active"
  /\ proc = "warming" => monitor = "off" /\ key_state.kind = "Rotation"
  /\ proc = "up" => (monitor = "off" <=> key_state.kind = "Active")
  /\ \A r \in Request : req[r] = "checked" => proc = "up"

\* The shares are shares the operator was dealt, and the ones the server relies on are there.
ShareInv ==
  /\ \A v \in Version : env[v] = None \/ Dealt(env[v])
  /\ key_state.master_share = None \/ Dealt(key_state.master_share)
  /\ key_state.next_master_share = None \/ Dealt(key_state.next_master_share)
  /\ proc # "down" /\ key_state.kind = "Active" => key_state.master_share # None
  /\ key_state.kind = "Rotation" => key_state.next_master_share # None
  /\ proc = "up" /\ key_state.kind = "Active" => OnChain(key_state.master_share)
  /\ monitor = "done" => OnChain(key_state.next_master_share)

\* Versions are read from the chain, and the version counter is next to the target until the
\* monitor moves it.
VersionInv ==
  /\ committee_version <= chain /\ updater.value <= chain /\ watch.value <= chain
  /\ \A i \in 1..Len(reads) : reads[i] <= chain
  /\ monitor = "validating" => key_state.target_version <= chain
  /\ key_state.kind = "Rotation" =>
       IF monitor = "done" THEN committee_version = key_state.target_version
                           ELSE committee_version + 1 = key_state.target_version

ServerInv == TypeOK /\ ControlInv /\ ShareInv /\ VersionInv /\ CheckedAlready

-----------------------------------------------------------------------------
\* get_committee_server_master_share in the cases the server is ever in.
LEMMA ShareAt ==
  ASSUME NEW ks \in KeyState, NEW v \in Version
  PROVE  LET s == get_committee_server_master_share(ks, v)
         IN  /\ ks.kind = "Active" => s = ks.master_share
             /\ ks.kind = "Rotation" /\ v = ks.target_version => s = ks.next_master_share
             /\ ks.kind = "Rotation" /\ v + 1 = ks.target_version => s = ks.master_share
<1>1. v \in Int /\ ks.target_version \in Int
  BY VersionBound DEF KeyState, Version
<1>2. v + 1 # v
  BY <1>1
<1> QED BY <1>2 DEF get_committee_server_master_share

LEMMA ActiveState ==
  ASSUME NEW s \in Share \cup {None}
  PROVE  /\ Active(s) \in KeyState /\ Active(s).kind = "Active"
         /\ Active(s).master_share = s /\ Active(s).next_master_share = None
BY VersionBound DEF Active, KeyState, Version

LEMMA RotationState ==
  ASSUME NEW s \in Share \cup {None}, NEW n \in Share \cup {None}, NEW t \in Version
  PROVE  /\ Rotation(s, n, t) \in KeyState /\ Rotation(s, n, t).kind = "Rotation"
         /\ Rotation(s, n, t).master_share = s /\ Rotation(s, n, t).next_master_share = n
         /\ Rotation(s, n, t).target_version = t
BY DEF Rotation, KeyState

\* What MasterKeys::load returns is well formed, and in rotation mode the target is the version
\* after the one on chain.
LEMMA Loaded ==
  ASSUME TypeOK, ShareInv, NEW v \in Version, NEW ks, ks = load(config, v), ks # None
  PROVE  /\ ks \in KeyState
         /\ ks.master_share = None \/ Dealt(ks.master_share)
         /\ ks.next_master_share = None \/ Dealt(ks.next_master_share)
         /\ ks.kind = "Active" => ks.master_share # None
         /\ ks.kind = "Rotation" => ks.next_master_share # None /\ v + 1 = ks.target_version
<1> DEFINE t == config.target_version
           Fine(k) == /\ k \in KeyState
                      /\ k.master_share = None \/ Dealt(k.master_share)
                      /\ k.next_master_share = None \/ Dealt(k.next_master_share)
                      /\ k.kind = "Active" => k.master_share # None
                      /\ k.kind = "Rotation" => k.next_master_share # None /\ v + 1 = k.target_version
<1>1. /\ \A w \in Version : env[w] \in Share \cup {None} /\ (env[w] = None \/ Dealt(env[w]))
      /\ v \in Nat /\ v <= MaxVersion /\ MaxVersion \in Nat /\ config \in CommitteeState
  BY VersionBound DEF TypeOK, ShareInv, Version
<1>2. t \in Version
  BY <1>1, VersionBound DEF CommitteeState, Version
<1>3. ASSUME NEW s \in Share, Dealt(s) PROVE Fine(Active(s))
  <2>1. s # None
    BY <1>3, NoneIsNot DEF Share, Version
  <2> QED BY <1>3, <2>1, ActiveState
<1>4. ASSUME NEW s \in Share \cup {None}, NEW n \in Share, s = None \/ Dealt(s), Dealt(n),
             NEW u \in Version, v + 1 = u
      PROVE  Fine(Rotation(s, n, u))
  <2>1. n # None
    BY NoneIsNot DEF Share, Version
  <2> QED BY <1>4, <2>1, RotationState
<1>5. \/ env[v] # None /\ ks = Active(env[v])
      \/ v < MaxVersion /\ env[v + 1] # None /\ ks = Rotation(None, env[v + 1], v + 1)
      \/ env[t] # None /\ ks = Active(env[t])
      \/ v = t - 1 /\ env[t] # None /\ ks = Rotation(env[v], env[t], t)
  BY DEF load
<1> HIDE DEF Fine, t
<1>6. CASE env[v] # None /\ ks = Active(env[v])
  BY <1>1, <1>3, <1>6 DEF Fine
<1>7. CASE v < MaxVersion /\ env[v + 1] # None /\ ks = Rotation(None, env[v + 1], v + 1)
  <2>1. v + 1 \in Version
    BY <1>1, <1>7 DEF Version
  <2> QED BY <1>1, <1>4, <1>7, <2>1 DEF Fine
<1>8. CASE env[t] # None /\ ks = Active(env[t])
  BY <1>1, <1>2, <1>3, <1>8, ZenonT(30) DEF Fine
<1>9. CASE v = t - 1 /\ env[t] # None /\ ks = Rotation(env[v], env[t], t)
  <2>1. v + 1 = t
    BY <1>2, <1>9, VersionBound DEF Version
  <2> QED BY <1>1, <1>2, <1>4, <1>9, <2>1 DEF Fine
<1> QED BY <1>5, <1>6, <1>7, <1>8, <1>9

\* fetch_and_validate_committee_partial_pk: a dealt share that passes the comparison is the share
\* of the version the key server object was read at.
LEMMA ValidatedOnChain ==
  ASSUME NEW s, Dealt(s), NEW c \in Version, NEW k \in Version, k <= chain, NEW o, Validated(s, c, k, o)
  PROVE  OnChain(s)
<1>1. PICK w \in Version : Seat[w] # None /\ s = <<w, Seat[w]>>
  BY DEF Dealt, OwnShare
<1>2. s # None
  <2>1. Seat[w] \in Nat /\ w \in Nat
    BY <1>1, Seats, VersionBound DEF Version
  <2>2. <<w, Seat[w]>> \in Nat \X Nat
    BY <2>1
  <2> QED BY <1>1, <2>2, NoneIsNot
<1>3. s = <<k, Seat[c]>>
  BY <1>2 DEF Validated, to_partial_key_servers
<1>4. w = k
  BY <1>1, <1>3
<1> QED BY <1>1, <1>4 DEF OnChain, OwnShare
-----------------------------------------------------------------------------
\* The types the variables have, as facts to compute with.
LEMMA Numbers ==
  ASSUME TypeOK
  PROVE  /\ chain \in Nat /\ committee_version \in Nat /\ updater.value \in Nat /\ watch.value \in Nat
         /\ key_state.target_version \in Nat /\ MaxVersion \in Nat /\ chain <= MaxVersion
BY VersionBound DEF TypeOK, KeyState, Version

LEMMA InitInv == Init => ServerInv
<1> SUFFICES ASSUME Init PROVE ServerInv
  OBVIOUS
<1>1. /\ key_state \in KeyState /\ key_state.kind = "Active" /\ key_state.master_share = None
      /\ key_state.next_master_share = None
  BY ActiveState DEF Init
<1>2. 0 \in Version
  BY VersionBound DEF Version
<1>3. TypeOK
  BY <1>1, <1>2 DEF Init, TypeOK, CommitteeState
<1>4. ControlInv
  BY <1>1 DEF Init, ControlInv
<1>5. ShareInv
  BY <1>1 DEF Init, ShareInv
<1>6. VersionInv
  BY <1>1, <1>2 DEF Init, VersionInv, Version
<1>7. CheckedAlready
  BY DEF Init, CheckedAlready
<1> QED BY <1>3, <1>4, <1>5, <1>6, <1>7 DEF ServerInv

\* A process that ends leaves nothing behind.
LEMMA EndPreserves ==
  ASSUME ServerInv, ProcessEnds, UNCHANGED <<chain, rpc, config, env>>
  PROVE  ServerInv'
<1>0. TypeOK /\ ShareInv
  BY DEF ServerInv
<1>1. /\ key_state' \in KeyState /\ key_state'.kind = "Active" /\ key_state'.master_share = None
      /\ key_state'.next_master_share = None
  BY ActiveState DEF ProcessEnds
<1>2. 0 \in Version
  BY VersionBound DEF Version
<1>3. TypeOK'
  BY <1>0, <1>1, <1>2 DEF ProcessEnds, TypeOK
<1>4. ControlInv'
  BY <1>1 DEF ProcessEnds, ControlInv
<1>5. ShareInv'
  <2>1. \A v \in Version : env'[v] = None \/ Dealt(env'[v])
    BY <1>0 DEF ShareInv
  <2> QED BY <1>1, <2>1 DEF ProcessEnds, ShareInv, Dealt, OnChain
<1>6. VersionInv'
  BY <1>0, <1>1, Numbers DEF ProcessEnds, VersionInv
<1>7. CheckedAlready'
  BY DEF ProcessEnds, CheckedAlready
<1> QED BY <1>3, <1>4, <1>5, <1>6, <1>7 DEF ServerInv

LEMMA StartPreserves ==
  ASSUME ServerInv, NEW v \in Version, Start(v)
  PROVE  ServerInv'
<1>0. TypeOK /\ ControlInv /\ ShareInv /\ VersionInv
  BY DEF ServerInv
<1> DEFINE ks == load(config, v)
<1>1. /\ ks # None /\ key_state' = ks /\ committee_version' = v /\ proc = "down" /\ v <= chain
      /\ UNCHANGED <<chain, rpc, config, env, monitor, reads, req>>
  BY DEF Start, Readable
<1>2. \/ /\ ks.kind = "Active" /\ proc' = "validating" /\ updater' = updater /\ watch' = watch
      \/ /\ ks.kind # "Active" /\ proc' = "warming" /\ updater' = [pc |-> "fetch", value |-> 0]
         /\ watch' = [value |-> 0, unseen |-> FALSE, open |-> TRUE]
  BY DEF Start
<1> HIDE DEF ks
<1>3. /\ ks \in KeyState
      /\ ks.master_share = None \/ Dealt(ks.master_share)
      /\ ks.next_master_share = None \/ Dealt(ks.next_master_share)
      /\ ks.kind = "Active" => ks.master_share # None
      /\ ks.kind = "Rotation" => ks.next_master_share # None /\ v + 1 = ks.target_version
  BY <1>0, <1>1, Loaded DEF ks
<1>4. ks.kind \in {"Active", "Rotation"}
  BY <1>3 DEF KeyState
<1>5. monitor' = "off" /\ \A r \in Request : req'[r] # "checked"
  BY <1>0, <1>1 DEF ControlInv
<1>6. TypeOK'
  <2>1. 0 \in Version
    BY VersionBound DEF Version
  <2>2. updater' \in [pc : {"off", "fetch", "send", "last_send", "tick", "panicked"}, value : Version]
    BY <1>0, <1>2, <2>1 DEF TypeOK
  <2>3. watch' \in [value : Version, unseen : BOOLEAN, open : BOOLEAN]
    BY <1>0, <1>2, <2>1 DEF TypeOK
  <2>4. proc' \in {"down", "validating", "warming", "up"}
    BY <1>2
  <2> QED BY <1>0, <1>1, <1>3, <2>2, <2>3, <2>4 DEF TypeOK
<1>7. ControlInv'
  BY <1>1, <1>2, <1>4, <1>5 DEF ControlInv
<1>8. ShareInv'
  <2>1. \A w \in Version : env'[w] = None \/ Dealt(env'[w])
    BY <1>0, <1>1 DEF ShareInv
  <2> QED BY <1>1, <1>2, <1>3, <1>5, <2>1 DEF ShareInv, Dealt
<1>9. VersionInv'
  <2>1. updater'.value <= chain /\ watch'.value <= chain
    BY <1>0, <1>2, Numbers DEF VersionInv
  <2>2. \A i \in 1..Len(reads) : reads[i] <= chain
    BY <1>0 DEF VersionInv
  <2> QED BY <1>1, <1>3, <1>5, <2>1, <2>2 DEF VersionInv
<1>10. CheckedAlready'
  BY <1>5 DEF CheckedAlready
<1> QED BY <1>6, <1>7, <1>8, <1>9, <1>10 DEF ServerInv
\* A share on chain stays on chain.
LEMMA OnChainLater ==
  ASSUME TypeOK, NEW s, OnChain(s), chain' \in Version, chain <= chain'
  PROVE  OnChain(s)'
<1>1. PICK v \in Version : v <= chain /\ s = OwnShare(v)
  BY DEF OnChain
<1>2. v <= chain'
  BY <1>1, VersionBound DEF TypeOK, Version
<1> QED BY <1>1, <1>2 DEF OnChain

LEMMA RotatePreserves ==
  ASSUME ServerInv, Rotate
  PROVE  ServerInv'
<1>0. TypeOK /\ ControlInv /\ ShareInv /\ VersionInv /\ CheckedAlready
  BY DEF ServerInv
<1>1. chain' = chain + 1 /\ chain < MaxVersion /\ UNCHANGED <<rpc, config, env, serverVars>>
  BY DEF Rotate
<1>2. chain' \in Version /\ chain <= chain'
  BY <1>0, <1>1, VersionBound DEF TypeOK, Version
<1>3. TypeOK'
  BY <1>0, <1>1, <1>2 DEF TypeOK, serverVars
<1>4. ControlInv'
  BY <1>0, <1>1 DEF ControlInv, serverVars
<1>5. ShareInv'
  <2>1. key_state' = key_state /\ proc' = proc /\ monitor' = monitor /\ env' = env
    BY <1>1 DEF serverVars
  <2>2. ASSUME NEW s, OnChain(s) PROVE OnChain(s)'
    BY <1>0, <1>2, <2>2, OnChainLater
  <2>3. proc = "up" /\ key_state.kind = "Active" => OnChain(key_state.master_share)'
    BY <1>0, <2>1, <2>2 DEF ShareInv, OnChain
  <2>4. monitor = "done" => OnChain(key_state.next_master_share)'
    BY <1>0, <2>1, <2>2 DEF ShareInv, OnChain
  <2> QED BY <1>0, <2>1, <2>3, <2>4 DEF ShareInv, Dealt
<1>6. VersionInv'
  <2>1. \A x \in Nat : x <= chain => x <= chain'
    BY <1>0, <1>1, Numbers
  <2>2. \A i \in 1..Len(reads) : reads[i] \in Nat /\ reads[i] <= chain
    BY <1>0, VersionBound DEF VersionInv, TypeOK, Version
  <2> QED BY <1>0, <1>1, <2>1, <2>2, Numbers DEF VersionInv, serverVars
<1>7. CheckedAlready'
  BY <1>0, <1>1 DEF CheckedAlready, CurrentShare, serverVars
<1> QED BY <1>3, <1>4, <1>5, <1>6, <1>7 DEF ServerInv

\* The operator writes shares they were dealt, and no process reads them yet.
LEMMA ReconfigurePreserves ==
  ASSUME ServerInv, NEW cfg \in CommitteeState, NEW e \in Environment, Reconfigure(cfg, e)
  PROVE  ServerInv'
<1>0. TypeOK /\ ControlInv /\ ShareInv /\ VersionInv /\ CheckedAlready
  BY DEF ServerInv
<1>1. config' = cfg /\ env' = e /\ UNCHANGED <<chain, rpc, serverVars>>
  BY DEF Reconfigure
<1>2. \A v \in Version : e[v] = None \/ Dealt(e[v])
  BY DEF Environment, Dealt
<1>3. e \in [Version -> Share \cup {None}]
  <2>1. ASSUME NEW w \in Version, Seat[w] # None PROVE OwnShare(w) \in Share
    BY <2>1, Seats DEF OwnShare, Share
  <2> QED BY <2>1 DEF Environment
<1>4. TypeOK'
  BY <1>0, <1>1, <1>3 DEF TypeOK, serverVars
<1>5. ControlInv'
  BY <1>0, <1>1 DEF ControlInv, serverVars
<1>6. ShareInv'
  BY <1>0, <1>1, <1>2 DEF ShareInv, Dealt, OnChain, serverVars
<1>7. VersionInv'
  BY <1>0, <1>1 DEF VersionInv, serverVars
<1>8. CheckedAlready'
  BY <1>0, <1>1 DEF CheckedAlready, CurrentShare, serverVars
<1> QED BY <1>4, <1>5, <1>6, <1>7, <1>8 DEF ServerInv
\* What only concerns the periodic updater and its channel.
UpdaterType == [pc : {"off", "fetch", "send", "last_send", "tick", "panicked"}, value : Version]
WatchType == [value : Version, unseen : BOOLEAN, open : BOOLEAN]

LEMMA ChannelPreserves ==
  ASSUME ServerInv, UNCHANGED updaterFrame, updater' \in UpdaterType, watch' \in WatchType,
         updater'.value <= chain, watch'.value <= chain
  PROVE  ServerInv'
<1>0. TypeOK /\ ControlInv /\ ShareInv /\ VersionInv /\ CheckedAlready
  BY DEF ServerInv
<1>1. /\ chain' = chain /\ rpc' = rpc /\ config' = config /\ env' = env /\ proc' = proc
      /\ key_state' = key_state /\ committee_version' = committee_version /\ monitor' = monitor
      /\ reads' = reads /\ req' = req
  BY DEF updaterFrame
<1>2. TypeOK'
  BY <1>0, <1>1 DEF TypeOK, UpdaterType, WatchType
<1>3. ControlInv'
  BY <1>0, <1>1 DEF ControlInv
<1>4. ShareInv'
  BY <1>0, <1>1 DEF ShareInv, Dealt, OnChain
<1>5. VersionInv'
  BY <1>0, <1>1 DEF VersionInv
<1>6. CheckedAlready'
  BY <1>0, <1>1 DEF CheckedAlready, CurrentShare
<1> QED BY <1>2, <1>3, <1>4, <1>5, <1>6 DEF ServerInv

LEMMA UpdaterPreserves ==
  ASSUME ServerInv, UpdaterStep
  PROVE  ServerInv'
<1>0. /\ TypeOK /\ VersionInv /\ updater \in UpdaterType /\ watch \in WatchType
      /\ updater.value <= chain /\ watch.value <= chain
  BY DEF ServerInv, TypeOK, VersionInv, UpdaterType, WatchType
<1>1. ASSUME NEW v \in Version, UpdaterFetch(v) PROVE ServerInv'
  <2>1. updater' = [pc |-> "send", value |-> v] /\ v <= chain /\ watch' = watch /\ UNCHANGED updaterFrame
    BY <1>1 DEF UpdaterFetch, Readable
  <2>2. updater' \in UpdaterType /\ updater'.value <= chain
    BY <2>1 DEF UpdaterType
  <2> QED BY <1>0, <2>1, <2>2, ChannelPreserves
<1>2. CASE UpdaterFetchFails \/ UpdaterTick
  <2>1. /\ updater' \in UpdaterType /\ updater'.value = updater.value
        /\ watch' = watch /\ UNCHANGED updaterFrame
    BY <1>0, <1>2 DEF UpdaterFetchFails, UpdaterTick, UpdaterType
  <2> QED BY <1>0, <2>1, ChannelPreserves
<1>3. CASE UpdaterSend
  <2>0. CASE ProcessEnds /\ UNCHANGED <<chain, rpc, config, env>>
    BY <2>0, EndPreserves
  <2> SUFFICES ASSUME ~(ProcessEnds /\ UNCHANGED <<chain, rpc, config, env>>) PROVE ServerInv'
    BY <2>0
  <2>1. UNCHANGED updaterFrame /\ updater' \in UpdaterType /\ updater'.value = updater.value
    BY <1>0, <1>3 DEF UpdaterSend, UpdaterType
  <2>2. watch' \in WatchType /\ watch'.value \in {watch.value, updater.value}
    <3>1. updater.value \in Version
      BY <1>0 DEF UpdaterType
    <3>2. watch' = watch \/ watch' = [watch EXCEPT !.value = updater.value, !.unseen = TRUE]
      BY <1>3 DEF UpdaterSend
    <3>3. CASE watch' = watch
      BY <1>0, <3>3
    <3>4. CASE watch' = [watch EXCEPT !.value = updater.value, !.unseen = TRUE]
      <4>1. watch'.value = updater.value /\ watch' \in [value : Version, unseen : BOOLEAN, open : BOOLEAN]
        BY <1>0, <3>1, <3>4, ZenonT(30) DEF WatchType
      <4> QED BY <4>1 DEF WatchType
    <3> QED BY <3>2, <3>3, <3>4
  <2> QED BY <1>0, <2>1, <2>2, ChannelPreserves
<1> QED BY <1>1, <1>2, <1>3 DEF UpdaterStep

LEMMA RequestPreserves ==
  ASSUME ServerInv, NEW r \in Request, has_key_for_package(r) \/ create_response(r)
  PROVE  ServerInv'
<1>0. TypeOK /\ ControlInv /\ ShareInv /\ VersionInv /\ CheckedAlready
  BY DEF ServerInv
<1>1. /\ chain' = chain /\ rpc' = rpc /\ config' = config /\ env' = env /\ proc' = proc
      /\ key_state' = key_state /\ committee_version' = committee_version /\ monitor' = monitor
      /\ reads' = reads /\ updater' = updater /\ watch' = watch
  BY DEF has_key_for_package, create_response
<1>2. \/ proc = "up" /\ CurrentShare # None /\ req' = [req EXCEPT ![r] = "checked"]
      \/ req' = [req EXCEPT ![r] = "idle"]
  BY DEF has_key_for_package, create_response
<1>3. /\ req' \in [Request -> {"idle", "checked"}]
      /\ \A q \in Request : req'[q] = "checked" => req[q] = "checked" \/ (proc = "up" /\ CurrentShare # None)
  BY <1>0, <1>2, ZenonT(30) DEF TypeOK
<1>4. TypeOK'
  BY <1>0, <1>1, <1>3 DEF TypeOK
<1>5. ControlInv'
  BY <1>0, <1>1, <1>3 DEF ControlInv
<1>6. ShareInv'
  BY <1>0, <1>1 DEF ShareInv, Dealt, OnChain
<1>7. VersionInv'
  BY <1>0, <1>1 DEF VersionInv
<1>8. CheckedAlready'
  <2>1. CurrentShare' = CurrentShare
    BY <1>1 DEF CurrentShare
  <2> QED BY <1>0, <1>3, <2>1 DEF CheckedAlready
<1> QED BY <1>4, <1>5, <1>6, <1>7, <1>8 DEF ServerInv
\* The reads of a validation.
LEMMA ReadPreserves ==
  ASSUME ServerInv, NEW v \in Version, FetchPartial(v)
  PROVE  ServerInv'
<1>0. TypeOK /\ ControlInv /\ ShareInv /\ VersionInv /\ CheckedAlready
  BY DEF ServerInv
<1>1. /\ chain' = chain /\ rpc' = rpc /\ config' = config /\ env' = env /\ proc' = proc
      /\ key_state' = key_state /\ committee_version' = committee_version /\ monitor' = monitor
      /\ req' = req /\ updater' = updater /\ watch' = watch
      /\ reads' = Append(reads, v) /\ v <= chain
  BY DEF FetchPartial, Readable
<1>2. reads \in Seq(Version) /\ \A i \in 1..Len(reads) : reads[i] <= chain
  BY <1>0 DEF TypeOK, VersionInv
<1>3. reads' \in Seq(Version) /\ \A i \in 1..Len(reads') : reads'[i] <= chain
  BY <1>1, <1>2
<1>4. TypeOK'
  BY <1>0, <1>1, <1>3 DEF TypeOK
<1>5. ControlInv'
  BY <1>0, <1>1 DEF ControlInv
<1>6. ShareInv'
  BY <1>0, <1>1 DEF ShareInv, Dealt, OnChain
<1>7. VersionInv'
  BY <1>0, <1>1, <1>3 DEF VersionInv
<1>8. CheckedAlready'
  BY <1>0, <1>1 DEF CheckedAlready, CurrentShare
<1> QED BY <1>4, <1>5, <1>6, <1>7, <1>8 DEF ServerInv

\* The two versions a validation has read are on chain.
LEMMA ReadsOnChain ==
  ASSUME ServerInv, Len(reads) = 2
  PROVE  reads[1] \in Version /\ reads[2] \in Version /\ reads[2] <= chain
<1>1. reads \in Seq(Version) /\ \A i \in 1..Len(reads) : reads[i] <= chain
  BY DEF ServerInv, TypeOK, VersionInv
<1>2. 1 \in 1..Len(reads) /\ 2 \in 1..Len(reads)
  OBVIOUS
<1> QED BY <1>1, <1>2

LEMMA StartupPreserves ==
  ASSUME ServerInv, NEW v \in Version, ValidateAtStart(v)
  PROVE  ServerInv'
<1>0. TypeOK /\ ControlInv /\ ShareInv /\ VersionInv /\ CheckedAlready
  BY DEF ServerInv
<1>1. CASE ~Validated(key_state.master_share, reads[1], reads[2], v)
  BY <1>1, EndPreserves DEF ValidateAtStart
<1>2. CASE Validated(key_state.master_share, reads[1], reads[2], v)
  <2>1. /\ chain' = chain /\ rpc' = rpc /\ config' = config /\ env' = env
        /\ key_state' = key_state /\ committee_version' = committee_version /\ monitor' = monitor
        /\ req' = req /\ updater' = updater /\ watch' = watch
        /\ reads' = <<>> /\ proc' = "up" /\ proc = "validating"
    BY <1>2 DEF ValidateAtStart
  <2>2. /\ key_state.kind = "Active" /\ monitor = "off" /\ key_state.master_share # None
        /\ \A r \in Request : req[r] # "checked"
    BY <1>0, <2>1 DEF ControlInv, ShareInv
  <2>3. OnChain(key_state.master_share)
    <3>1. Dealt(key_state.master_share)
      BY <1>0, <2>2 DEF ShareInv
    <3>2. reads[1] \in Version /\ reads[2] \in Version /\ reads[2] <= chain
      BY ReadsOnChain DEF ValidateAtStart
    <3> QED BY <1>2, <3>1, <3>2, ValidatedOnChain
  <2>4. TypeOK'
    BY <1>0, <2>1 DEF TypeOK
  <2>5. ControlInv'
    BY <2>1, <2>2 DEF ControlInv
  <2>6. ShareInv'
    BY <1>0, <2>1, <2>2, <2>3 DEF ShareInv, Dealt, OnChain
  <2>7. VersionInv'
    BY <1>0, <2>1, <2>2 DEF VersionInv
  <2>8. CheckedAlready'
    BY <2>1, <2>2 DEF CheckedAlready
  <2> QED BY <2>4, <2>5, <2>6, <2>7, <2>8 DEF ServerInv
<1> QED BY <1>1, <1>2
\* A monitor at work has the server up in rotation mode.
LEMMA MonitorUp ==
  ASSUME ServerInv, monitor # "off"
  PROVE  proc = "up" /\ key_state.kind = "Rotation"
BY DEF ServerInv, ControlInv, TypeOK, KeyState

\* What the monitor does when it neither switches nor ends.
LEMMA MonitorPreserves ==
  ASSUME ServerInv, proc = "up", key_state.kind = "Rotation", proc' = "up", reads' \in {reads, <<>>},
         monitor \in {"waiting", "validating"}, monitor' \in {"waiting", "validating", "panicked"},
         monitor' = "validating" => key_state.target_version <= chain, watch' \in WatchType,
         watch'.value <= chain,
         UNCHANGED <<chain, rpc, config, env, key_state, committee_version, updater, req>>
  PROVE  ServerInv'
<1>0. TypeOK /\ ControlInv /\ ShareInv /\ VersionInv /\ CheckedAlready
  BY DEF ServerInv
<1>1. /\ reads' \in Seq(Version) /\ \A i \in 1..Len(reads') : reads'[i] <= chain
  <2>1. CASE reads' = reads
    BY <1>0, <2>1 DEF TypeOK, VersionInv
  <2>2. CASE reads' = <<>>
    BY <2>2
  <2> QED BY <2>1, <2>2
<1>2. TypeOK'
  BY <1>0, <1>1 DEF TypeOK, WatchType
<1>3. ControlInv'
  BY <1>0 DEF ControlInv
<1>4. ShareInv'
  BY <1>0 DEF ShareInv, Dealt, OnChain
<1>5. VersionInv'
  BY <1>0, <1>1 DEF VersionInv
<1>6. CheckedAlready'
  BY <1>0 DEF CheckedAlready, CurrentShare
<1> QED BY <1>2, <1>3, <1>4, <1>5, <1>6 DEF ServerInv

LEMMA WakePreserves ==
  ASSUME ServerInv, MonitorWakes
  PROVE  ServerInv'
<1>0. /\ TypeOK /\ VersionInv /\ watch \in WatchType /\ watch.value <= chain
  BY DEF ServerInv, TypeOK, VersionInv, WatchType
<1>1. proc = "up" /\ key_state.kind = "Rotation" /\ monitor = "waiting"
  BY MonitorUp DEF MonitorWakes
<1>2. watch' \in WatchType /\ watch'.value = watch.value
  BY <1>0, ZenonT(30) DEF MonitorWakes, WatchType
<1>3. /\ monitor' \in {"waiting", "validating", "panicked"}
      /\ monitor' = "validating" => key_state.target_version <= chain
  BY <1>0 DEF MonitorWakes, Verdict
<1>4. UNCHANGED <<chain, rpc, config, env, proc, key_state, committee_version, updater, reads, req>>
  BY DEF MonitorWakes
<1> QED BY <1>0, <1>1, <1>2, <1>3, <1>4, MonitorPreserves

LEMMA FailurePreserves ==
  ASSUME ServerInv, FetchPartialFails
  PROVE  ServerInv'
<1>0. TypeOK /\ VersionInv /\ watch \in WatchType /\ watch.value <= chain
  BY DEF ServerInv, TypeOK, VersionInv, WatchType
<1>1. CASE proc = "validating"
  BY <1>1, EndPreserves DEF FetchPartialFails
<1>2. CASE proc # "validating"
  <2>1. /\ monitor = "validating" /\ monitor' = "panicked" /\ reads' = <<>>
        /\ UNCHANGED <<chain, rpc, config, env, proc, key_state, committee_version, updater, watch, req>>
    BY <1>2 DEF FetchPartialFails, Validating
  <2>2. proc = "up" /\ key_state.kind = "Rotation"
    BY <2>1, MonitorUp
  <2> QED BY <1>0, <2>1, <2>2, MonitorPreserves
<1> QED BY <1>1, <1>2

\* spawn_periodic_updater returns: the server is up, and the monitor starts.
LEMMA WarmedPreserves ==
  ASSUME ServerInv, Warmed
  PROVE  ServerInv'
<1>0. TypeOK /\ ControlInv /\ ShareInv /\ VersionInv /\ CheckedAlready /\ watch \in WatchType
  BY DEF ServerInv, TypeOK, WatchType
<1>1. /\ chain' = chain /\ rpc' = rpc /\ config' = config /\ env' = env /\ key_state' = key_state
      /\ committee_version' = committee_version /\ updater' = updater /\ reads' = reads /\ req' = req
      /\ proc = "warming" /\ proc' = "up" /\ monitor' = "waiting"
      /\ watch' = [watch EXCEPT !.unseen = FALSE]
  BY DEF Warmed
<1>2. watch' \in WatchType /\ watch'.value = watch.value
  BY <1>0, <1>1, ZenonT(30) DEF WatchType
<1>3. /\ key_state.kind = "Rotation" /\ monitor = "off" /\ \A r \in Request : req[r] # "checked"
  BY <1>0, <1>1 DEF ControlInv
<1>4. TypeOK'
  BY <1>0, <1>1, <1>2 DEF TypeOK, WatchType
<1>5. ControlInv'
  BY <1>0, <1>1, <1>3 DEF ControlInv
<1>6. ShareInv'
  BY <1>0, <1>1, <1>3 DEF ShareInv, Dealt, OnChain
<1>7. VersionInv'
  BY <1>0, <1>1, <1>2, <1>3 DEF VersionInv
<1>8. CheckedAlready'
  BY <1>1, <1>3 DEF CheckedAlready
<1> QED BY <1>4, <1>5, <1>6, <1>7, <1>8 DEF ServerInv
\* The monitor switches: from here on the next share answers.
LEMMA SwitchPreserves ==
  ASSUME ServerInv, NEW v \in Version, ValidateRotated(v)
  PROVE  ServerInv'
<1>0. /\ TypeOK /\ ControlInv /\ ShareInv /\ VersionInv /\ CheckedAlready
      /\ watch \in WatchType /\ updater \in UpdaterType
  BY DEF ServerInv, TypeOK, WatchType, UpdaterType
<1>1. monitor = "validating" /\ proc = "up" /\ key_state.kind = "Rotation"
  BY MonitorUp DEF ValidateRotated
<1>2. CASE ~Validated(key_state.next_master_share, reads[1], reads[2], v)
  <2>1. /\ monitor' = "panicked" /\ reads' = <<>>
        /\ UNCHANGED <<chain, rpc, config, env, proc, key_state, committee_version, updater, watch, req>>
    BY <1>2 DEF ValidateRotated
  <2>2. watch.value <= chain
    BY <1>0 DEF VersionInv
  <2> QED BY <1>0, <1>1, <2>1, <2>2, MonitorPreserves
<1>3. CASE Validated(key_state.next_master_share, reads[1], reads[2], v)
  <2>1. /\ chain' = chain /\ rpc' = rpc /\ config' = config /\ env' = env /\ key_state' = key_state
        /\ proc' = proc /\ req' = req /\ reads' = <<>> /\ monitor' = "done"
        /\ committee_version' = key_state.target_version
        /\ updater' = Abort(updater) /\ watch' = [watch EXCEPT !.open = FALSE]
    BY <1>3 DEF ValidateRotated
  <2>2. updater' \in UpdaterType /\ updater'.value = updater.value
    BY <1>0, <2>1 DEF Abort, UpdaterType
  <2>3. watch' \in WatchType /\ watch'.value = watch.value
    BY <1>0, <2>1, ZenonT(30) DEF WatchType
  <2>4. /\ key_state.next_master_share # None /\ Dealt(key_state.next_master_share)
        /\ key_state.target_version \in Version /\ key_state.target_version <= chain
    BY <1>0, <1>1 DEF ShareInv, VersionInv, TypeOK, KeyState
  <2>5. OnChain(key_state.next_master_share)
    <3>1. reads[1] \in Version /\ reads[2] \in Version /\ reads[2] <= chain
      BY ReadsOnChain DEF ValidateRotated
    <3> QED BY <1>3, <2>4, <3>1, ValidatedOnChain
  <2>6. TypeOK'
    BY <1>0, <2>1, <2>2, <2>3, <2>4 DEF TypeOK, WatchType, UpdaterType
  <2>7. ControlInv'
    BY <1>0, <1>1, <2>1 DEF ControlInv
  <2>8. ShareInv'
    BY <1>0, <1>1, <2>1, <2>5 DEF ShareInv, Dealt, OnChain
  <2>9. VersionInv'
    BY <1>0, <2>1, <2>2, <2>3, <2>4 DEF VersionInv
  <2>10. CurrentShare' = key_state.next_master_share
    BY <1>0, <1>1, <2>1, <2>4, ShareAt DEF CurrentShare, TypeOK
  <2>11. CheckedAlready'
    BY <2>4, <2>10 DEF CheckedAlready
  <2> QED BY <2>6, <2>7, <2>8, <2>9, <2>11 DEF ServerInv
<1> QED BY <1>2, <1>3

LEMMA NextPreserves == ServerInv /\ [Next]_vars => ServerInv'
<1> SUFFICES ASSUME ServerInv, [Next]_vars PROVE ServerInv'
  OBVIOUS
<1>1. CASE Rotate
  BY <1>1, RotatePreserves
<1>2. ASSUME NEW cfg \in CommitteeState, NEW e \in Environment, Reconfigure(cfg, e) PROVE ServerInv'
  BY <1>2, ReconfigurePreserves
<1>3. ASSUME NEW v \in Version, Start(v) PROVE ServerInv'
  BY <1>3, StartPreserves
<1>4. CASE ValidationStep
  BY <1>4, ReadPreserves, StartupPreserves, SwitchPreserves, FailurePreserves DEF ValidationStep
<1>5. CASE UpdaterStep
  BY <1>5, UpdaterPreserves
<1>6. CASE Warmed
  BY <1>6, WarmedPreserves
<1>7. CASE MonitorWakes
  BY <1>7, WakePreserves
<1>8. CASE Exit \/ Kill
  BY <1>8, EndPreserves DEF Exit, Kill
<1>9. ASSUME NEW r \in Request, has_key_for_package(r) \/ create_response(r) PROVE ServerInv'
  BY <1>9, RequestPreserves
<1>10. CASE UNCHANGED vars
  <2>1. /\ updater \in UpdaterType /\ watch \in WatchType /\ updater.value <= chain /\ watch.value <= chain
    BY DEF ServerInv, TypeOK, VersionInv, UpdaterType, WatchType
  <2>2. updater' = updater /\ watch' = watch /\ UNCHANGED updaterFrame
    BY <1>10 DEF vars, updaterFrame
  <2> QED BY <2>1, <2>2, ChannelPreserves
<1> QED BY <1>1, <1>2, <1>3, <1>4, <1>5, <1>6, <1>7, <1>8, <1>9, <1>10 DEF Next

\* ServerInv is an inductive invariant: process, version monitor and requests are where they can
\* be together, the shares MasterKeys::load required are there and were dealt to this member,
\* and every version the server holds was read from the chain.
THEOREM ServerInvariant == Spec => []ServerInv
BY InitInv, NextPreserves, PTL DEF Spec

\* create_response's expect("checked already") never fails: the only step that changes the share
\* of a server that is up is the switch, to a share that MasterKeys::load required.
THEOREM CheckedStaysTrue == Spec => []CheckedAlready
<1>1. ServerInv => CheckedAlready
  BY DEF ServerInv
<1> QED BY <1>1, ServerInvariant, PTL

\* What fetch_and_validate_committee_partial_pk let pass is the member's share of a version on
\* chain, although its three reads may be answered at three versions and the operator may have
\* written any dealt share under any version's name.
THEOREM SharesAreOnChain == Spec => []ValidatedShareOnChain
<1>1. ServerInv => ValidatedShareOnChain
  <2> SUFFICES ASSUME ServerInv, proc = "up", key_state.kind = "Active" \/ monitor = "done"
               PROVE  OnChain(CurrentShare)
    BY DEF ValidatedShareOnChain, OnChain
  <2>1. key_state \in KeyState /\ committee_version \in Version
    BY DEF ServerInv, TypeOK
  <2>2. CASE key_state.kind = "Active"
    <3>1. CurrentShare = key_state.master_share
      BY <2>1, <2>2, ShareAt DEF CurrentShare
    <3> QED BY <2>2, <3>1 DEF ServerInv, ShareInv
  <2>3. CASE monitor = "done"
    <3>1. key_state.kind = "Rotation" /\ committee_version = key_state.target_version
      BY <2>3, MonitorUp DEF ServerInv, VersionInv
    <3>2. CurrentShare = key_state.next_master_share
      BY <2>1, <3>1, ShareAt DEF CurrentShare
    <3> QED BY <2>3, <3>2 DEF ServerInv, ShareInv
  <2> QED BY <2>2, <2>3
<1> QED BY <1>1, ServerInvariant, PTL
-----------------------------------------------------------------------------
\* Of a server that is not down and whose shares are filed by version, the shares are of the
\* versions they are used for.
FiledInv ==
  proc # "down" /\ FiledByVersion =>
    /\ key_state.kind = "Active" => key_state.master_share = OwnShare(committee_version)
    /\ key_state.kind = "Rotation" =>
         /\ key_state.next_master_share = OwnShare(key_state.target_version)
         /\ key_state.master_share \in {OwnShare(key_state.target_version - 1), None}

\* MasterKeys::load takes each share from the name of the version it is to be used for.
LEMMA LoadedByVersion ==
  ASSUME TypeOK, FiledByVersion, NEW v \in Version, NEW ks, ks = load(config, v), ks # None
  PROVE  /\ ks.kind = "Active" => ks.master_share = OwnShare(v)
         /\ ks.kind = "Rotation" =>
              /\ ks.next_master_share = OwnShare(ks.target_version)
              /\ ks.master_share \in {OwnShare(ks.target_version - 1), None}
<1> DEFINE t == config.target_version
           Fine(k) == /\ k.kind = "Active" => k.master_share = OwnShare(v)
                      /\ k.kind = "Rotation" =>
                           /\ k.next_master_share = OwnShare(k.target_version)
                           /\ k.master_share \in {OwnShare(k.target_version - 1), None}
<1>1. /\ v \in Nat /\ v <= MaxVersion /\ MaxVersion \in Nat /\ t \in Version /\ t \in Nat
      /\ \A w \in Version : env[w] \in {OwnShare(w), None}
  BY VersionBound DEF TypeOK, Version, CommitteeState, FiledByVersion
<1>2. ASSUME NEW s PROVE Active(s).kind = "Active" /\ Active(s).master_share = s
  BY DEF Active
<1>3. ASSUME NEW s, NEW n, NEW u
      PROVE  /\ Rotation(s, n, u).kind = "Rotation" /\ Rotation(s, n, u).master_share = s
             /\ Rotation(s, n, u).next_master_share = n /\ Rotation(s, n, u).target_version = u
  BY DEF Rotation
<1>4. \/ env[v] # None /\ ks = Active(env[v])
      \/ v < MaxVersion /\ env[v + 1] # None /\ ks = Rotation(None, env[v + 1], v + 1)
      \/ v = t /\ env[t] # None /\ ks = Active(env[t])
      \/ v = t - 1 /\ env[t] # None /\ ks = Rotation(env[v], env[t], t)
  BY DEF load
<1> HIDE DEF t
<1>5. CASE (env[v] # None /\ ks = Active(env[v])) \/ (v = t /\ env[t] # None /\ ks = Active(env[t]))
  BY <1>1, <1>2, <1>5
<1>6. CASE v < MaxVersion /\ env[v + 1] # None /\ ks = Rotation(None, env[v + 1], v + 1)
  <2>1. v + 1 \in Version
    BY <1>1, <1>6 DEF Version
  <2>2. env[v + 1] = OwnShare(v + 1)
    BY <1>1, <1>6, <2>1
  <2> QED BY <1>3, <1>6, <2>2
<1>7. CASE v = t - 1 /\ env[t] # None /\ ks = Rotation(env[v], env[t], t)
  <2>1. env[t] = OwnShare(t) /\ env[v] \in {OwnShare(t - 1), None}
    BY <1>1, <1>7
  <2> QED BY <1>3, <1>7, <2>1
<1> QED BY <1>4, <1>5, <1>6, <1>7

\* The shares of a running process stay, and so does what is filed.
LEMMA FiledStays ==
  ASSUME FiledInv, proc # "down" \/ proc' = "down", env' = env, key_state' = key_state,
         committee_version' = committee_version \/ key_state.kind = "Rotation"
  PROVE  FiledInv'
<1> SUFFICES ASSUME proc' # "down", FiledByVersion'
             PROVE  /\ key_state.kind = "Active" => key_state.master_share = OwnShare(committee_version')
                    /\ key_state.kind = "Rotation" =>
                         /\ key_state.next_master_share = OwnShare(key_state.target_version)
                         /\ key_state.master_share \in {OwnShare(key_state.target_version - 1), None}
  BY DEF FiledInv, OwnShare
<1>1. FiledByVersion
  BY DEF FiledByVersion, OwnShare
<1> QED BY <1>1 DEF FiledInv

LEMMA FiledPreserved == ServerInv /\ FiledInv /\ [Next]_vars => FiledInv'
<1> SUFFICES ASSUME ServerInv, FiledInv, [Next]_vars PROVE FiledInv'
  OBVIOUS
<1>1. CASE ProcessEnds
  BY <1>1 DEF ProcessEnds, FiledInv
<1>2. ASSUME NEW cfg \in CommitteeState, NEW e \in Environment, Reconfigure(cfg, e) PROVE FiledInv'
  BY <1>2 DEF Reconfigure, serverVars, FiledInv
<1>3. ASSUME NEW v \in Version, Start(v) PROVE FiledInv'
  <2>1. /\ load(config, v) # None /\ key_state' = load(config, v) /\ committee_version' = v
        /\ env' = env
    BY <1>3 DEF Start
  <2>2. TypeOK /\ (FiledByVersion' => FiledByVersion)
    BY <2>1 DEF ServerInv, FiledByVersion, OwnShare
  <2>3. FiledByVersion =>
          /\ key_state'.kind = "Active" => key_state'.master_share = OwnShare(v)
          /\ key_state'.kind = "Rotation" =>
               /\ key_state'.next_master_share = OwnShare(key_state'.target_version)
               /\ key_state'.master_share \in {OwnShare(key_state'.target_version - 1), None}
    BY <2>1, <2>2, LoadedByVersion
  <2> QED BY <2>1, <2>2, <2>3 DEF FiledInv, OwnShare
<1>4. ASSUME NEW v \in Version, ValidateRotated(v) PROVE FiledInv'
  <2>1. proc = "up" /\ key_state.kind = "Rotation"
    BY <1>4, MonitorUp DEF ValidateRotated
  <2>2. proc' = proc /\ env' = env /\ key_state' = key_state
    BY <1>4 DEF ValidateRotated
  <2> QED BY <2>1, <2>2, FiledStays
<1>5. CASE /\ proc # "down" \/ proc' = "down"
           /\ env' = env /\ key_state' = key_state /\ committee_version' = committee_version
  BY <1>5, FiledStays
<1>6. ASSUME NEW v \in Version, FetchPartial(v) \/ ValidateAtStart(v) PROVE FiledInv'
  BY <1>1, <1>5, <1>6 DEF FetchPartial, ValidateAtStart
<1>7. CASE FetchPartialFails \/ Exit \/ Kill \/ UpdaterSend
  BY <1>1, <1>5, <1>7 DEF FetchPartialFails, Exit, Kill, UpdaterSend, updaterFrame
<1>8. CASE Rotate \/ Warmed \/ MonitorWakes \/ UpdaterFetchFails \/ UpdaterTick \/ UNCHANGED vars
  BY <1>5, <1>8 DEF Rotate, Warmed, MonitorWakes, UpdaterFetchFails, UpdaterTick, vars, serverVars,
                    updaterFrame
<1>9. ASSUME NEW v \in Version, UpdaterFetch(v) PROVE FiledInv'
  BY <1>5, <1>9 DEF UpdaterFetch, updaterFrame
<1>10. ASSUME NEW r \in Request, has_key_for_package(r) \/ create_response(r) PROVE FiledInv'
  BY <1>5, <1>10 DEF has_key_for_package, create_response
<1> QED BY <1>2, <1>3, <1>4, <1>6, <1>7, <1>8, <1>9, <1>10 DEF Next, ValidationStep, UpdaterStep

\* The share the server answers with is of the version its counter says.
ServesOwn == Serving \in {committee_version, None}

LEMMA ServesItsVersion == ServerInv /\ FiledInv => ServesOwn
<1> SUFFICES ASSUME ServerInv, FiledInv, Serving # None PROVE Serving = committee_version
  BY DEF ServesOwn
<1>1. proc = "up" /\ FiledByVersion /\ CurrentShare # None /\ Serving = CurrentShare[1]
  BY DEF Serving
<1>2. /\ key_state \in KeyState /\ committee_version \in Version /\ committee_version \in Nat
      /\ key_state.target_version \in Nat
  BY VersionBound DEF ServerInv, TypeOK, KeyState, Version
<1>3. CASE key_state.kind = "Active"
  <2>1. CurrentShare = OwnShare(committee_version)
    BY <1>1, <1>2, <1>3, ShareAt DEF CurrentShare, FiledInv
  <2> QED BY <1>1, <2>1 DEF OwnShare
<1>4. CASE key_state.kind = "Rotation" /\ monitor = "done"
  <2>1. committee_version = key_state.target_version
    BY <1>4 DEF ServerInv, VersionInv
  <2>2. CurrentShare = OwnShare(committee_version)
    BY <1>1, <1>2, <1>4, <2>1, ShareAt DEF CurrentShare, FiledInv
  <2> QED BY <1>1, <2>2 DEF OwnShare
<1>5. CASE key_state.kind = "Rotation" /\ monitor # "done"
  <2>1. committee_version + 1 = key_state.target_version
    BY <1>5 DEF ServerInv, VersionInv
  <2>2. CurrentShare = key_state.master_share
    BY <1>2, <1>5, <2>1, ShareAt DEF CurrentShare
  <2>3. key_state.target_version - 1 = committee_version
    BY <1>2, <2>1
  <2>4. CurrentShare = OwnShare(committee_version)
    BY <1>1, <1>5, <2>2, <2>3 DEF FiledInv
  <2> QED BY <1>1, <2>4 DEF OwnShare
<1> QED BY <1>2, <1>3, <1>4, <1>5 DEF KeyState

LEMMA ServesItsVersionNext == ServerInv' /\ FiledInv' => ServesOwn'
BY ServesItsVersion, PTL

\* When the server serves depends on these only.
LEMMA SameServing ==
  ASSUME proc' = proc, env' = env, key_state' = key_state, committee_version' = committee_version
  PROVE  Serving' = Serving
<1>1. FiledByVersion' = FiledByVersion
  BY DEF FiledByVersion, OwnShare
<1>2. CurrentShare' = CurrentShare
  BY DEF CurrentShare
<1> QED BY <1>1, <1>2 DEF Serving

HolderStep == Holder!Next \/ (chain' = chain /\ Serving' = Serving)

\* The steps of ShareHolder, in these terms.
LEMMA HolderStarts ==
  ASSUME Serving = None, NEW v \in Version, v <= chain, Serving' = v, chain' = chain
  PROVE  HolderStep
<1>1. Holder!Start(v)
  BY DEF Holder!Start, Serving
<1>2. v \in 0..MaxVersion
  BY DEF Version
<1> QED BY <1>1, <1>2 DEF HolderStep, Holder!Next

LEMMA HolderSwitches ==
  ASSUME Serving # None, Serving + 1 <= chain, Serving' = Serving + 1, chain' = chain
  PROVE  HolderStep
<1>1. Holder!Switch
  BY DEF Holder!Switch, Serving
<1> QED BY <1>1 DEF HolderStep, Holder!Next

LEMMA HolderStops ==
  ASSUME ProcessEnds, chain' = chain
  PROVE  HolderStep
<1>1. Serving' = None
  BY DEF ProcessEnds, Serving
<1>2. CASE Serving = None
  BY <1>1, <1>2 DEF HolderStep
<1>3. CASE Serving # None
  <2>1. Holder!Stop
    BY <1>1, <1>3 DEF Holder!Stop, Serving
  <2> QED BY <2>1 DEF HolderStep, Holder!Next
<1> QED BY <1>2, <1>3

\* Whatever leaves the process, its shares and its version alone.
LEMMA HolderStays ==
  ASSUME chain' = chain, proc' = proc, env' = env, key_state' = key_state,
         committee_version' = committee_version
  PROVE  HolderStep
BY SameServing DEF HolderStep

\* The server comes up with the version it loaded.
LEMMA HolderComesUp ==
  ASSUME ServerInv, ServerInv', FiledInv', proc # "up", chain' = chain,
         committee_version' = committee_version
  PROVE  HolderStep
<1>1. Serving = None
  BY DEF Serving
<1>2. committee_version \in Version /\ committee_version <= chain
  BY DEF ServerInv, TypeOK, VersionInv
<1>3. Serving' = committee_version \/ Serving' = None
  BY ServesItsVersionNext DEF ServesOwn
<1>4. CASE Serving' = None
  BY <1>1, <1>4 DEF HolderStep
<1>5. CASE Serving' = committee_version
  BY <1>1, <1>2, <1>5, HolderStarts
<1> QED BY <1>3, <1>4, <1>5

\* The monitor's switch moves a server that holds both shares by one version, and starts one
\* that had no share of the version before.
LEMMA HolderSwitchOver ==
  ASSUME ServerInv, FiledInv, ServerInv', FiledInv', NEW v \in Version, ValidateRotated(v)
  PROVE  HolderStep
<1>1. monitor = "validating" /\ proc = "up" /\ key_state.kind = "Rotation"
  BY MonitorUp DEF ValidateRotated
<1>2. CASE ~Validated(key_state.next_master_share, reads[1], reads[2], v)
  BY <1>2, HolderStays DEF ValidateRotated
<1>3. CASE Validated(key_state.next_master_share, reads[1], reads[2], v)
  <2> DEFINE t == key_state.target_version
  <2>1. /\ chain' = chain /\ env' = env /\ key_state' = key_state /\ proc' = "up"
        /\ committee_version' = t
    BY <1>1, <1>3 DEF ValidateRotated
  <2>2. /\ key_state \in KeyState /\ t \in Version /\ t <= chain /\ committee_version \in Version
        /\ committee_version + 1 = t /\ key_state.next_master_share # None
    BY <1>1 DEF ServerInv, TypeOK, KeyState, VersionInv, ShareInv
  <2>3. CurrentShare' # None /\ FiledByVersion' = FiledByVersion
    <3>1. CurrentShare' = key_state.next_master_share
      BY <1>1, <2>1, <2>2, ShareAt DEF CurrentShare
    <3> QED BY <2>1, <2>2, <3>1 DEF FiledByVersion, OwnShare
  <2>4. Serving \in {committee_version, None} /\ Serving' \in {t, None}
    BY <2>1, ServesItsVersion, ServesItsVersionNext DEF ServesOwn
  <2>5. CASE Serving' = None
    <3>1. ~FiledByVersion
      <4>1. SUFFICES ASSUME FiledByVersion PROVE FALSE
        OBVIOUS
      <4>2. Serving' = t
        <5>1. Serving' = CurrentShare'[1]
          BY <2>1, <2>3, <4>1 DEF Serving
        <5>2. CurrentShare' = OwnShare(t)
          BY <1>1, <2>1, <2>2, <4>1, ShareAt DEF CurrentShare, FiledInv
        <5> QED BY <5>1, <5>2 DEF OwnShare
      <4> QED BY <2>2, <2>5, <4>2, NoneIsNot, VersionBound DEF Version
    <3>2. Serving = None
      BY <3>1 DEF Serving
    <3> QED BY <2>1, <2>5, <3>2 DEF HolderStep
  <2>6. CASE Serving' = t /\ Serving = None
    BY <2>1, <2>2, <2>6, HolderStarts
  <2>7. CASE Serving' = t /\ Serving = committee_version /\ Serving # None
    BY <2>1, <2>2, <2>7, HolderSwitches
  <2> QED BY <2>4, <2>5, <2>6, <2>7
<1> QED BY <1>2, <1>3

LEMMA NextImplements == ServerInv /\ FiledInv /\ [Next]_vars => HolderStep
<1> SUFFICES ASSUME ServerInv, FiledInv, [Next]_vars PROVE HolderStep
  OBVIOUS
<1>0. ServerInv' /\ FiledInv'
  BY NextPreserves, FiledPreserved
<1>1. CASE Rotate
  <2>1. Serving' = Serving
    BY <1>1, SameServing DEF Rotate, serverVars
  <2>2. Holder!Rotate
    BY <1>1, <2>1 DEF Rotate, Holder!Rotate, Serving
  <2> QED BY <2>2 DEF HolderStep, Holder!Next
<1>2. ASSUME NEW cfg \in CommitteeState, NEW e \in Environment, Reconfigure(cfg, e) PROVE HolderStep
  BY <1>2 DEF Reconfigure, serverVars, HolderStep, Serving
<1>3. ASSUME NEW v \in Version, Start(v) PROVE HolderStep
  BY <1>3 DEF Start, HolderStep, Serving
<1>4. ASSUME NEW v \in Version, FetchPartial(v) PROVE HolderStep
  BY <1>4, HolderStays DEF FetchPartial
<1>5. ASSUME NEW v \in Version, ValidateAtStart(v) PROVE HolderStep
  BY <1>0, <1>5, HolderComesUp, HolderStops DEF ValidateAtStart
<1>6. ASSUME NEW v \in Version, ValidateRotated(v) PROVE HolderStep
  BY <1>0, <1>6, HolderSwitchOver
<1>7. CASE FetchPartialFails
  BY <1>7, HolderStays, HolderStops DEF FetchPartialFails
<1>8. CASE UpdaterStep
  <2>1. UNCHANGED updaterFrame \/ (ProcessEnds /\ chain' = chain)
    BY <1>8 DEF UpdaterStep, UpdaterFetch, UpdaterFetchFails, UpdaterSend, UpdaterTick
  <2> QED BY <2>1, HolderStays, HolderStops DEF updaterFrame
<1>9. CASE Warmed
  BY <1>0, <1>9, HolderComesUp DEF Warmed
<1>10. CASE MonitorWakes
  BY <1>10, HolderStays DEF MonitorWakes
<1>11. CASE Exit \/ Kill
  BY <1>11, HolderStops DEF Exit, Kill
<1>12. ASSUME NEW r \in Request, has_key_for_package(r) \/ create_response(r) PROVE HolderStep
  BY <1>12, HolderStays DEF has_key_for_package, create_response
<1>13. CASE UNCHANGED vars
  BY <1>13, HolderStays DEF vars
<1> QED BY <1>1, <1>2, <1>3, <1>4, <1>5, <1>6, <1>7, <1>8, <1>9, <1>10, <1>11, <1>12, <1>13
        DEF Next, ValidationStep

\* A server whose shares are filed by version implements ShareHolder: through restarts, lagging
\* nodes, failures and the switch, the share it answers with is never of a version that is not
\* on chain, and while up it moves to the next version's only.  What FiledInv adds is that
\* MasterKeys::load gives each share the role of its own version, so that the unvalidated one
\* is of the version on chain.
THEOREM KeepsItsPromise == Spec => ServesAsPromised
<1>1. Init => Holder!Init
  BY DEF Init, Holder!Init, Serving
<1>2. Init => FiledInv
  BY DEF Init, FiledInv
<1>3. Spec => []FiledInv
  BY <1>2, FiledPreserved, ServerInvariant, PTL DEF Spec
<1>4. ServerInv /\ FiledInv /\ [Next]_vars => [Holder!Next]_<<chain, Serving>>
  BY NextImplements DEF HolderStep
<1> QED BY <1>1, <1>3, <1>4, ServerInvariant, PTL DEF Spec, ServesAsPromised, Holder!Spec

=============================================================================
