--------------------------- MODULE FetchKeyProofs ---------------------------
(***************************************************************************)
(* Proofs about FetchKey, for every choice of its constants: any number of *)
(* requests, any length of time, any changes of the chain.                 *)
(***************************************************************************)
EXTENDS FetchKey, TLAPS

-----------------------------------------------------------------------------
Control == {"idle", "package", "original", "mvr", "registry", "info", "certificate", "aliases",
            "signature", "policy", "simulating", "done"}

\* How a request ends without a verdict on the policy.
Errors == {"UnsupportedPackageId", "InvalidPackage", "InvalidMVRName", "InvalidCertificate",
           "InvalidSignature", "InvalidSessionSignature", "Failure", "InvalidParameter", "InvalidPTB"}

Outcome == Errors \cup {"keys", "NoAccess"}

RequestState ==
  [pc : Control, payload : Payload \cup {None}, arrived : Nat \cup {None}, first : Package \cup {None},
   info : PackageInfo \cup {None}, asked : Nat \cup {None}, attempts : Nat, outcome : Outcome \cup {None}]

CacheEntry == [value : Package, at : Nat] \cup {None}

\* The types of the variables.
TypeOK ==
  /\ setting \in Setting
  /\ now \in Nat
  /\ world \in [0..now -> World]
  /\ package_cache \in [Package -> CacheEntry]
  /\ mvr_cache \in [Name -> CacheEntry]
  /\ req \in [Request -> RequestState]

\* After the check of the certificate, and after the check of the name.
Certified == {"aliases", "signature", "policy", "simulating"}
Resolved == Certified \cup {"certificate"}

\* What a request knows at each place of its code.
KnownInv ==
  \A r \in Request :
    /\ req[r].pc # "idle" => req[r].payload \in Payload /\ req[r].arrived \in 0..now
    /\ req[r].pc \in {"mvr", "registry", "info"} \cup Resolved => req[r].first = First[req[r].payload.package]
    /\ req[r].pc \in {"registry", "info"} => req[r].payload.mvr_name \in ValidName
    /\ req[r].pc = "info" => req[r].info \in PackageInfo
    /\ req[r].pc = "simulating" => req[r].asked \in (req[r].arrived)..now

\* The server starts idle, with empty caches.
LEMMA TypeInit == Init => TypeOK /\ KnownInv
<1> SUFFICES ASSUME Init PROVE TypeOK /\ KnownInv
  OBVIOUS
<1>1. Idle \in RequestState
  BY DEF Idle, RequestState, Control
<1>2. world \in [0..now -> World]
  BY FetchTypes DEF Init
<1>3. TypeOK
  BY <1>1, <1>2 DEF Init, TypeOK, CacheEntry
<1> QED BY <1>3 DEF Init, KnownInv, Idle, Resolved, Certified

USE DEF CacheEntry

\* A request at another place of its code, with a number of attempts for a call, or ended.
At(q, pc, n) == [q EXCEPT !.pc = pc, !.attempts = n]
Over(q, o) == [q EXCEPT !.pc = "done", !.outcome = o]

Keeps(u, q) ==
  /\ u.payload = q.payload /\ u.arrived = q.arrived /\ u.first = q.first
  /\ u.info = q.info /\ u.asked = q.asked

LEMMA Intervals ==
  /\ \A x \in Nat : \A y \in 0..x : x \in y..x
  /\ \A x \in Nat : \A a : a..x \subseteq a..(x + 1)
  OBVIOUS

LEMMA Moved ==
  ASSUME NEW q \in RequestState, NEW pc \in Control, NEW n \in Nat
  PROVE  At(q, pc, n) \in RequestState /\ At(q, pc, n).pc = pc /\ Keeps(At(q, pc, n), q)
BY ZenonT(30) DEF RequestState, At, Keeps

LEMMA Ended ==
  ASSUME NEW q \in RequestState, NEW o \in Outcome
  PROVE  /\ Over(q, o) \in RequestState /\ Over(q, o).pc = "done" /\ Over(q, o).outcome = o
         /\ Keeps(Over(q, o), q)
BY ZenonT(30) DEF RequestState, Control, Over, Keeps

\* Only request r changes, to u.
Turns(r, u) == req' = [req EXCEPT ![r] = u]

LEMMA Turned ==
  ASSUME TypeOK, NEW r \in Request, NEW u \in RequestState, Turns(r, u)
  PROVE  /\ req' \in [Request -> RequestState]
         /\ req'[r] = u
         /\ \A s \in Request \ {r} : req'[s] = req[s]
BY DEF TypeOK, Turns


\* What a step of request r may make of it.
Effect(r, u) ==
  /\ req[r].pc # "idle" /\ u.pc # "idle"
  /\ u.payload = req[r].payload /\ u.arrived = req[r].arrived
  /\ u.pc = "mvr" => u.first = First[req[r].payload.package]
  /\ u.pc \in {"registry", "info"} => 
       /\ u.first = req[r].first /\ req[r].pc \in {"mvr", "registry", "info"}
       /\ req[r].payload.mvr_name \in ValidName
  /\ u.pc = "info" =>
       \/ req[r].pc = "info" /\ u.info = req[r].info
       \/ /\ req[r].pc = "registry" /\ u.info \in PackageInfo
          /\ \E t \in Readable : u.info = world[t].networks[req[r].payload.mvr_name]
          /\ setting.network = "Testnet"
  /\ u.pc \in Resolved =>
       /\ u.first = req[r].first
       /\ req[r].pc \in {"mvr", "registry", "info"} \cup Resolved
  /\ u.pc \in Certified => req[r].pc \in Certified \/ (req[r].pc = "certificate" /\ check_certificate(req[r].payload))
  /\ u.pc = "simulating" =>
       \/ req[r].pc = "policy" /\ u.asked = now
       \/ req[r].pc = "simulating" /\ u.asked = req[r].asked
  /\ u.pc = "done" /\ u.outcome \in {"keys", "NoAccess"} =>
       /\ req[r].pc = "simulating"
       /\ \E t \in 0..now : check_staleness(req[r].asked, t) /\ world[t].access = (u.outcome = "keys")

\* The steps that go on to another place, or end the request with an error.
LEMMA GoesOn ==
  ASSUME TypeOK, KnownInv, NEW r \in Request, req[r].pc # "idle",
         NEW pc \in Control, NEW n \in Nat,
         \/ req[r].pc = "package" /\ pc = "original"
         \/ req[r].pc = "mvr" /\ pc = "registry" /\ req[r].payload.mvr_name \in ValidName
         \/ req[r].pc \in {"mvr", "registry", "info"} /\ pc = "certificate"
         \/ req[r].pc = "certificate" /\ pc = "aliases" /\ check_certificate(req[r].payload)
         \/ req[r].pc = "aliases" /\ pc = "signature"
         \/ req[r].pc = "signature" /\ pc = "policy"
         \/ req[r].pc = pc /\ pc \in {"original", "registry", "info", "aliases", "signature", "simulating"}
  PROVE  At(req[r], pc, n) \in RequestState /\ Effect(r, At(req[r], pc, n))
<1> DEFINE u == At(req[r], pc, n)
<1>1. u \in RequestState /\ u.pc = pc /\ Keeps(u, req[r])
  BY Moved DEF TypeOK
<1> HIDE DEF u
<1>2. /\ req[r].pc \in {"registry", "info"} => req[r].payload.mvr_name \in ValidName
      /\ pc # "idle" /\ pc # "mvr" /\ pc # "done"
  BY DEF KnownInv
<1>3. pc \in {"registry", "info"} => /\ req[r].pc \in {"mvr", "registry", "info"}
                                     /\ req[r].payload.mvr_name \in ValidName
  BY <1>2
<1>4. pc = "info" => req[r].pc = "info"
  OBVIOUS
<1>5. pc \in Resolved => req[r].pc \in {"mvr", "registry", "info"} \cup Resolved
  BY DEF Resolved, Certified
<1>6. pc \in Certified => req[r].pc \in Certified \/ (req[r].pc = "certificate" /\ check_certificate(req[r].payload))
  BY DEF Certified
<1>7. pc = "simulating" => req[r].pc = "simulating"
  OBVIOUS
<1>8. u \in RequestState /\ Effect(r, u)
  BY <1>1, <1>2, <1>3, <1>4, <1>5, <1>6, <1>7 DEF Effect, Keeps
<1> QED BY <1>8 DEF u

LEMMA EndsBadly ==
  ASSUME TypeOK, NEW r \in Request, req[r].pc # "idle", NEW o \in Errors
  PROVE  Over(req[r], o) \in RequestState /\ Effect(r, Over(req[r], o))
<1> DEFINE u == Over(req[r], o)
<1>0. o \in Outcome /\ o \notin {"keys", "NoAccess"}
  BY DEF Errors, Outcome
<1>1. u \in RequestState /\ u.pc = "done" /\ u.outcome = o /\ Keeps(u, req[r])
  BY <1>0, Ended DEF TypeOK
<1> HIDE DEF u
<1>2. u \in RequestState /\ Effect(r, u)
  BY <1>0, <1>1 DEF Effect, Keeps, Resolved, Certified
<1> QED BY <1>2 DEF u

\* Goto, Call and Ends in these terms.
LEMMA Forms ==
  ASSUME NEW r, NEW pc, NEW o
  PROVE  /\ Goto(r, pc) => Turns(r, At(req[r], pc, 0))
         /\ Call(r, pc) => Turns(r, At(req[r], pc, max_retries))
         /\ Ends(r, o) => Turns(r, Over(req[r], o))
BY DEF Goto, Call, Ends, Turns, At, Over

Moves(r) == \E u \in RequestState : Turns(r, u) /\ Effect(r, u)

LEMMA GotoMoves ==
  ASSUME TypeOK, KnownInv, NEW r \in Request, req[r].pc # "idle", NEW pc \in Control,
         \/ req[r].pc \in {"mvr", "registry", "info"} /\ pc = "certificate"
         \/ req[r].pc = "aliases" /\ pc = "signature"
         \/ req[r].pc = "signature" /\ pc = "policy",
         Goto(r, pc)
  PROVE  Moves(r)
<1>1. 0 \in Nat
  OBVIOUS
<1>2. At(req[r], pc, 0) \in RequestState /\ Effect(r, At(req[r], pc, 0))
  BY <1>1, GoesOn
<1> QED BY <1>2, Forms DEF Moves

LEMMA CallMoves ==
  ASSUME TypeOK, KnownInv, NEW r \in Request, req[r].pc # "idle", NEW pc \in Control,
         \/ req[r].pc = "package" /\ pc = "original"
         \/ req[r].pc = "mvr" /\ pc = "registry" /\ req[r].payload.mvr_name \in ValidName
         \/ req[r].pc = "certificate" /\ pc = "aliases" /\ check_certificate(req[r].payload),
         Call(r, pc)
  PROVE  Moves(r)
<1>1. max_retries \in Nat
  BY Durations
<1>2. At(req[r], pc, max_retries) \in RequestState /\ Effect(r, At(req[r], pc, max_retries))
  BY <1>1, GoesOn
<1> QED BY <1>2, Forms DEF Moves

LEMMA EndsMoves ==
  ASSUME TypeOK, NEW r \in Request, req[r].pc # "idle", NEW o \in Errors,
         Ends(r, o)
  PROVE  Moves(r)
<1>2. Over(req[r], o) \in RequestState /\ Effect(r, Over(req[r], o))
  BY EndsBadly
<1> QED BY <1>2, Forms DEF Moves

\* The package cache holds first versions, which never change.
PackageCacheInv ==
  \A p \in Package : package_cache[p] # None => package_cache[p].value = First[p]

\* Whichever way a package was resolved, the request goes on with its first version or ends.
LEMMA SupportedMoves ==
  ASSUME TypeOK, NEW r \in Request, req[r].pc \in {"package", "original"},
         has_key_for_package(r, First[req[r].payload.package])
  PROVE  Moves(r)
<1> DEFINE p == First[req[r].payload.package]
           u == [req[r] EXCEPT !.pc = "mvr", !.first = p]
<1>0. req[r].pc # "idle"
  OBVIOUS
<1>1. CASE p \notin Supported
  <2>1. Ends(r, "UnsupportedPackageId")
    BY <1>1 DEF has_key_for_package
  <2>2. "UnsupportedPackageId" \in Errors
    BY DEF Errors
  <2> QED BY <1>0, <2>1, <2>2, EndsMoves
<1>2. CASE p \in Supported
  <2>1. p \in Package
    BY <1>2, FetchTypes
  <2>2. req[r] \in RequestState
    BY DEF TypeOK
  <2>3. /\ u \in RequestState /\ u.pc = "mvr" /\ u.first = p
        /\ u.payload = req[r].payload /\ u.arrived = req[r].arrived
    BY <2>1, <2>2, ZenonT(30) DEF RequestState, Control
  <2>4. Turns(r, u)
    BY <1>2 DEF has_key_for_package, Turns
  <2> HIDE DEF u
  <2>5. Effect(r, u)
    BY <2>3, <1>0 DEF Effect, Resolved, Certified
  <2> QED BY <2>3, <2>4, <2>5 DEF Moves
<1> QED BY <1>1, <1>2

LEMMA PackageMoves ==
  ASSUME TypeOK, KnownInv, PackageCacheInv, NEW r \in Request,
         fetch_first_pkg_id(r) \/ fetch_package_original_id(r)
  PROVE  /\ UNCHANGED <<setting, now, world, mvr_cache>>
         /\ Moves(r)
         /\ package_cache' \in [Package -> CacheEntry]
         /\ PackageCacheInv'
<1> DEFINE p == req[r].payload.package
<1>1. p \in Package /\ req[r].pc \in {"package", "original"} /\ req[r].pc # "idle"
  <2>1. req[r].pc \in {"package", "original"}
    BY DEF fetch_first_pkg_id, fetch_package_original_id
  <2>2. req[r].payload \in Payload
    BY <2>1 DEF KnownInv
  <2> QED BY <2>1, <2>2, FetchTypes
<1>2. CASE fetch_first_pkg_id(r)
  <2>1. UNCHANGED <<setting, now, world, package_cache, mvr_cache>>
    BY <1>2 DEF fetch_first_pkg_id
  <2>2. Moves(r)
    <3>1. CASE package_cache[p] = None
      <4>1. Call(r, "original") /\ req[r].pc = "package"
        BY <1>2, <3>1 DEF fetch_first_pkg_id, cached
      <4>2. "original" \in Control
        BY DEF Control
      <4> QED BY <1>1, <4>1, <4>2, CallMoves
    <3>2. CASE package_cache[p] # None
      <4>1. package_cache[p] \in [value : Package, at : Nat]
        BY <1>1, <3>2 DEF TypeOK
      <4>2. cached(package_cache, p) = First[p] /\ First[p] # None
        BY <1>1, <3>2, <4>1, FetchTypes DEF cached, PackageCacheInv
      <4>3. has_key_for_package(r, First[p])
        BY <1>2, <4>2 DEF fetch_first_pkg_id
      <4> QED BY <1>1, <4>3, SupportedMoves
    <3> QED BY <3>1, <3>2
  <2> QED BY <2>1, <2>2 DEF TypeOK, PackageCacheInv
<1>3. CASE fetch_package_original_id(r)
  <2>0. UNCHANGED <<setting, now, world, mvr_cache>>
    BY <1>3 DEF fetch_package_original_id
  <2>1. CASE First[p] = None
    <3>1. Ends(r, "InvalidPackage") /\ package_cache' = package_cache
      BY <1>3, <2>1 DEF fetch_package_original_id
    <3>2. "InvalidPackage" \in Errors
      BY DEF Errors
    <3>3. Moves(r)
      BY <1>1, <3>1, <3>2, EndsMoves, Zenon
    <3> QED BY <2>0, <3>1, <3>3 DEF TypeOK, PackageCacheInv
  <2>2. CASE First[p] # None
    <3>1. /\ package_cache' = [package_cache EXCEPT ![p] = [value |-> First[p], at |-> now]]
          /\ has_key_for_package(r, First[p])
      BY <1>3, <2>2 DEF fetch_package_original_id
    <3>2. First[p] \in Package
      BY <1>1, <2>2, FetchTypes
    <3>3. package_cache' \in [Package -> CacheEntry]
      BY <1>1, <3>1, <3>2 DEF TypeOK
    <3>4. PackageCacheInv'
      <4>1. package_cache'[p] = [value |-> First[p], at |-> now]
        BY <1>1, <3>1 DEF TypeOK
      <4>2. \A q \in Package \ {p} : package_cache'[q] = package_cache[q]
        BY <1>1, <3>1 DEF TypeOK
      <4> QED BY <4>1, <4>2 DEF PackageCacheInv
    <3> QED BY <1>1, <2>0, <3>1, <3>3, <3>4, SupportedMoves, Zenon
  <2> QED BY <2>1, <2>2
<1> QED BY <1>2, <1>3

\* A cached name was bound to its package when it was read, which is at most CacheTtl ago.
MvrCacheInv ==
  \A n \in Name : mvr_cache[n] # None =>
    /\ mvr_cache[n].at <= now /\ now <= mvr_cache[n].at + CacheTtl
    /\ \E t \in 0..now : mvr_cache[n].at <= t + Lag /\ Bound(t, n, mvr_cache[n].value)

\* A request that reads an object of testnet got it from the record of the name.
InfoInv ==
  \A r \in Request : req[r].pc = "info" =>
    /\ setting.network = "Testnet"
    /\ \E s \in 0..now : world[s].networks[req[r].payload.mvr_name] = req[r].info

\* The name of a request was bound to its package not long before.
NameKnown(r) ==
  \E t \in 0..now : /\ t >= req[r].arrived - (CacheTtl + Lag)
                    /\ Bound(t, req[r].payload.mvr_name, First[req[r].payload.package])

NameInv ==
  \A r \in Request :
    (req[r].pc \in Resolved \/ Got(r, "keys")) /\ req[r].payload.mvr_name # None => NameKnown(r)

LEMMA PointsMoves ==
  ASSUME TypeOK, KnownInv, NEW r \in Request, req[r].pc \in {"mvr", "registry", "info"},
         NEW package, PointsToFirst(r, package)
  PROVE  Moves(r) /\ (req'[r].pc = "certificate" => package = First[req[r].payload.package])
<1>0. req[r].pc # "idle" /\ req[r] \in RequestState
  BY DEF TypeOK
<1>1. CASE package = req[r].first
  <2>1. Goto(r, "certificate")
    BY <1>1 DEF PointsToFirst
  <2>2. "certificate" \in Control
    BY DEF Control
  <2>3. package = First[req[r].payload.package]
    BY <1>1 DEF KnownInv
  <2> QED BY <1>0, <2>1, <2>2, <2>3, GotoMoves
<1>2. CASE package # req[r].first
  <2>1. Ends(r, "InvalidMVRName")
    BY <1>2 DEF PointsToFirst
  <2>2. "InvalidMVRName" \in Errors
    BY DEF Errors
  <2>3. "InvalidMVRName" \in Outcome
    BY DEF Errors, Outcome
  <2>4. Over(req[r], "InvalidMVRName") \in RequestState /\ Over(req[r], "InvalidMVRName").pc = "done"
    BY <1>0, <2>3, Ended
  <2>5. Turns(r, Over(req[r], "InvalidMVRName"))
    BY <2>1, Forms
  <2>6. req'[r].pc = "done"
    BY <2>4, <2>5, Turned
  <2> QED BY <1>0, <2>1, <2>2, <2>6, EndsMoves
<1> QED BY <1>1, <1>2

LEMMA InsertMoves ==
  ASSUME TypeOK, KnownInv, MvrCacheInv, NEW r \in Request, req[r].pc \in {"registry", "info"},
         NEW package \in Package, insert_mvr_cache(r, package),
         UNCHANGED <<setting, now, world>>,
         \E t \in Readable : Bound(t, req[r].payload.mvr_name, package)
  PROVE  /\ Moves(r) /\ (req'[r].pc = "certificate" => NameKnown(r))
         /\ mvr_cache' \in [Name -> CacheEntry] /\ MvrCacheInv'
<1> DEFINE n == req[r].payload.mvr_name
<1>1. n \in Name /\ req[r].arrived \in 0..now /\ now \in Nat /\ Lag \in Nat /\ CacheTtl \in Nat
  BY FetchTypes, Durations DEF KnownInv, TypeOK
<1>2. /\ Moves(r)
      /\ req'[r].pc = "certificate" => package = First[req[r].payload.package]
  BY PointsMoves DEF insert_mvr_cache
<1>3. PICK t \in 0..now : now <= t + Lag /\ Bound(t, n, package)
  BY DEF Readable
<1>4. req'[r].pc = "certificate" => NameKnown(r)
  BY <1>1, <1>2, <1>3 DEF NameKnown
<1>5. mvr_cache' = [mvr_cache EXCEPT ![n] = [value |-> package, at |-> now]]
  BY DEF insert_mvr_cache
<1>6. mvr_cache' \in [Name -> CacheEntry]
  BY <1>1, <1>5 DEF TypeOK
<1>7. ASSUME NEW m \in Name, mvr_cache'[m] # None
      PROVE  /\ mvr_cache'[m].at <= now /\ now <= mvr_cache'[m].at + CacheTtl
             /\ \E s \in 0..now : mvr_cache'[m].at <= s + Lag /\ Bound(s, m, mvr_cache'[m].value)
  <2>1. CASE m = n
    <3>1. mvr_cache'[m] = [value |-> package, at |-> now]
      BY <1>1, <1>5, <2>1 DEF TypeOK
    <3> QED BY <1>1, <1>3, <2>1, <3>1
  <2>2. CASE m # n
    <3>1. mvr_cache'[m] = mvr_cache[m]
      BY <1>1, <1>5, <2>2 DEF TypeOK
    <3> QED BY <1>7, <3>1 DEF MvrCacheInv
  <2> QED BY <2>1, <2>2
<1>8. \A s, m, p : Bound(s, m, p)' <=> Bound(s, m, p)
  BY DEF Bound
<1>9. MvrCacheInv'
  BY <1>7, <1>8 DEF MvrCacheInv
<1> QED BY <1>2, <1>4, <1>6, <1>9

\* What every step does to time, to one request and to the cache of names.
MvrStep(r) ==
  /\ UNCHANGED <<setting, now, world, package_cache>>
  /\ Moves(r)
  /\ req'[r].pc = "certificate" /\ req[r].payload.mvr_name # None => NameKnown(r)
  /\ mvr_cache' \in [Name -> CacheEntry] /\ MvrCacheInv'

\* Nothing but the request changes.
LEMMA CacheStays ==
  ASSUME TypeOK, MvrCacheInv, NEW r \in Request, Moves(r),
         UNCHANGED <<setting, now, world, package_cache, mvr_cache>>,
         req'[r].pc = "certificate" /\ req[r].payload.mvr_name # None => NameKnown(r)
  PROVE  MvrStep(r)
<1>1. mvr_cache' \in [Name -> CacheEntry]
  BY DEF TypeOK
<1>2. \A s, m, p : Bound(s, m, p)' <=> Bound(s, m, p)
  BY DEF Bound
<1>3. MvrCacheInv'
  BY <1>2 DEF MvrCacheInv
<1> QED BY <1>1, <1>3 DEF MvrStep

\* An error ends the request, so that it does not go on to the certificate.
LEMMA ErrorMoves ==
  ASSUME TypeOK, NEW r \in Request, req[r].pc # "idle", NEW o \in Errors, Ends(r, o)
  PROVE  Moves(r) /\ req'[r].pc = "done"
<1>1. Moves(r)
  BY EndsMoves
<1>2. o \in Outcome /\ req[r] \in RequestState
  BY DEF Outcome, TypeOK
<1>3. Over(req[r], o) \in RequestState /\ Over(req[r], o).pc = "done"
  BY <1>2, Ended
<1>4. Turns(r, Over(req[r], o))
  BY Forms
<1> QED BY <1>1, <1>3, <1>4, Turned

LEMMA CheckName ==
  ASSUME TypeOK, KnownInv, MvrCacheInv, NEW r \in Request, check_mvr_package_id(r)
  PROVE  MvrStep(r)
<1> DEFINE n == req[r].payload.mvr_name
           hit == cached(mvr_cache, n)
<1>1. /\ req[r].pc = "mvr" /\ req[r].pc # "idle" /\ n \in Name \cup {None}
      /\ req[r].arrived \in 0..now /\ now \in Nat /\ Lag \in Nat /\ CacheTtl \in Nat
      /\ UNCHANGED <<setting, now, world, package_cache, mvr_cache>>
  BY FetchTypes, Durations DEF KnownInv, TypeOK, check_mvr_package_id
<1>2. CASE n = None
  <2>1. Goto(r, "certificate")
    BY <1>2 DEF check_mvr_package_id
  <2>2. "certificate" \in Control
    BY DEF Control
  <2>3. Moves(r)
    BY <1>1, <2>1, <2>2, GotoMoves
  <2> QED BY <1>1, <1>2, <2>3, CacheStays
<1>3. CASE n # None /\ hit # None
  <2>1. PointsToFirst(r, hit)
    BY <1>3 DEF check_mvr_package_id
  <2>2. Moves(r) /\ (req'[r].pc = "certificate" => hit = First[req[r].payload.package])
    BY <1>1, <2>1, PointsMoves
  <2>3. n \in Name /\ mvr_cache[n] # None /\ hit = mvr_cache[n].value
    BY <1>1, <1>3 DEF cached
  <2>4. mvr_cache[n].at \in Nat
    BY <2>3 DEF TypeOK
  <2>5. /\ now <= mvr_cache[n].at + CacheTtl
        /\ \E t \in 0..now : mvr_cache[n].at <= t + Lag /\ Bound(t, n, hit)
    BY <2>3 DEF MvrCacheInv
  <2>6. PICK t \in 0..now : mvr_cache[n].at <= t + Lag /\ Bound(t, n, hit)
    BY <2>5
  <2>7. \A x, y, z, w, v \in Nat : x <= y /\ y <= z + w /\ z <= t + v => t >= x - (w + v)
    OBVIOUS
  <2>8. t >= req[r].arrived - (CacheTtl + Lag)
    <3>1. req[r].arrived \in Nat /\ req[r].arrived <= now
      BY <1>1
    <3> HIDE DEF n, hit
    <3> QED BY <1>1, <2>4, <2>5, <2>6, <2>7, <3>1
  <2>9. req'[r].pc = "certificate" => NameKnown(r)
    BY <2>2, <2>6, <2>8 DEF NameKnown
  <2> QED BY <1>1, <2>2, <2>9, CacheStays
<1>4. CASE n # None /\ hit = None
  <2>1. CASE setting.network \notin {"Mainnet", "Testnet"}
    <3>1. Ends(r, "Failure")
      BY <1>4, <2>1 DEF check_mvr_package_id
    <3>2. "Failure" \in Errors
      BY DEF Errors
    <3>3. Moves(r) /\ req'[r].pc = "done"
      BY <1>1, <3>1, <3>2, ErrorMoves, Zenon
    <3> QED BY <1>1, <3>3, CacheStays
  <2>2. CASE setting.network \in {"Mainnet", "Testnet"} /\ n \notin ValidName
    <3>1. Ends(r, "InvalidMVRName")
      BY <1>4, <2>2 DEF check_mvr_package_id
    <3>2. "InvalidMVRName" \in Errors
      BY DEF Errors
    <3>3. Moves(r) /\ req'[r].pc = "done"
      BY <1>1, <3>1, <3>2, ErrorMoves
    <3> QED BY <1>1, <3>3, CacheStays
  <2>3. CASE setting.network \in {"Mainnet", "Testnet"} /\ n \in ValidName
    <3>1. Call(r, "registry")
      BY <1>4, <2>3 DEF check_mvr_package_id
    <3>2. "registry" \in Control /\ max_retries \in Nat /\ req[r] \in RequestState
      BY Durations DEF Control, TypeOK
    <3>3. Moves(r)
      BY <1>1, <2>3, <3>1, <3>2, CallMoves
    <3>4. /\ At(req[r], "registry", max_retries) \in RequestState
          /\ At(req[r], "registry", max_retries).pc = "registry"
      BY <3>2, Moved
    <3>5. Turns(r, At(req[r], "registry", max_retries))
      BY <3>1, Forms
    <3>6. req'[r].pc = "registry"
      BY <3>4, <3>5, Turned, ZenonT(30)
    <3> QED BY <1>1, <3>3, <3>6, CacheStays, Zenon
  <2> QED BY <2>1, <2>2, <2>3
<1> QED BY <1>2, <1>3, <1>4, Zenon

LEMMA ReadRecord ==
  ASSUME TypeOK, KnownInv, MvrCacheInv, NEW r \in Request, get_from_mvr_registry(r)
  PROVE  MvrStep(r)
<1> DEFINE n == req[r].payload.mvr_name
           Found(t) == IF setting.network = "Mainnet" THEN world[t].app_info[n] ELSE world[t].networks[n]
<1>1. /\ req[r].pc = "registry" /\ req[r].pc # "idle" /\ n \in ValidName
      /\ UNCHANGED <<setting, now, world, package_cache>>
  BY ZenonT(40) DEF KnownInv, get_from_mvr_registry
<1>2. PICK t \in Readable :
        \/ Found(t) = None /\ Ends(r, "InvalidMVRName") /\ UNCHANGED mvr_cache
        \/ Found(t) # None /\ setting.network = "Mainnet" /\ insert_mvr_cache(r, Found(t))
        \/ /\ Found(t) # None /\ setting.network = "Testnet"
           /\ req' = [req EXCEPT ![r] = [@ EXCEPT !.pc = "info", !.info = Found(t), !.attempts = max_retries]]
           /\ UNCHANGED mvr_cache
  BY ZenonT(30) DEF get_from_mvr_registry
<1>3. t \in 0..now /\ world[t] \in World
  BY DEF Readable, TypeOK
<1>4. CASE Ends(r, "InvalidMVRName") /\ UNCHANGED mvr_cache
  <2>1. "InvalidMVRName" \in Errors
    BY DEF Errors
  <2>2. Moves(r) /\ req'[r].pc = "done"
    BY <1>1, <1>4, <2>1, ErrorMoves
  <2> QED BY <1>1, <1>4, <2>2, CacheStays
<1>5. CASE Found(t) # None /\ setting.network = "Mainnet" /\ insert_mvr_cache(r, Found(t))
  <2>1. Found(t) = world[t].app_info[n]
    BY <1>5, Zenon
  <2>2. Found(t) \in Package
    BY <1>1, <1>3, <1>5, <2>1, Zenon DEF World
  <2>3. Bound(t, n, Found(t))
    BY <1>5, <2>1 DEF Bound
  <2> HIDE DEF Found
  <2>4. /\ Moves(r) /\ (req'[r].pc = "certificate" => NameKnown(r))
        /\ mvr_cache' \in [Name -> CacheEntry] /\ MvrCacheInv'
    BY <1>1, <1>2, <1>5, <2>2, <2>3, InsertMoves
  <2> QED BY <1>1, <2>4, Zenon DEF MvrStep
<1>6. CASE /\ Found(t) # None /\ setting.network = "Testnet"
           /\ req' = [req EXCEPT ![r] = [@ EXCEPT !.pc = "info", !.info = Found(t), !.attempts = max_retries]]
           /\ UNCHANGED mvr_cache
  <2>1. Found(t) = world[t].networks[n]
    BY <1>6
  <2>2. Found(t) \in PackageInfo
    BY <1>1, <1>3, <1>6, <2>1 DEF World
  <2> DEFINE u == [req[r] EXCEPT !.pc = "info", !.info = Found(t), !.attempts = max_retries]
  <2>3. Turns(r, u)
    BY <1>6 DEF Turns
  <2> HIDE DEF Found
  <2>4. /\ u \in RequestState /\ u.pc = "info" /\ u.info = Found(t) /\ u.first = req[r].first
        /\ u.payload = req[r].payload /\ u.arrived = req[r].arrived
    <3>1. req[r] \in RequestState /\ max_retries \in Nat
      BY Durations DEF TypeOK
    <3> QED BY <2>2, <3>1, ZenonT(30) DEF RequestState, Control
  <2> HIDE DEF u
  <2>5. Effect(r, u)
    BY <1>1, <1>2, <1>6, <2>1, <2>2, <2>4, ZenonT(30) DEF Effect, Resolved, Certified
  <2>6. Moves(r) /\ req'[r].pc = "info"
    BY <2>3, <2>4, <2>5, Turned DEF Moves
  <2> QED BY <1>1, <1>6, <2>6, CacheStays
<1> QED BY <1>2, <1>4, <1>5, <1>6

LEMMA ReadObject ==
  ASSUME TypeOK, KnownInv, MvrCacheInv, InfoInv, NEW r \in Request, mvr_forward_resolution(r)
  PROVE  MvrStep(r)
<1> DEFINE n == req[r].payload.mvr_name
           i == req[r].info
           e(t) == IF world[t].default[i] = None THEN "Failure" ELSE "InvalidMVRName"
<1>1. /\ req[r].pc = "info" /\ req[r].pc # "idle" /\ i \in PackageInfo
      /\ UNCHANGED <<setting, now, world, package_cache>>
  BY DEF KnownInv, mvr_forward_resolution
<1>2. PICK t \in Readable : IF world[t].default[i] = n THEN insert_mvr_cache(r, package_address[i])
                            ELSE Ends(r, e(t)) /\ UNCHANGED mvr_cache
  BY DEF mvr_forward_resolution
<1>3. CASE world[t].default[i] = n
  <2>1. insert_mvr_cache(r, package_address[i])
    BY <1>2, <1>3
  <2>2. package_address[i] \in Package
    BY <1>1, FetchTypes
  <2>3. setting.network # "Mainnet" /\ \E s \in 0..now : world[s].networks[n] = i
    BY <1>1, Zenon DEF InfoInv
  <2>4. Bound(t, n, package_address[i])
    BY <1>1, <1>3, <2>3, Zenon DEF Bound
  <2>5. /\ Moves(r) /\ (req'[r].pc = "certificate" => NameKnown(r))
        /\ mvr_cache' \in [Name -> CacheEntry] /\ MvrCacheInv'
    BY <1>1, <1>2, <2>1, <2>2, <2>4, InsertMoves, Zenon
  <2> QED BY <1>1, <2>5 DEF MvrStep
<1>4. CASE world[t].default[i] # n
  <2>1. e(t) \in Errors
    BY Zenon DEF Errors
  <2>2. Ends(r, e(t)) /\ UNCHANGED mvr_cache
    BY <1>2, <1>4
  <2> HIDE DEF e
  <2>3. Moves(r) /\ req'[r].pc = "done"
    BY <1>1, <2>1, <2>2, ErrorMoves, Zenon
  <2> QED BY <1>1, <2>2, <2>3, CacheStays
<1> QED BY <1>3, <1>4, Zenon

\* A step that goes to a place other than the check of the certificate.
LEMMA MovesOn ==
  ASSUME TypeOK, KnownInv, MvrCacheInv, NEW r \in Request, NEW pc \in Control, NEW n \in Nat,
         req[r].pc # "idle", pc # "certificate", Turns(r, At(req[r], pc, n)),
         \/ req[r].pc = "certificate" /\ pc = "aliases" /\ check_certificate(req[r].payload)
         \/ req[r].pc = "aliases" /\ pc = "signature"
         \/ req[r].pc = "signature" /\ pc = "policy"
         \/ req[r].pc = pc /\ pc \in {"original", "registry", "info", "aliases", "signature", "simulating"},
         UNCHANGED <<setting, now, world, package_cache, mvr_cache>>
  PROVE  MvrStep(r)
<1>1. At(req[r], pc, n) \in RequestState /\ Effect(r, At(req[r], pc, n))
  BY GoesOn
<1>2. At(req[r], pc, n).pc = pc
  BY Moved DEF TypeOK
<1>3. Moves(r) /\ req'[r].pc = pc
  BY <1>1, <1>2, Turned DEF Moves
<1> QED BY <1>3, CacheStays, Zenon

LEMMA MovesToError ==
  ASSUME TypeOK, MvrCacheInv, NEW r \in Request, req[r].pc # "idle", NEW o \in Errors, Ends(r, o),
         UNCHANGED <<setting, now, world, package_cache, mvr_cache>>
  PROVE  MvrStep(r)
<1>1. Moves(r) /\ req'[r].pc = "done"
  BY ErrorMoves
<1> QED BY <1>1, CacheStays

LEMMA CertificateMoves ==
  ASSUME TypeOK, KnownInv, MvrCacheInv, NEW r \in Request,
         CheckTimes(r) \/ has_address_aliases(r) \/ CheckSignatures(r)
  PROVE  MvrStep(r)
<1>0. /\ UNCHANGED <<setting, now, world, package_cache, mvr_cache>>
      /\ req[r].pc \in {"certificate", "aliases", "signature"} /\ req[r].pc # "idle"
  BY DEF CheckTimes, has_address_aliases, CheckSignatures
<1>1. /\ "aliases" \in Control /\ "signature" \in Control /\ "policy" \in Control
      /\ 0 \in Nat /\ max_retries \in Nat
  BY Durations DEF Control
<1>2. /\ "InvalidCertificate" \in Errors /\ "InvalidSignature" \in Errors
      /\ "InvalidSessionSignature" \in Errors
  BY DEF Errors
<1>3. CASE CheckTimes(r)
  <2>1. CASE check_certificate(req[r].payload)
    <3>1. Call(r, "aliases") /\ req[r].pc = "certificate"
      BY <1>3, <2>1 DEF CheckTimes
    <3>2. Turns(r, At(req[r], "aliases", max_retries))
      BY <3>1, Forms, Zenon
    <3> QED BY <1>0, <1>1, <2>1, <3>1, <3>2, MovesOn
  <2>2. CASE ~check_certificate(req[r].payload)
    <3>1. Ends(r, "InvalidCertificate")
      BY <1>3, <2>2 DEF CheckTimes
    <3> QED BY <1>0, <1>2, <3>1, MovesToError
  <2> QED BY <2>1, <2>2, Zenon
<1>4. CASE has_address_aliases(r)
  <2>1. Ends(r, "InvalidSignature") \/ Goto(r, "signature")
    BY <1>4 DEF has_address_aliases
  <2>2. CASE Ends(r, "InvalidSignature")
    BY <1>0, <1>2, <2>2, MovesToError
  <2>3. CASE Goto(r, "signature")
    <3>1. req[r].pc = "aliases" /\ Turns(r, At(req[r], "signature", 0))
      BY <1>4, <2>3, Forms DEF has_address_aliases
    <3> QED BY <1>0, <1>1, <3>1, MovesOn
  <2> QED BY <2>1, <2>2, <2>3
<1>5. CASE CheckSignatures(r)
  <2>1. Ends(r, "InvalidSignature") \/ Ends(r, "InvalidSessionSignature") \/ Goto(r, "policy")
    BY <1>5 DEF CheckSignatures
  <2>2. CASE Ends(r, "InvalidSignature")
    BY <1>0, <1>2, <2>2, MovesToError
  <2>3. CASE Ends(r, "InvalidSessionSignature")
    BY <1>0, <1>2, <2>3, MovesToError
  <2>4. CASE Goto(r, "policy")
    <3>1. req[r].pc = "signature" /\ Turns(r, At(req[r], "policy", 0))
      BY <1>5, <2>4, Forms DEF CheckSignatures
    <3> QED BY <1>0, <1>1, <3>1, MovesOn, Zenon
  <2> QED BY <2>1, <2>2, <2>3, <2>4
<1> QED BY <1>3, <1>4, <1>5

LEMMA SimulationMoves ==
  ASSUME TypeOK, KnownInv, MvrCacheInv, NEW r \in Request, SendSimulation(r) \/ SimulationEnds(r)
  PROVE  MvrStep(r)
<1>0. /\ UNCHANGED <<setting, now, world, package_cache, mvr_cache>>
      /\ req[r].pc \in {"policy", "simulating"} /\ req[r].pc # "idle"
      /\ req[r] \in RequestState
  BY Zenon DEF SendSimulation, SimulationEnds, TypeOK
<1>1. CASE SendSimulation(r)
  <2> DEFINE u == [req[r] EXCEPT !.pc = "simulating", !.asked = now, !.attempts = max_retries]
  <2>1. Turns(r, u) /\ req[r].pc = "policy"
    BY <1>1 DEF SendSimulation, Turns
  <2>2. /\ u \in RequestState /\ u.pc = "simulating" /\ u.asked = now /\ u.first = req[r].first
        /\ u.payload = req[r].payload /\ u.arrived = req[r].arrived
    <3>1. now \in Nat /\ max_retries \in Nat
      BY Durations DEF TypeOK
    <3> QED BY <1>0, <3>1, ZenonT(30) DEF RequestState, Control
  <2> HIDE DEF u
  <2>3. Effect(r, u)
    BY <1>0, <2>1, <2>2, Zenon DEF Effect, Resolved, Certified
  <2>4. Moves(r) /\ req'[r].pc = "simulating"
    BY <2>1, <2>2, <2>3, Turned DEF Moves
  <2> QED BY <1>0, <2>4, CacheStays
<1>2. CASE SimulationEnds(r)
  <2>1. PICK t \in 0..now :
          IF ~check_staleness(req[r].asked, t) THEN Ends(r, "Failure")
          ELSE IF world[t].access THEN Ends(r, "keys") ELSE Ends(r, "NoAccess")
    BY <1>2 DEF SimulationEnds
  <2>2. CASE ~check_staleness(req[r].asked, t)
    <3>1. Ends(r, "Failure")
      BY <2>1, <2>2
    <3>2. "Failure" \in Errors
      BY DEF Errors
    <3> QED BY <1>0, <3>1, <3>2, MovesToError
  <2>3. CASE check_staleness(req[r].asked, t)
    <3> DEFINE o == IF world[t].access THEN "keys" ELSE "NoAccess"
               u == Over(req[r], o)
    <3>1. Ends(r, o)
      BY <2>1, <2>3
    <3>2. o \in Outcome
      BY DEF Outcome
    <3>3. world[t].access = (o = "keys")
      <4>1. world[t].access \in BOOLEAN
        BY DEF TypeOK, World
      <4> QED BY <4>1
    <3> HIDE DEF o
    <3>4. u \in RequestState /\ u.pc = "done" /\ u.outcome = o /\ Keeps(u, req[r])
      BY <1>0, <3>2, Ended
    <3>5. Turns(r, u)
      BY <3>1, Forms
    <3>6. req[r].pc = "simulating"
      BY <1>2 DEF SimulationEnds
    <3>7. Effect(r, u)
      BY <2>1, <2>3, <3>3, <3>4, <3>6, ZenonT(30) DEF Effect, Keeps, Resolved, Certified
    <3>8. Moves(r) /\ req'[r].pc = "done"
      BY <3>4, <3>5, <3>7, Turned DEF Moves
    <3> QED BY <1>0, <3>8, CacheStays
  <2> QED BY <2>2, <2>3
<1> QED BY <1>1, <1>2

LEMMA FailureMoves ==
  ASSUME TypeOK, KnownInv, MvrCacheInv, NEW r \in Request, CallFails(r) \/ RetriableError(r)
  PROVE  MvrStep(r)
<1>0. /\ UNCHANGED <<setting, now, world, package_cache, mvr_cache>>
      /\ req[r].pc \in {"original", "registry", "info", "aliases", "signature", "simulating"}
      /\ req[r].pc # "idle" /\ req[r].pc # "certificate"
  BY DEF CallFails, RetriableError, Calling
<1>1. CASE CallFails(r)
  <2>1. PICK e \in Reported(req[r].pc) : Ends(r, e)
    BY <1>1 DEF CallFails
  <2>2. e \in Errors
    BY <1>0, <2>1, Zenon DEF Reported, Errors
  <2> QED BY <1>0, <2>1, <2>2, MovesToError
<1>2. CASE RetriableError(r)
  <2> DEFINE n == req[r].attempts - 1
  <2>1. req[r] \in RequestState /\ req[r].attempts > 1
    BY <1>2 DEF TypeOK, RetriableError
  <2>2. n \in Nat /\ req[r].pc \in Control
    BY <2>1 DEF RequestState
  <2>3. [req[r] EXCEPT !.attempts = n] = At(req[r], req[r].pc, n)
    BY <2>1, ZenonT(30) DEF At, RequestState
  <2>4. Turns(r, [req[r] EXCEPT !.attempts = n])
    BY <1>2 DEF RetriableError, Turns
  <2>5. Turns(r, At(req[r], req[r].pc, n))
    BY <2>3, <2>4
  <2> QED BY <1>0, <2>2, <2>5, MovesOn
<1> QED BY <1>1, <1>2

-----------------------------------------------------------------------------
\* The certificate of a request was valid at a moment since the request came in.
Session(r) ==
  \E t \in (req[r].arrived)..now :
    LET age == t - req[r].payload.creation_time
    IN  /\ age >= 0
        /\ age <= session_key_ttl_max
        /\ age <= req[r].payload.ttl_min * Minute

SessionInv ==
  \A r \in Request : req[r].pc \in Certified \/ Got(r, "keys") => Session(r)

\* What holds of every request, and the whole inductive invariant.
RequestInv == KnownInv /\ InfoInv /\ NameInv /\ SessionInv /\ VerdictFresh
Inv == TypeOK /\ PackageCacheInv /\ MvrCacheInv /\ RequestInv

\* The product in u16 is at most the product, so a certificate that passes was valid by its
\* own lifetime too.
LEMMA CertificateValid ==
  ASSUME TypeOK, KnownInv, NEW r \in Request, req[r].pc # "idle", check_certificate(req[r].payload)
  PROVE  Session(r)
<1> DEFINE c == req[r].payload
<1>1. /\ c.ttl_min \in Nat /\ c.creation_time \in Nat /\ req[r].arrived \in 0..now /\ now \in Nat
      /\ Minute \in Nat /\ Word \in Nat \ {0} /\ session_key_ttl_max \in Nat
  <2>1. c \in Payload /\ req[r].arrived \in 0..now
    BY Zenon DEF KnownInv
  <2> QED BY <2>1, FetchTypes, Durations, Zenon DEF TypeOK
<1>2. c.creation_time <= now /\ now - c.creation_time <= from_mins(c.ttl_min)
  BY <1>1, FetchTypes DEF check_certificate, checked_duration_since
<1>3. from_mins(c.ttl_min) <= session_key_ttl_max
  BY DEF check_certificate
<1>4. from_mins(c.ttl_min) \in Nat /\ from_mins(c.ttl_min) <= c.ttl_min * Minute /\ c.ttl_min * Minute \in Nat
  <2>1. c.ttl_min * Minute \in Nat
    BY <1>1
  <2>2. \A a \in Nat, b \in Nat \ {0} : a % b \in Nat /\ a % b <= a
    OBVIOUS
  <2> QED BY <1>1, <2>1, <2>2 DEF from_mins
<1> HIDE DEF c
<1>5. \E t \in (req[r].arrived)..now :
        /\ t - c.creation_time >= 0
        /\ t - c.creation_time <= session_key_ttl_max
        /\ t - c.creation_time <= c.ttl_min * Minute
  BY <1>1, <1>2, <1>3, <1>4
<1> QED BY <1>5 DEF Session, c

\* What a step of the code that checks request r comes to.
StepEffect(r) ==
  /\ UNCHANGED <<setting, now, world>>
  /\ Moves(r)
  /\ package_cache' \in [Package -> CacheEntry] /\ PackageCacheInv'
  /\ mvr_cache' \in [Name -> CacheEntry] /\ MvrCacheInv'
  /\ req'[r].pc = "certificate" /\ req[r].payload.mvr_name # None => NameKnown(r)

LEMMA StepHasEffect ==
  ASSUME Inv, NEW r \in Request, Step(r)
  PROVE  StepEffect(r)
<1> USE DEF Inv, RequestInv
<1>1. CASE fetch_first_pkg_id(r) \/ fetch_package_original_id(r)
  <2>1. /\ UNCHANGED <<setting, now, world, mvr_cache>> /\ Moves(r)
        /\ package_cache' \in [Package -> CacheEntry] /\ PackageCacheInv'
    BY <1>1, PackageMoves
  <2>2. mvr_cache' \in [Name -> CacheEntry]
    BY <2>1 DEF TypeOK
  <2>3. \A s, m, p : Bound(s, m, p)' <=> Bound(s, m, p)
    BY <2>1, Zenon DEF Bound
  <2>4. MvrCacheInv'
    BY <2>1, <2>3 DEF MvrCacheInv
  <2>5. PICK u \in RequestState : Turns(r, u) /\ Effect(r, u)
    BY <2>1 DEF Moves
  <2>6. req'[r] = u
    BY <2>5, Turned, Zenon
  <2>7. req[r].pc \in {"package", "original"}
    BY <1>1, Zenon DEF fetch_first_pkg_id, fetch_package_original_id
  <2>8. req'[r].pc # "certificate"
    BY <2>5, <2>6, <2>7, Zenon DEF Effect, Resolved, Certified
  <2> QED BY <2>1, <2>2, <2>4, <2>8 DEF StepEffect
<1>2. CASE MvrStep(r)
  BY <1>2 DEF MvrStep, StepEffect, TypeOK, PackageCacheInv
<1> QED BY <1>1, <1>2, CheckName, ReadRecord, ReadObject, CertificateMoves, SimulationMoves, FailureMoves, Zenon
        DEF Step, LocalStep, CallReturns

\* What one request has to satisfy, given the chain and the time.
Fine(r) ==
  /\ req[r].pc # "idle" => req[r].payload \in Payload /\ req[r].arrived \in 0..now
  /\ req[r].pc \in {"mvr", "registry", "info"} \cup Resolved => req[r].first = First[req[r].payload.package]
  /\ req[r].pc \in {"registry", "info"} => req[r].payload.mvr_name \in ValidName
  /\ req[r].pc = "info" =>
       /\ req[r].info \in PackageInfo /\ setting.network = "Testnet"
       /\ \E s \in 0..now : world[s].networks[req[r].payload.mvr_name] = req[r].info
  /\ req[r].pc = "simulating" => req[r].asked \in (req[r].arrived)..now
  /\ (req[r].pc \in Resolved \/ Got(r, "keys")) /\ req[r].payload.mvr_name # None => NameKnown(r)
  /\ req[r].pc \in Certified \/ Got(r, "keys") => Session(r)
  /\ \A outcome \in {"keys", "NoAccess"} : Got(r, outcome) =>
       \E t \in 0..now : /\ t >= req[r].arrived - allowed_staleness
                         /\ world[t].access = (outcome = "keys")

LEMMA AllFine == RequestInv <=> \A r \in Request : Fine(r)
<1>1. KnownInv /\ InfoInv /\ NameInv /\ SessionInv /\ VerdictFresh => \A r \in Request : Fine(r)
  BY Zenon DEF KnownInv, InfoInv, NameInv, SessionInv, VerdictFresh, Fine
<1>2. (\A r \in Request : Fine(r)) => KnownInv /\ InfoInv
  BY Zenon DEF KnownInv, InfoInv, Fine
<1>3. (\A r \in Request : Fine(r)) => NameInv /\ SessionInv /\ VerdictFresh
  BY Zenon DEF NameInv, SessionInv, VerdictFresh, Fine
<1> QED BY <1>1, <1>2, <1>3, Zenon DEF RequestInv

LEMMA AllFineNext ==
  ASSUME \A r \in Request : Fine(r)'
  PROVE  RequestInv'
<1>1. KnownInv' /\ InfoInv'
  BY Zenon DEF KnownInv, InfoInv, Fine
<1>2. NameInv' /\ SessionInv' /\ VerdictFresh'
  BY Zenon DEF NameInv, SessionInv, VerdictFresh, Fine
<1> QED BY <1>1, <1>2, Zenon DEF RequestInv

\* A request that does not move stays fine.
LEMMA StaysFine ==
  ASSUME NEW r \in Request, Fine(r), req'[r] = req[r], UNCHANGED <<setting, now, world>>
  PROVE  Fine(r)'
<1>1. \A t, n, p : Bound(t, n, p)' <=> Bound(t, n, p)
  BY ZenonT(30) DEF Bound
<1>2. NameKnown(r)' <=> NameKnown(r)
  BY <1>1 DEF NameKnown
<1>3. Session(r)' <=> Session(r)
  BY DEF Session
<1>4. \A o : Got(r, o)' <=> Got(r, o)
  BY DEF Got
<1> QED BY <1>2, <1>3, <1>4, Zenon DEF Fine

\* A step of the code keeps its own request fine.
LEMMA StepFine ==
  ASSUME TypeOK, RequestInv, NEW r \in Request, StepEffect(r)
  PROVE  Fine(r)'
<1>0. UNCHANGED <<setting, now, world>> /\ now \in Nat /\ Fine(r) /\ KnownInv
  BY AllFine, Zenon DEF StepEffect, TypeOK, RequestInv
<1>1. PICK u \in RequestState : Turns(r, u) /\ Effect(r, u)
  BY DEF StepEffect, Moves
<1>2. req'[r] = u
  BY <1>1, Turned
<1>3. /\ req[r].pc # "idle" /\ req[r].payload \in Payload /\ req[r].arrived \in 0..now
      /\ u.payload = req[r].payload /\ u.arrived = req[r].arrived
  BY <1>0, <1>1, ZenonT(40) DEF Effect, Fine
<1>4. /\ u.pc \in {"mvr", "registry", "info"} \cup Resolved => u.first = First[u.payload.package]
      /\ u.pc \in {"registry", "info"} => u.payload.mvr_name \in ValidName
  BY <1>0, <1>1, <1>3, ZenonT(40) DEF Effect, Fine
<1>5. u.pc = "info" =>
        /\ u.info \in PackageInfo /\ setting.network = "Testnet"
        /\ \E s \in 0..now : world[s].networks[u.payload.mvr_name] = u.info
  <2>1. CASE req[r].pc = "info" /\ u.info = req[r].info
    BY <1>0, <1>3, <2>1, ZenonT(40) DEF Fine
  <2>2. CASE /\ u.info \in PackageInfo /\ setting.network = "Testnet"
             /\ \E t \in Readable : u.info = world[t].networks[req[r].payload.mvr_name]
    BY <1>3, <2>2, Zenon DEF Readable
  <2> QED BY <1>1, <2>1, <2>2, ZenonT(40) DEF Effect
<1>6. u.pc = "simulating" => u.asked \in (u.arrived)..now
  <2>1. u.pc = "simulating" => \/ u.asked = now
                               \/ req[r].pc = "simulating" /\ u.asked = req[r].asked
    BY <1>1, Zenon DEF Effect
  <2>2. req[r].pc = "simulating" => req[r].asked \in (req[r].arrived)..now
    BY <1>0 DEF Fine
  <2>3. \A x \in Nat : \A y \in 0..x : x \in y..x
    BY Intervals, Zenon
  <2>4. now \in (u.arrived)..now
    BY <1>0, <1>3, <2>3
  <2> QED BY <1>3, <2>1, <2>2, <2>4, Zenon
<1>7. \A t, n, p : Bound(t, n, p)' <=> Bound(t, n, p)
  BY <1>0, Zenon DEF Bound
<1>8. NameKnown(r)' <=> NameKnown(r)
  BY <1>0, <1>2, <1>3, <1>7, Zenon DEF NameKnown
<1>9. Session(r)' <=> Session(r)
  BY <1>0, <1>2, <1>3, Zenon DEF Session
<1>10. u.pc = "done" /\ u.outcome \in {"keys", "NoAccess"} => req[r].pc = "simulating"
  BY <1>1, Zenon DEF Effect
<1>11. u.pc \in Resolved => u.pc = "certificate" \/ req[r].pc \in Resolved
  <2>1. u.pc \in Certified => req[r].pc \in Certified \/ req[r].pc = "certificate"
    BY <1>1, Zenon DEF Effect
  <2> QED BY <2>1, Zenon DEF Resolved
<1>12. (u.pc \in Resolved \/ (u.pc = "done" /\ u.outcome = "keys")) /\ u.payload.mvr_name # None
       => NameKnown(r)
  <2>1. u.pc = "certificate" /\ u.payload.mvr_name # None => NameKnown(r)
    BY <1>2, <1>3, Zenon DEF StepEffect
  <2>2. req[r].pc \in Resolved /\ u.payload.mvr_name # None => NameKnown(r)
    BY <1>0, <1>3 DEF Fine
  <2>3. "simulating" \in Resolved
    BY Zenon DEF Resolved, Certified
  <2> QED BY <1>10, <1>11, <2>1, <2>2, <2>3, Zenon
<1>13. u.pc \in Certified \/ (u.pc = "done" /\ u.outcome = "keys") => Session(r)
  <2>1. u.pc \in Certified => req[r].pc \in Certified \/ (req[r].pc = "certificate" /\ check_certificate(req[r].payload))
    BY <1>1, Zenon DEF Effect
  <2>2. check_certificate(req[r].payload) => Session(r)
    BY <1>0, <1>3, CertificateValid, Zenon
  <2>3. req[r].pc \in Certified => Session(r)
    BY <1>0 DEF Fine
  <2>4. "simulating" \in Certified
    BY DEF Certified
  <2> QED BY <1>10, <2>1, <2>2, <2>3, <2>4, Zenon
<1>14. ASSUME NEW o \in {"keys", "NoAccess"}, u.pc = "done", u.outcome = o
       PROVE  \E t \in 0..now : t >= u.arrived - allowed_staleness /\ world[t].access = (o = "keys")
  <2>1. PICK t \in 0..now : check_staleness(req[r].asked, t) /\ world[t].access = (o = "keys")
    BY <1>1, <1>14, Zenon DEF Effect
  <2>2. req[r].asked \in (req[r].arrived)..now /\ allowed_staleness \in Nat
    BY <1>0, <1>10, <1>14, Durations, Zenon DEF Fine
  <2>3. t >= u.arrived - allowed_staleness
    <3>1. \A x, y, z, w \in Int : y >= x /\ (y < z \/ y - z <= w) /\ w >= 0 => z >= x - w
      OBVIOUS
    <3>2. req[r].asked < t \/ req[r].asked - t <= allowed_staleness
      BY <2>1, Zenon DEF check_staleness
    <3>3. u.arrived \in Int /\ req[r].asked \in Int /\ req[r].asked >= u.arrived /\ t \in Int
      BY <1>0, <1>3, <2>1, <2>2
    <3>4. allowed_staleness \in Int /\ allowed_staleness >= 0
      BY <2>2
    <3> QED BY <3>1, <3>2, <3>3, <3>4
  <2> QED BY <2>1, <2>3, Zenon
<1>15. \A o : Got(r, o)' <=> u.pc = "done" /\ u.outcome = o
  BY <1>2, Zenon DEF Got
<1> QED BY <1>0, <1>2, <1>3, <1>4, <1>5, <1>6, <1>8, <1>9, <1>12, <1>13, <1>14, <1>15, ZenonT(30) DEF Fine

\* Steps of the code preserve the invariant.
LEMMA StepPreserves ==
  ASSUME Inv, NEW r \in Request, Step(r)
  PROVE  Inv'
<1>0. TypeOK /\ RequestInv /\ StepEffect(r)
  BY StepHasEffect, Zenon DEF Inv
<1>1. PICK u \in RequestState : Turns(r, u) /\ Effect(r, u)
  BY <1>0 DEF StepEffect, Moves
<1>2. req' \in [Request -> RequestState] /\ \A s \in Request \ {r} : req'[s] = req[s]
  BY <1>0, <1>1, Turned, Zenon
<1>3. TypeOK'
  BY <1>0, <1>2 DEF TypeOK, StepEffect
<1>4. ASSUME NEW s \in Request PROVE Fine(s)'
  <2>1. CASE s = r
    BY <1>0, <2>1, StepFine, ZenonT(30)
  <2>2. CASE s # r
    <3>1. Fine(s)
      BY <1>0, AllFine
    <3> QED BY <1>0, <1>2, <2>2, <3>1, StaysFine DEF StepEffect
  <2> QED BY <2>1, <2>2
<1>5. RequestInv'
  BY <1>4, AllFineNext
<1> QED BY <1>0, <1>3, <1>5 DEF Inv, StepEffect

\* A new request, and one that has been answered.
LEMMA SlotPreserves ==
  ASSUME Inv, NEW r \in Request, (\E p \in Payload : handle_fetch_key(r, p)) \/ Reply(r)
  PROVE  Inv'
<1>0. TypeOK /\ RequestInv /\ PackageCacheInv /\ MvrCacheInv
  BY DEF Inv
<1>1. UNCHANGED <<setting, now, world, package_cache, mvr_cache>>
  BY ZenonT(30) DEF handle_fetch_key, Reply
<1>2. PICK u \in RequestState : /\ Turns(r, u)
                                /\ \/ u.pc = "idle"
                                   \/ u.pc = "package" /\ u.payload \in Payload /\ u.arrived = now
  <2>1. CASE Reply(r)
    <3>1. Idle \in RequestState /\ Idle.pc = "idle"
      BY DEF Idle, RequestState, Control
    <3>2. Turns(r, Idle)
      BY <2>1 DEF Reply, Turns
    <3> QED BY <3>1, <3>2
  <2>2. CASE \E p \in Payload : handle_fetch_key(r, p)
    <3>1. PICK p \in Payload : handle_fetch_key(r, p)
      BY <2>2
    <3> DEFINE v == [Idle EXCEPT !.pc = "package", !.payload = p, !.arrived = now]
    <3>2. v \in RequestState /\ v.pc = "package" /\ v.payload = p /\ v.arrived = now
      BY <1>0, ZenonT(30) DEF Idle, RequestState, Control, TypeOK
    <3>3. Turns(r, v)
      BY <3>1, ZenonT(30) DEF handle_fetch_key, Turns
    <3> QED BY <3>1, <3>2, <3>3, ZenonT(30)
  <2> QED BY <2>1, <2>2
<1>3. /\ req' \in [Request -> RequestState] /\ req'[r] = u
      /\ \A s \in Request \ {r} : req'[s] = req[s]
  BY <1>0, <1>2, Turned
<1>4. TypeOK'
  BY <1>0, <1>1, <1>3 DEF TypeOK
<1>5. PackageCacheInv'
  BY <1>0, <1>1, Zenon DEF PackageCacheInv
<1>6. \A t, n, p : Bound(t, n, p)' <=> Bound(t, n, p)
  BY <1>1, Zenon DEF Bound
<1>7. MvrCacheInv'
  BY <1>0, <1>1, <1>6 DEF MvrCacheInv
<1>8. ASSUME NEW s \in Request PROVE Fine(s)'
  <2>1. CASE s = r
    <3>1. now \in Nat /\ req'[r].pc \in {"idle", "package"}
      BY <1>0, <1>2, <1>3, Zenon DEF TypeOK
    <3>2. \A o : ~Got(r, o)'
      BY <3>1 DEF Got
    <3>3. /\ req'[r].pc \notin {"mvr", "registry", "info"} \cup Resolved
          /\ req'[r].pc \notin Certified /\ req'[r].pc \notin {"registry", "info", "simulating"}
      BY <3>1 DEF Resolved, Certified
    <3>4. req'[r].pc # "idle" => req'[r].payload \in Payload /\ req'[r].arrived \in 0..now'
      BY <1>1, <1>2, <1>3, <3>1
    <3> QED BY <2>1, <3>2, <3>3, <3>4 DEF Fine
  <2>2. CASE s # r
    <3>1. Fine(s)
      BY <1>0, AllFine
    <3> QED BY <1>1, <1>3, <2>2, <3>1, StaysFine
  <2> QED BY <2>1, <2>2, ZenonT(30)
<1>9. RequestInv'
  BY <1>8, AllFineNext
<1> QED BY <1>4, <1>5, <1>7, <1>9 DEF Inv

\* The past of the chain does not change, so neither does what was bound or allowed in it.
LEMMA TickPreserves ==
  ASSUME Inv, Tick
  PROVE  Inv'
<1>0. TypeOK /\ RequestInv /\ PackageCacheInv /\ MvrCacheInv
  BY DEF Inv
<1>1. PICK w \in setting.worlds : world' = [t \in 0..(now + 1) |-> IF t = now + 1 THEN w ELSE world[t]]
  BY DEF Tick
<1>2. now' = now + 1 /\ now \in Nat /\ UNCHANGED <<setting, req>> /\ CacheTtl \in Nat
  BY <1>0, Durations DEF Tick, TypeOK
<1>3. w \in World
  BY <1>0, <1>1, FetchTypes DEF TypeOK
<1>4. world' \in [0..now' -> World] /\ \A t \in 0..now : t \in 0..now' /\ world'[t] = world[t]
  BY <1>0, <1>1, <1>2, <1>3 DEF TypeOK
<1>5. \A n \in Name : mvr_cache'[n] = None \/ (mvr_cache'[n] = mvr_cache[n] /\ now' < mvr_cache[n].at + CacheTtl)
  BY <1>0, <1>2, Zenon DEF Tick, unexpired, TypeOK
<1>6. \A p \in Package : package_cache'[p] = None \/ package_cache'[p] = package_cache[p]
  BY <1>0, <1>2, Zenon DEF Tick, unexpired, TypeOK
<1>7. TypeOK'
  <2>1. package_cache' \in [Package -> CacheEntry] /\ mvr_cache' \in [Name -> CacheEntry]
    <3>1. package_cache \in [Package -> CacheEntry] /\ mvr_cache \in [Name -> CacheEntry]
      BY <1>0 DEF TypeOK
    <3>2. unexpired(package_cache, now + 1) \in [Package -> CacheEntry]
      BY <3>1 DEF unexpired
    <3>3. unexpired(mvr_cache, now + 1) \in [Name -> CacheEntry]
      BY <3>1 DEF unexpired
    <3> QED BY <3>2, <3>3, Zenon DEF Tick
  <2>2. setting \in Setting /\ req \in [Request -> RequestState]
    BY <1>0 DEF TypeOK
  <2>3. now + 1 \in Nat
    BY <1>2
  <2> QED BY <1>2, <1>4, <2>1, <2>2, <2>3, Zenon DEF TypeOK
<1>8. PackageCacheInv'
  BY <1>0, <1>6 DEF PackageCacheInv
<1>9. ASSUME NEW t \in 0..now, NEW n, NEW p, Bound(t, n, p)
      PROVE  Bound(t, n, p)'
  <2>1. CASE setting.network = "Mainnet"
    BY <1>2, <1>4, <1>9, <2>1, Zenon DEF Bound
  <2>2. CASE setting.network # "Mainnet"
    <3>1. PICK i \in PackageInfo : /\ package_address[i] = p /\ world[t].default[i] = n
                                   /\ \E s \in 0..now : world[s].networks[n] = i
      BY <1>9, <2>2 DEF Bound
    <3>2. world'[t].default[i] = n /\ \E s \in 0..now' : world'[s].networks[n] = i
      BY <1>4, <3>1, Zenon
    <3> QED BY <1>2, <2>2, <3>1, <3>2 DEF Bound
  <2> QED BY <2>1, <2>2, Zenon
<1>10. MvrCacheInv'
  <2> SUFFICES ASSUME NEW n \in Name, mvr_cache'[n] # None
               PROVE  /\ mvr_cache'[n].at <= now' /\ now' <= mvr_cache'[n].at + CacheTtl
                      /\ \E t \in 0..now' : /\ mvr_cache'[n].at <= t + Lag
                                            /\ Bound(t, n, mvr_cache[n].value)'
    BY <1>5 DEF MvrCacheInv
  <2>1. mvr_cache'[n] = mvr_cache[n] /\ mvr_cache[n] # None /\ now' < mvr_cache[n].at + CacheTtl
    BY <1>5, Zenon
  <2>2. mvr_cache[n].at \in Nat /\ mvr_cache[n].at <= now
    BY <1>0, <2>1, Zenon DEF TypeOK, MvrCacheInv
  <2>3. PICK t \in 0..now : mvr_cache[n].at <= t + Lag /\ Bound(t, n, mvr_cache[n].value)
    BY <1>0, <2>1, Zenon DEF MvrCacheInv
  <2>4. Bound(t, n, mvr_cache[n].value)' /\ t \in 0..now'
    BY <1>4, <1>9, <2>1, <2>3
  <2>5. mvr_cache[n].at <= now' /\ now' <= mvr_cache[n].at + CacheTtl
    BY <1>2, <2>1, <2>2, Durations
  <2> QED BY <2>1, <2>3, <2>4, <2>5
<1>11. ASSUME NEW r \in Request PROVE Fine(r)'
  <2>0. Fine(r) /\ req' = req
    BY <1>0, <1>2, AllFine
  <2>1. NameKnown(r) => NameKnown(r)'
    BY <1>4, <1>9, <2>0, Zenon DEF NameKnown
  <2> DEFINE a == req[r].arrived
  <2>2. Session(r) => Session(r)'
    <3>1. a..now \subseteq a..now'
      BY <1>2, Intervals
    <3> QED BY <2>0, <3>1 DEF Session
  <2>3. a \in 0..now => a \in 0..now'
    BY <1>2, Intervals
  <2>4. req[r].asked \in a..now => req[r].asked \in a..now'
    BY <1>2, Intervals, ZenonT(30)
  <2>5. req[r].pc = "info" =>
          /\ req[r].info \in PackageInfo /\ setting.network = "Testnet"
          /\ \E s \in 0..now' : world'[s].networks[req[r].payload.mvr_name] = req[r].info
    BY <1>4, <2>0 DEF Fine
  <2>6. \A o : Got(r, o)' <=> Got(r, o)
    BY <2>0, Zenon DEF Got
  <2>7. ASSUME NEW o \in {"keys", "NoAccess"}, Got(r, o)'
        PROVE  \E t \in 0..now' : t >= req[r].arrived - allowed_staleness /\ world'[t].access = (o = "keys")
    <3>1. PICK t \in 0..now : t >= req[r].arrived - allowed_staleness /\ world[t].access = (o = "keys")
      BY <2>0, <2>6, <2>7, ZenonT(40) DEF Fine
    <3> QED BY <1>4, <3>1
  <2>8. /\ req[r].pc # "idle" => req[r].payload \in Payload /\ req[r].arrived \in 0..now'
        /\ req[r].pc = "simulating" => req[r].asked \in (req[r].arrived)..now'
    BY <2>0, <2>3, <2>4, ZenonT(30) DEF Fine
  <2>9. /\ (req[r].pc \in Resolved \/ Got(r, "keys")') /\ req[r].payload.mvr_name # None => NameKnown(r)'
        /\ req[r].pc \in Certified \/ Got(r, "keys")' => Session(r)'
    BY <2>0, <2>1, <2>2, <2>6, ZenonT(30) DEF Fine
  <2> QED BY <1>2, <2>0, <2>5, <2>7, <2>8, <2>9, ZenonT(40) DEF Fine
<1>12. RequestInv'
  BY <1>11, AllFineNext, ZenonT(30)
<1> QED BY <1>7, <1>8, <1>10, <1>12 DEF Inv

LEMMA EvictPreserves ==
  ASSUME Inv, Evict
  PROVE  Inv'
<1>0. TypeOK /\ RequestInv /\ PackageCacheInv /\ MvrCacheInv /\ UNCHANGED <<setting, now, world, req>>
  BY DEF Inv, Evict
<1>1. /\ package_cache' \in [Package -> CacheEntry]
      /\ \A p \in Package : package_cache'[p] = None \/ package_cache'[p] = package_cache[p]
  BY <1>0 DEF Evict, TypeOK
<1>2. /\ mvr_cache' \in [Name -> CacheEntry]
      /\ \A n \in Name : mvr_cache'[n] = None \/ mvr_cache'[n] = mvr_cache[n]
  BY <1>0, Zenon DEF Evict, TypeOK
<1>3. TypeOK' /\ PackageCacheInv'
  BY <1>0, <1>1, <1>2, Zenon DEF TypeOK, PackageCacheInv
<1>4. \A t, n, p : Bound(t, n, p)' <=> Bound(t, n, p)
  BY <1>0, ZenonT(30) DEF Bound
<1>5. MvrCacheInv'
  BY <1>0, <1>2, <1>4 DEF MvrCacheInv
<1>6. RequestInv'
  <2>1. \A s \in Request : Fine(s)'
    BY <1>0, AllFine, StaysFine
  <2> QED BY <2>1, AllFineNext
<1> QED BY <1>3, <1>5, <1>6 DEF Inv

\* Inv is an invariant of the server.
THEOREM FetchKeyInvariant == Spec => []Inv
<1>1. Init => Inv
  <2> SUFFICES ASSUME Init PROVE Inv
    OBVIOUS
  <2>1. TypeOK /\ KnownInv
    BY TypeInit
  <2>2. /\ \A r \in Request : req[r].pc = "idle"
        /\ \A n \in Name : mvr_cache[n] = None
        /\ \A p \in Package : package_cache[p] = None
    BY ZenonT(30) DEF Init, Idle
  <2> QED BY <2>1, <2>2 DEF Inv, RequestInv, PackageCacheInv, MvrCacheInv, InfoInv, NameInv, SessionInv,
                            VerdictFresh, Got, Resolved, Certified
<1>2. Inv /\ [Next]_vars => Inv'
  <2> SUFFICES ASSUME Inv, [Next]_vars PROVE Inv'
    OBVIOUS
  <2>1. CASE Tick
    BY <2>1, TickPreserves
  <2>2. CASE Evict
    BY <2>2, EvictPreserves
  <2>3. ASSUME NEW r \in Request, (\E p \in Payload : handle_fetch_key(r, p)) \/ Step(r) \/ Reply(r)
        PROVE  Inv'
    BY <2>3, StepPreserves, SlotPreserves
  <2>4. CASE UNCHANGED vars
    <3>0. TypeOK /\ RequestInv /\ PackageCacheInv /\ MvrCacheInv
      BY DEF Inv
    <3>1. UNCHANGED <<setting, now, world, package_cache, mvr_cache, req>>
      BY <2>4, Zenon DEF vars
    <3>2. TypeOK' /\ PackageCacheInv'
      BY <3>0, <3>1 DEF TypeOK, PackageCacheInv
    <3>3. \A t, n, p : Bound(t, n, p)' <=> Bound(t, n, p)
      BY <3>1, ZenonT(30) DEF Bound
    <3>4. MvrCacheInv'
      BY <3>0, <3>1, <3>3 DEF MvrCacheInv
    <3>5. \A s \in Request : Fine(s)'
      BY <3>0, <3>1, AllFine, StaysFine
    <3>6. RequestInv'
      BY <3>5, AllFineNext
    <3> QED BY <3>2, <3>4, <3>6 DEF Inv
  <2> QED BY <2>1, <2>2, <2>3, <2>4 DEF Next
<1> QED BY <1>1, <1>2, PTL DEF Spec

\* A verdict of check_policy was true on a chain not older than allowed_staleness when the
\* request came in, for any delays of the full nodes and any history of the policy.
THEOREM VerdictIsFresh == Spec => []VerdictFresh
<1>1. Inv => VerdictFresh
  BY DEF Inv, RequestInv
<1> QED BY <1>1, FetchKeyInvariant, PTL

\* Keys are derived only under a certificate that check_signature found in its lifetime and
\* in the server's maximum, although the product of minutes wraps in u16.
THEOREM SessionIsBounded == Spec => []SessionBounded
<1>1. Inv => SessionBounded
  BY DEF Inv, RequestInv, SessionInv, SessionBounded, Session
<1> QED BY <1>1, FetchKeyInvariant, PTL

\* Keys of a package are released under a name only if check_mvr_package_id's answer was true
\* not longer ago than the cache's and the full node's delay.
THEOREM NameIsBound == Spec => []NameWasBound
<1>1. Inv => NameWasBound
  BY DEF Inv, RequestInv, NameInv, NameWasBound, NameKnown
<1> QED BY <1>1, FetchKeyInvariant, PTL

=============================================================================
