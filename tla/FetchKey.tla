------------------------------ MODULE FetchKey ------------------------------
(***************************************************************************)
(* The life of a fetch_key request in a key server, Server::check_request  *)
(* in crates/key-server/src/server.rs: the package is resolved, the MVR    *)
(* name checked, the certificate and the signatures verified, the policy   *)
(* simulated on a full node, and only then are keys derived.               *)
(*                                                                         *)
(* Between two checks time passes and the chain changes: policies are      *)
(* revoked and granted, MVR names repointed, address aliases enabled.  The *)
(* full node that answers a read may be behind, the caches hold what was   *)
(* read earlier, and a call that fails for a passing reason is made again  *)
(* (sui_rpc_client.rs).  world[t] is the chain at time t; it keeps its     *)
(* past so that properties can speak of it.  What a transaction may        *)
(* contain is ValidPtb's subject; here it is its package.                  *)
(***************************************************************************)
EXTENDS Integers, Sequences, FiniteSets

CONSTANTS
  MaxTime,             \* bound on time, in the unit of Minute
  Minute,              \* time units per minute: 60 s in the code
  Word,                \* 2^16 in the code: minutes and their product are u16
  session_key_ttl_max,
  allowed_staleness,
  CacheTtl,            \* time to live of the cache entries
  Lag,                 \* how far behind the full nodes may be
  Package,
  First,               \* First[p]: the first version of package p, or None if p does not exist
  Supported,           \* the first versions the server has a master key for
  Name,                \* MVR names
  ValidName,           \* those that can be parsed and have no version
  PackageInfo,         \* objects of testnet that MVR records may refer to
  package_address,     \* package_address[i]: the package of such an object
  Setting,             \* [network, worlds]: the network and the states its chain may be in:
                       \* access, aliases, app_info, networks (name -> None or what the
                       \* record has for mainnet and testnet), default (object -> its name)
  max_retries,         \* of the RetryConfig
  Payload,             \* the requests a client may send
  Request,
  None

Time == 0..MaxTime

ASSUME Durations ==
  /\ Minute \in Nat \ {0} /\ Word \in Nat \ {0}
  /\ {session_key_ttl_max, allowed_staleness, CacheTtl, Lag} \subseteq Nat
  /\ max_retries \in Nat

World ==
  [access : BOOLEAN, aliases : BOOLEAN, app_info : [ValidName -> Package \cup {None}],
   networks : [ValidName -> PackageInfo \cup {None}], default : [PackageInfo -> Name \cup {None}]]

ASSUME FetchTypes ==
  /\ First \in [Package -> Package \cup {None}] /\ Supported \subseteq Package
  /\ ValidName \subseteq Name
  /\ package_address \in [PackageInfo -> Package]
  /\ Setting \subseteq [network : {"Mainnet", "Testnet", "Devnet"}, worlds : SUBSET World]
  /\ Payload \subseteq [package : Package, mvr_name : Name \cup {None}, signed_name : Name \cup Package,
                        ttl_min : Nat, creation_time : Nat, session_ok : BOOLEAN]
  /\ None \notin Package /\ None \notin Name /\ None \notin PackageInfo /\ None \notin Nat
  /\ None \notin [value : Package, at : Nat] /\ None \notin Payload

VARIABLES
  setting,        \* the one setting of this history
  now,            \* the server's clock
  world,          \* world[t] for every t up to now
  package_cache,  \* PACKAGE_ID_CACHE: per package, None or the first version and its time
  mvr_cache,      \* MVR_CACHE: per name, None or the package and its time
  req             \* the requests

vars == <<setting, now, world, package_cache, mvr_cache, req>>

-----------------------------------------------------------------------------
\* from_mins: the product is computed in u16 and wraps (a release build has no overflow
\* checks).
from_mins(mins) == (mins * Minute) % Word

checked_duration_since(offset) == IF offset <= now THEN now - offset ELSE None

check_certificate_NoExpiry(cert) ==
  /\ from_mins(cert.ttl_min) <= session_key_ttl_max
  /\ checked_duration_since(cert.creation_time) # None

\* The first half of check_signature.
check_certificate(cert) ==
  /\ from_mins(cert.ttl_min) <= session_key_ttl_max
  /\ checked_duration_since(cert.creation_time) # None
  /\ checked_duration_since(cert.creation_time) <= from_mins(cert.ttl_min)

Idle == [pc |-> "idle", payload |-> None, arrived |-> None, first |-> None,
         info |-> None, asked |-> None, attempts |-> 0, outcome |-> None]

cached(cache, key) == IF cache[key] # None THEN cache[key].value ELSE None

\* A cache entry lives for CacheTtl after its insertion.
unexpired(cache, time) ==
  [key \in DOMAIN cache |->
     IF cache[key] # None /\ time < cache[key].at + CacheTtl THEN cache[key] ELSE None]

\* The times a full node's answer may be of.
Readable == {t \in 0..now : now <= t + Lag}

check_staleness_Off(asked, t) == TRUE

\* A state of the full node that simulates is stale when it is too far behind the time asked.
check_staleness(asked, t) == asked < t \/ asked - t <= allowed_staleness

Goto(r, pc) == req' = [req EXCEPT ![r] = [@ EXCEPT !.pc = pc, !.attempts = 0]]

\* A call to the full node, with all attempts.
Call(r, pc) == req' = [req EXCEPT ![r] = [@ EXCEPT !.pc = pc, !.attempts = max_retries]]

Ends(r, outcome) == req' = [req EXCEPT ![r] = [@ EXCEPT !.pc = "done", !.outcome = outcome]]

-----------------------------------------------------------------------------
Init ==
  /\ now = 0
  /\ setting \in Setting
  /\ \E w \in setting.worlds : world = [t \in {0} |-> w]
  /\ package_cache = [p \in Package |-> None]
  /\ mvr_cache = [n \in Name |-> None]
  /\ req = [r \in Request |-> Idle]

\* Time passes, cache entries expire and the chain changes.
Tick ==
  /\ now < MaxTime
  /\ now' = now + 1
  /\ \E w \in setting.worlds : world' = [t \in 0..(now + 1) |-> IF t = now + 1 THEN w ELSE world[t]]
  /\ package_cache' = unexpired(package_cache, now + 1)
  /\ mvr_cache' = unexpired(mvr_cache, now + 1)
  /\ UNCHANGED <<setting, req>>

\* The caches may drop an entry at any time (size limit).
Evict ==
  /\ \/ \E p \in Package : /\ package_cache[p] # None
                           /\ package_cache' = [package_cache EXCEPT ![p] = None]
                           /\ UNCHANGED mvr_cache
     \/ \E n \in Name : /\ mvr_cache[n] # None
                        /\ mvr_cache' = [mvr_cache EXCEPT ![n] = None]
                        /\ UNCHANGED package_cache
  /\ UNCHANGED <<setting, now, world, req>>

handle_fetch_key(r, payload) ==
  /\ req[r].pc = "idle"
  /\ req' = [req EXCEPT ![r] = [Idle EXCEPT !.pc = "package", !.payload = payload, !.arrived = now]]
  /\ UNCHANGED <<setting, now, world, package_cache, mvr_cache>>

\* The package is supported, or the request ends.
has_key_for_package(r, first) ==
  IF first \in Supported
  THEN req' = [req EXCEPT ![r] = [@ EXCEPT !.pc = "mvr", !.first = first]]
  ELSE Ends(r, "UnsupportedPackageId")

\* common::fetch_first_pkg_id, then the check that the server has a key.
fetch_first_pkg_id(r) ==
  LET hit == cached(package_cache, req[r].payload.package)
  IN  /\ req[r].pc = "package"
      /\ IF hit # None THEN has_key_for_package(r, hit) ELSE Call(r, "original")
      /\ UNCHANGED <<setting, now, world, package_cache, mvr_cache>>

fetch_package_original_id(r) ==
  LET p == req[r].payload.package
  IN  /\ req[r].pc = "original"
      /\ \/ /\ First[p] # None
            /\ package_cache' = [package_cache EXCEPT ![p] = [value |-> First[p], at |-> now]]
            /\ has_key_for_package(r, First[p])
         \/ First[p] = None /\ Ends(r, "InvalidPackage") /\ UNCHANGED package_cache
      /\ UNCHANGED <<setting, now, world, mvr_cache>>

PointsToFirst(r, package) ==
  IF package = req[r].first THEN Goto(r, "certificate") ELSE Ends(r, "InvalidMVRName")

check_mvr_package_id(r) ==
  LET name == req[r].payload.mvr_name
      hit == cached(mvr_cache, name)
  IN  /\ req[r].pc = "mvr"
      /\ \/ name = None /\ Goto(r, "certificate")
         \/ name # None /\ hit # None /\ PointsToFirst(r, hit)
         \/ /\ name # None /\ hit = None
            /\ IF setting.network \notin {"Mainnet", "Testnet"} THEN Ends(r, "Failure")
               ELSE IF name \notin ValidName THEN Ends(r, "InvalidMVRName")
               ELSE Call(r, "registry")
      /\ UNCHANGED <<setting, now, world, package_cache, mvr_cache>>

\* The name has been resolved.
insert_mvr_cache(r, package) ==
  /\ mvr_cache' = [mvr_cache EXCEPT ![req[r].payload.mvr_name] = [value |-> package, at |-> now]]
  /\ PointsToFirst(r, package)

\* The record of the name, on mainnet: the package, or the object to look up on testnet.
get_from_mvr_registry(r) ==
  /\ req[r].pc = "registry"
  /\ \E t \in Readable :
       LET name == req[r].payload.mvr_name
           found == IF setting.network = "Mainnet" THEN world[t].app_info[name] ELSE world[t].networks[name]
       IN  \/ found = None /\ Ends(r, "InvalidMVRName") /\ UNCHANGED mvr_cache
           \/ found # None /\ setting.network = "Mainnet" /\ insert_mvr_cache(r, found)
           \/ /\ found # None /\ setting.network = "Testnet"
              /\ req' = [req EXCEPT ![r] = [@ EXCEPT !.pc = "info", !.info = found, !.attempts = max_retries]]
              /\ UNCHANGED mvr_cache
  /\ UNCHANGED <<setting, now, world, package_cache>>

mvr_forward_resolution_AnyName(r) ==
  /\ req[r].pc = "info"
  /\ insert_mvr_cache(r, package_address[req[r].info])
  /\ UNCHANGED <<setting, now, world, package_cache>>

\* On testnet the object has to name the name in turn.
mvr_forward_resolution(r) ==
  /\ req[r].pc = "info"
  /\ \E t \in Readable :
       LET default == world[t].default[req[r].info]
       IN  IF default = req[r].payload.mvr_name
           THEN insert_mvr_cache(r, package_address[req[r].info])
           ELSE /\ Ends(r, IF default = None THEN "Failure" ELSE "InvalidMVRName")
                /\ UNCHANGED mvr_cache
  /\ UNCHANGED <<setting, now, world, package_cache>>

\* check_signature: the certificate's times.
CheckTimes(r) ==
  /\ req[r].pc = "certificate"
  /\ IF check_certificate(req[r].payload) THEN Call(r, "aliases") ELSE Ends(r, "InvalidCertificate")
  /\ UNCHANGED <<setting, now, world, package_cache, mvr_cache>>

has_address_aliases(r) ==
  /\ req[r].pc = "aliases"
  /\ \E t \in Readable : IF world[t].aliases THEN Ends(r, "InvalidSignature") ELSE Goto(r, "signature")
  /\ UNCHANGED <<setting, now, world, package_cache, mvr_cache>>

\* The message the user signed names the MVR name, or the first package without one.
PackageName(r) ==
  IF req[r].payload.mvr_name # None THEN req[r].payload.mvr_name ELSE req[r].first

\* check_signature: the user's signature on the certificate, for which some schemes ask the full
\* node (once), then the session key's on the request.
CheckSignatures(r) ==
  /\ req[r].pc = "signature"
  /\ IF req[r].payload.signed_name # PackageName(r) THEN Ends(r, "InvalidSignature")
     ELSE IF ~req[r].payload.session_ok THEN Ends(r, "InvalidSessionSignature")
     ELSE Goto(r, "policy")
  /\ UNCHANGED <<setting, now, world, package_cache, mvr_cache>>

\* check_policy sends the simulation with the server's time in it, the same for every attempt.
SendSimulation(r) ==
  /\ req[r].pc = "policy"
  /\ req' = [req EXCEPT ![r] = [@ EXCEPT !.pc = "simulating", !.asked = now, !.attempts = max_retries]]
  /\ UNCHANGED <<setting, now, world, package_cache, mvr_cache>>

\* The full node is at time t when it simulates; keys are derived right after its answer.
SimulationEnds(r) ==
  /\ req[r].pc = "simulating"
  /\ \E t \in 0..now :
       IF ~check_staleness(req[r].asked, t) THEN Ends(r, "Failure")
       ELSE IF world[t].access THEN Ends(r, "keys") ELSE Ends(r, "NoAccess")
  /\ UNCHANGED <<setting, now, world, package_cache, mvr_cache>>

\* What a call that fails for good is reported as.
Reported(pc) ==
  CASE pc = "original"   -> {"InvalidPackage", "Failure"}
    [] pc = "registry"   -> {"InvalidPackage", "Failure"}
    [] pc = "info"       -> {"InvalidPackage", "Failure"}
    [] pc = "aliases"    -> {"Failure"}
    [] pc = "signature"  -> {"InvalidSignature"}
    [] pc = "simulating" -> {"Failure", "InvalidParameter", "InvalidPTB"}
    [] OTHER             -> {}

Calling(r) == req[r].pc \in {"original", "registry", "info", "aliases", "signature", "simulating"}

\* An error that is not retriable, or comes after the last attempt.
CallFails(r) ==
  /\ Calling(r)
  /\ \E e \in Reported(req[r].pc) : Ends(r, e)
  /\ UNCHANGED <<setting, now, world, package_cache, mvr_cache>>

RetriableError_Wraps(r) ==
  /\ Calling(r)
  /\ req' = [req EXCEPT ![r] = [@ EXCEPT !.attempts = IF @ = 0 THEN max_retries ELSE @ - 1]]
  /\ UNCHANGED <<setting, now, world, package_cache, mvr_cache>>

\* A retriable error: the call is made again after a delay while there are attempts.
RetriableError(r) ==
  /\ Calling(r)
  /\ req[r].attempts > 1
  /\ req' = [req EXCEPT ![r] = [@ EXCEPT !.attempts = req[r].attempts - 1]]
  /\ UNCHANGED <<setting, now, world, package_cache, mvr_cache>>

Reply(r) ==
  /\ req[r].pc = "done"
  /\ req' = [req EXCEPT ![r] = Idle]
  /\ UNCHANGED <<setting, now, world, package_cache, mvr_cache>>

\* What the server does by itself, from one await to the next.
LocalStep(r) ==
  fetch_first_pkg_id(r) \/ check_mvr_package_id(r) \/ CheckTimes(r) \/ SendSimulation(r)

\* An attempt of a call returns.
CallReturns(r) ==
  \/ fetch_package_original_id(r) \/ get_from_mvr_registry(r) \/ mvr_forward_resolution(r)
  \/ has_address_aliases(r) \/ CheckSignatures(r) \/ SimulationEnds(r)
  \/ CallFails(r) \/ RetriableError(r)

Step(r) == LocalStep(r) \/ CallReturns(r)

Next ==
  \/ Tick
  \/ Evict
  \/ \E r \in Request : (\E p \in Payload : handle_fetch_key(r, p)) \/ Step(r) \/ Reply(r)

Spec == Init /\ [][Next]_vars

\* The server goes on with a request whenever it is its turn.  Nothing is assumed of the full
\* nodes: the calls have no timeout, and one that is not answered never returns.
FairSpec == Spec /\ \A r \in Request : WF_vars(LocalStep(r))

-----------------------------------------------------------------------------
Got(r, outcome) == req[r].pc = "done" /\ req[r].outcome = outcome

\* A verdict on the policy, for or against, was true on a chain no older than
\* allowed_staleness when the request came in, however stale the full nodes are: a
\* revocation or a grant is effective for every request that comes allowed_staleness later.
VerdictFresh ==
  \A r \in Request : \A outcome \in {"keys", "NoAccess"} : Got(r, outcome) =>
    \E t \in 0..now : /\ t >= req[r].arrived - allowed_staleness
                      /\ world[t].access = (outcome = "keys")

\* Keys are released only under a certificate that was valid at some moment while the request
\* was processed: created before, and neither its own lifetime nor the server's maximum ago.
SessionBounded ==
  \A r \in Request : Got(r, "keys") =>
    \E t \in (req[r].arrived)..now :
      LET age == t - req[r].payload.creation_time
      IN  /\ age >= 0
          /\ age <= session_key_ttl_max
          /\ age <= req[r].payload.ttl_min * Minute

\* The name points to the package: on mainnet by its record, on testnet by an object that the
\* record referred to.
Bound(t, name, package) ==
  IF setting.network = "Mainnet" THEN world[t].app_info[name] = package
  ELSE \E i \in PackageInfo :
         /\ package_address[i] = package /\ world[t].default[i] = name
         /\ \E s \in 0..now : world[s].networks[name] = i

\* The name a certificate was signed for pointed to the package whose keys are released, at a
\* time no further back than the cache's and the full node's delay, although the record and
\* the object it refers to are read one after the other.  On testnet this is the time of the
\* object; the record was read at some earlier time, as the calls between have no timeout.
\* mvr_forward_resolution.
NameWasBound ==
  \A r \in Request : Got(r, "keys") /\ req[r].payload.mvr_name # None =>
    \E t \in 0..now : /\ t >= req[r].arrived - (CacheTtl + Lag)
                      /\ Bound(t, req[r].payload.mvr_name, First[req[r].payload.package])

\* A request is answered, or a single attempt of a single call, to a full node, never returns:
\* failures and retries, at any attempt of any call, do not go on for ever, and there is nothing
\* else a request waits for.  check_request, sui_rpc_with_retries.
Answered ==
  \A r \in Request :
    \/ []<>(req[r].pc \in {"idle", "done"})
    \/ <>[]Calling(r) /\ <>[][req'[r] = req[r]]_vars

\* "TTL of the session key must be smaller than the allowed max" (check_signature): a
\* certificate that passes was signed for at most the maximum.
TtlWithinMax ==
  \A r \in Request : req[r].pc \in {"aliases", "signature", "policy", "simulating"} =>
    req[r].payload.ttl_min * Minute <= session_key_ttl_max

=============================================================================
