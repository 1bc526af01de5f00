# A TLA+ model of Seal

Seal keeps secrets for applications on Sui: data is encrypted for a threshold of key servers,
and a key server hands out the decryption key of an identity when a Move policy, which it
simulates on a full node, approves. This directory models the program that does this: the Move
packages, the key server, the aggregator of a committee, the command line tool for the
distributed key generation (DKG), the cryptography's secret sharing, and the metrics proxy.

## The system and the modules

| part | code | modules |
|---|---|---|
| on-chain committee and its key server object | `move/committee`, `move/seal/sources/key_server.move` | `SealCommittee`, `KeyServer`; promise: `KeyCustody`; proofs: `SealCommitteeProofs`, `KeyCustodyProofs`, `UpgradeProofs` |
| a member's key server through rotations | `crates/key-server/src/server.rs`, `master_keys.rs`, `periodic_updater.rs` | `MemberServer`; promise: `ShareHolder`; proofs: `MemberServerProofs` |
| the aggregator, and the service of chain, members and aggregator | `crates/key-server/src/aggregator`, `crates/crypto/src/elgamal.rs` | `Aggregator`, `CommitteeService`; proofs: `CommitteeServiceProofs` |
| a `fetch_key` request with names, caches, retries and staleness | `server.rs`, `time.rs`, `common.rs`, `externals.rs`, `cache.rs`, `mvr.rs`, `sui_rpc_client.rs`, `staleness.move` | `FetchKey`; proofs: `FetchKeyProofs` |
| the transaction a request carries; the clients of a permissioned server | `valid_ptb.rs`, `seal_package.rs`; `key_server_options.rs`, `master_keys.rs` | `ValidPtb`, `ClientKeys`, `PermissionedServer`; proofs: `PermissionedServerProofs` |
| the rotation and upgrade monitors | `server.rs`, `crates/seal-committee/src/grpc_helper.rs` | `EventMonitors` |
| the DKG ceremony | `crates/seal-committee-cli` | `DkgCeremony`; proofs: `DkgCeremonyProofs` |
| field, secret sharing, encryption, on-chain decryption | `crates/crypto/src`, `move/seal/sources` | `Gf256`, `Tss`, `MovePolynomial`, `SealEncryption`, `SealedObject` |
| the voting pattern | `move/patterns/sources/voting.move` | `Voting` |
| metrics push and proxy | `metrics_push.rs`, `crates/seal-proxy` | `MetricsProxy` |

`MC*.tla` and `*.cfg` are the instances for TLC. `PROJECT.json` maps every definition to the
lines it models. A definition `X_Suffix` next to `X` is a plausible faulty variant of `X`; no
specification uses it, and each shows that a property can fail.

How the parts meet: a DKG ceremony (`DkgCeremony`) submits the calls of `SealCommittee`; the key
server object whose version these calls bump is the variable `chain` of `MemberServer`,
`Aggregator` and `CommitteeService`. `CommitteeService` puts the aggregator together with
members that behave as `ShareHolder`, and the run `member` shows that `MemberServer` implements
`ShareHolder` as long as its operator configures every share under its own version. `PermissionedServer` joins the keys of `ClientKeys` with the transactions of
`ValidPtb`. `SealedObject` and `Voting` are two users of `SealEncryption`, which calls both
implementations of the field and the polynomials.

## The modules and the code

**SealCommittee.** One action per public function of `committee.move`; the Move asserts are the
guards and a call that aborts is no step. The fields of the enum `State` are functions on
committee ids. `try_finalize`, `try_finalize_for_rotation` and the moves of the key server and
the upgrade manager are part of the `propose` actions. The upgrade ticket must be used in the
transaction that made it: while `ticket` names an account, only that account's calls take
effect. Public keys, partial keys and names are model values. `KeyServer` has the functions of
the committee variant of the object. `KeyCustody` is the abstract specification: one public key,
created once, then handed over version by version to rosters that keep a quorum of the previous
one.

**MemberServer.** The process (`proc`), the loaded `key_state`, the atomic `committee_version`,
the periodic updater, its watch channel and the version monitor are separate variables, and
every await is a boundary between two actions: the fetch of a version, its send, the three
separate reads of `fetch_partial_key_server_for_member`, and the two look-ups of the share by
one request. A full node answers with a state up to `rpc.lag` rotations old, or fails. Shares
are the pairs of version and party id they belong to, so the operator may mislabel them. A panic
of the updater task ends the task in a debug build and the process in a release build
(`panic = "abort"`); both are possible. `ShareHolder` says what the outside may rely on, about
the version of the share that a request is really answered with. The promise is made for a
server whose shares are filed by version (`FiledByVersion`): a server in rotation mode does not
compare its share with the chain, so that nothing keeps a mislabelled one from being served.
`ValidatedShareOnChain` is about the shares that are compared.

**Aggregator, CommitteeService.** A request copies the snapshot, collects results one at a time
in any order, verifies each (`verify_decryption_keys`), stops by the loop's break conditions and
aggregates. A refresh, a restart and a rotation may happen between any two results. A member that
is not in `Reliable` may answer anything from `Answer`, or nothing until the fetch times out.

**FetchKey.** `check_request` as the sequence of its awaits: package, MVR name (registry record,
and on testnet the object it refers to), certificate, aliases, signatures, policy. Each call to
a full node may answer from the past, fail for good, fail and be repeated, or never return: the
gRPC client has no timeout (`timeout` of the configuration reaches the JSON-RPC client only). `world[t]` is the
chain at time `t` and keeps its past for the properties. Durations wrap modulo `Word` as `u16`
does.

**ClientKeys, ValidPtb, PermissionedServer.** The operator registers, imports and exports
clients with any index; the server starts if `validate` and `load` accept. The client builds
any transaction of bounded size; `try_from`, `full_ids` and `add_staleness_check_to_ptb` are
operators on it.

**EventMonitors.** The two alerting tasks against a chain that rotates and votes meanwhile.

**DkgCeremony.** The commands as their sequences of file writes and transactions; a process may
stop between any two of these, a transaction may be executed late or never, and the next
command works on what is left on disk. The outputs of the protocol are the set of messages they
were computed from.

**Gf256, Tss, MovePolynomial, SealEncryption, SealedObject, Voting.** The field with the tables
of the source, both ways of interpolating, `seal_encrypt`, the two forms of `seal_decrypt`, and
the decryption on chain. The chain takes the shares in the order in which the derived keys are
given, the Rust crate in the order of the object. Sharing is computed on one byte; pairings,
hashes and MACs are tuples of their inputs.

**MetricsProxy.** The push job with its timeout, the proxy's middleware, handler, posts in
requests of limited size, histogram relay, and a database that refuses samples that are not
newer than what it has. Labels are part of the model since they decide which series a sample
belongs to: two servers with the same labels would overwrite each other's samples, and
`CreatedIsStored` would fail.

## The runs

| run | what it shows |
|---|---|
| `committee_rotation` | With fresh DKG, chains of rotations and competing candidates there is one custodian of key server and upgrade manager (`SingleCustodian`), every member submitted the key material that is used (`KeyMaterialEndorsed`), a recorded proposal is never replaced (`ProposalIsFinal`), a candidate that lost stays where it is (`OrphansFrozen`), and the package implements `KeyCustody` (`CustodySpec`). |
| `committee_upgrade` | Votes on upgrades interleave with a rotation and with the calls inside the authorizing transaction: a pending proposal is always current (`PendingProposalCurrent`), every authorized upgrade had its quorum and no version is authorized twice (`UpgradesHadQuorum`), and a DKG whose members act completes or is overtaken (`DkgCompletes`). |
| `member` | A request never misses the share it has checked for (`CheckedAlready`), a validated share was the member's on chain (`ValidatedShareOnChain`), the shares it answers with follow `ShareHolder` (`ServesAsPromised`) and follows a rotation or exits (`Switchover`). |
| `service` | A success recovers the key (`AggregateRecovers`), a failure has a cause (`FailureIsReal`), no waiting for answers that cannot matter (`NeverWaitsInVain`), and after rotations, restarts and lag end the service works again (`ServiceRecovers`). |
| `fetch_key` | A verdict is at most `allowed_staleness` old (`VerdictFresh`), keys only within a session (`SessionBounded`) and under a name that pointed to the package (`NameWasBound`), and a request is answered unless one attempt of one call never returns (`Answered`). |
| `certificate_ttl` | A disagreement, see below. |
| `permissioned` | Derived keys are never handed on (`KeysNeverHandedOn`), proofs of possession are of the keys that are served and the start does not panic (`PopsOfServedKeys`), each id handed out was approved and is its owner's (`EveryIdApproved`), and the staleness check does not shift what the client signed (`SimulatesWhatWasSigned`). |
| `monitors` | Rotations are told once each and in order (`AlertsInOrder`), and all of them (`EveryRotationTold`). |
| `ceremony` | An approved share is on disk (`ApprovedShareOnDisk`), a proposal is from messages of its own committee (`ProposalFromOwnMessages`), outputs on disk are of one run (`OutputsOfOneRun`), and the ceremony ends in spite of crashes and lost transactions (`Finalizes`). |
| `sealed_object` | Who holds enough keys reads, by all three ways alike, in whatever order the keys came (`SealedReadable`); what the chain decrypts is what everybody decrypts, whoever made the object (`OnChainReadsAgree`); the two interpolations agree on any shares (`OneInterpolation`); the tables are those of the field (`FieldTables`). |
| `voting` | The tally is of the sealed intents (`TallyOfIntents`), enough released keys always finalize a vote that lists no key server twice (`ReleasedKeysFinalize`), and ballots are fixed before the first key is out (`BallotsFixedBeforeKeys`). |
| `proxy` | A push that was acknowledged is stored in full (`CreatedIsStored`), histograms are scraped at most once and dropped only when old (`HistogramsOnce`), and once disturbances end the next push of every known server is acknowledged (`PushesRecover`). |

Deadlock is checked where the system runs for ever (`member`, `service`, `fetch_key`,
`monitors`). It is off where it may stop: a chain on which every committee id or version is
used up, a ceremony or a vote that is over, a transaction at its size limit, the end of time.

### Bounds

- `committee_rotation`: three accounts, three committee ids (a fresh committee and two
  rotations, one after the other or in competition), rosters of one to three members of which
  one has a duplicate, thresholds 1 to 3, vectors of partial keys of two lengths and orders, two
  public keys. `MaxU16` is 4, just above the largest roster, and `MaxU32` is 2, the version after
  two rotations. Committee ids, names and public keys are symmetric.
- `committee_upgrade`: two committees, two digests, threshold 2, up to two upgrades (`MaxU64`).
  Every account has one name of its own (`NamesOf`), as names play no role in the votes. No
  symmetry, as a liveness property is checked.
- `member`: versions 0 to 2, so that the member joins, continues under another party id, and can
  be restarted behind and ahead; two requests; full nodes exact, failing, or one rotation behind.
- `service`: a committee of three with threshold two grows to four with threshold three, party
  ids move, one member answers anything. One request suffices: requests share nothing but the
  snapshot, which each copies once.
- `fetch_key`: four moments of time, all delays 1, `Word` 4 so that products wrap, two attempts
  per call, one request at a time whose slot is reused; a second request matters only through
  the caches, which outlive the first.
- `permissioned`: two of three clients, one of which claims a package of another; indices 0 to 2;
  two inputs, two commands of up to two arguments, and transactions beyond the limit that repeat
  one command; index limit 3 so that the server's own inputs reach it.
- `monitors`: two rotations and two proposals. `ceremony`: six plans with two or three members,
  each with one crash or lost transaction, one restart with a second committee, or one repeated
  round of messages.
- `sealed_object`: three servers, once with a server of weight two, every threshold, bytes 0 and
  202, two readers; other software numbers the shares in another order, with an index twice or
  with 0. `voting`: two voters, three places for servers, once with a repeated server, every
  threshold, two options.
- `proxy`: two servers that differ in their token only and one that is not listed, two moments of
  time, three series in requests of two, two open requests and two posts under way. The server
  with the shorter interval has a tick left after the disturbances end.

### Fairness

- `committee_upgrade` (`MembersAct`): in each committee somebody whose registration or proposal
  the chain accepts makes it. The code cannot force members to act; the property says that no
  order of their calls gets stuck. A transaction that took a ticket ends, as Move requires.
- `member` (`TasksRun`): tokio runs the tasks, and polls of the version are strongly fair: they
  may fail, but not each time. That a poll returns at all is an assumption on the full node, as
  the client has no timeout. `Switchover` is stated for full nodes that are not behind, since
  the watch channel keeps the last value only and a node that alternates between old and new can
  hide the new one.
- `service`: reliable members answer, and the timeout of a fetch expires; nobody else has to
  answer. Without the timeout `ServiceRecovers` fails: a request that began during a rotation can
  need a member that never answers. The refresh task runs; reliable operators bring their servers
  back. `ServiceRecovers` is conditional on the disturbances ending.
- `fetch_key`: the server goes on with a request from one await to the next. Nothing is assumed
  of the full nodes: `Answered` says that a request can wait for nothing but a single call, and
  that failures and retries end. `monitors`: reads succeed again and again.
- `proxy`: time passes, tasks go on, what is not lost arrives, and the timeout of a node's client
  expires when the push it waits for is lost. Disturbances need not end (`CalmsDown` is not
  fair); `PushesRecover` is about the behaviours in which they do.
- `ceremony`: submitted transactions are executed unless they are lost, commands go on, and
  operators do what the tool tells them to do next. Processing and removing outputs are strongly
  fair, since a member may also repeat earlier commands for ever.

## The proofs

TLC checks the instances above; TLAPS checks the following for all values of the constants, under
the named assumptions of the modules. Most only give the constants their types
(`ConstantTypes`, `Durations`, `FetchTypes`, `VersionBound`, `Seats`) or say that `None` is not
one of the values it stands beside (`NoneIsAbsent`, `NoneIsNot`, `NoneIsNoOutput`). Two say more:
`Committees`, that a committee's threshold is between 1 and its size, which the chain checks; and
`CeremonyConstants`, that a rotation's old threshold is positive and not above the number of
continuing members. The inductive invariants were checked by TLC on the instances before they
were proved.

**SealCommitteeProofs.** `TypeInvariant`: types, and `RosterInv`: a committee's roster has no
duplicates and is at least as long as its threshold, and from `PostDKG` on everybody is
registered. The latter needs a counting lemma (`AsManyMeansAll`), since the code compares numbers
and not sets. `CustodianIsSingle` (`SingleCustodian`): the property is not inductive, as it does
not say why a fresh committee cannot finalize beside a rotated one. `LineageInv` does: the one
upgrade cap of the package is spent on the first committee (`CapSpent`), hence there is one fresh
committee (`OneFresh`), no rotation settles before it (`FreshSettlesFirst`), and it holds the
upgrade manager until then and nobody else does (`FreshHoldsManager`, `ManagerOnlyThere`).

**KeyCustodyProofs.** `NextStepOf`: every call does one of a few things to committees (`StepOf`:
it opens one, registers, relocates, records a proposal, creates the key server, rotates it, or
touches none of this). The theorems are then about these kinds of step. `ProposalsAreFinal` and
`OrphansAreFrozen` are the two action properties. `ImplementsCustody` (`CustodySpec`) is the refinement: creating maps to
`Create`, rotating to `Rotate`, all else stutters; that a rotation keeps a quorum at its end,
although it was checked at its start, is the invariant `KeepsQuorum`. `MaterialIsEndorsed`
(`KeyMaterialEndorsed`) rests on `EndorseInv`: who is among the approvals has submitted exactly
the recorded proposal, and a finalized committee's approvals are its whole roster.

**UpgradeProofs.** `PendingIsCurrent` (`PendingProposalCurrent`) and `QuorumIsBehindUpgrades`
(`UpgradesHadQuorum`), again from the few things a call can do to the upgrade manager
(`NextManagerStep`: nothing, wrap a fresh cap, move it in a rotation, a vote). The first is
inductive; it is what makes the votes that `authorize_upgrade` counts standing consents of
members. That no version is authorized twice is not: `VersionsSpent` adds that every authorized
version is at most the cap's, plus one while a ticket is out, and `UpgradesKnown` that whoever
authorized an upgrade exists, so that by `CapSpent` no cap at version 1 is wrapped afterwards.
`OneManager` keeps a second cap out.

**FetchKeyProofs.** `VerdictIsFresh`, `SessionIsBounded` and `NameIsBound`, for any number of
concurrent requests, any delays and any history of the chain. Their invariant `Inv` carries what
a request knows at each of its awaits: the cached first version is right (`PackageCacheInv`), a
cached name was true within the cache's time to live plus the full node's lag (`MvrCacheInv`), the
object that is read on testnet came from the record (`InfoInv`), the name was bound from its
resolution on (`NameInv`), and the certificate was valid at some moment since the arrival
(`SessionInv`). `SessionIsBounded` holds with the wrapping product: a product modulo the word is
never larger than the product.

**MemberServerProofs.** For any number of versions and requests, any seats of the member, any
labels the operator gives its shares and any lag of the full nodes. `ServerInv` is the inductive
invariant: where process, version monitor and requests can be together (`ControlInv`), which
shares are there and were dealt to this member (`ShareInv`), and that every version the server
holds was read from the chain, with the counter one below the target until the monitor moves it
(`VersionInv`). From it follow `CheckedStaysTrue` (`CheckedAlready`): the one step that changes
the share in use switches to one that `load` required; `SharesAreOnChain`
(`ValidatedShareOnChain`): the comparison with the partial public key is enough although its
reads are not one snapshot; and `KeepsItsPromise` (`ServesAsPromised`), the refinement of
`ShareHolder` by the version of the share in use. It needs `FiledInv`: shares that are filed by
version when the server starts stay so, so that the version of the share is the one the counter
names (`ServesItsVersion`). Coming up maps to `Start`, the monitor's switch to `Switch`, or to `Start` when
the server had no share of the version before, every end of the process to `Stop`.

**CommitteeServiceProofs.** For committees of any size and threshold, any number of rotations,
requests and key ids, and members that answer anything. `ServiceInv` accounts for every member a
request fanned out to (`Collected`): pending, among the responses, or among the errors, and the
three add up to the size of the committee of the request's own snapshot; the responses are of
different parties and each is verified under its party's partial key. `FailuresAreReal`
(`FailureIsReal`) and `WaitsForAReason` (`NeverWaitsInVain`) are then arithmetic over the loop's
break conditions. `AggregatesRecover` (`AggregateRecovers`) needs that a verified response has
each id exactly once, so that every id has exactly threshold shares of different parties
(`OneShareEach`) and `aggregate_encrypted` combines all of them (`CombinesAll`). Nothing about
`Reliable` members is used: the three hold whoever answers.

**DkgCeremonyProofs.** For any members, thresholds and committees and any number of keys,
messages, crashes, lost transactions, restarts and repeated rounds. None of the three properties
is inductive. `CeremonyInv` adds: a run of `process-all-and-propose` holds messages it has
checked, finds only fields that are empty or its own, and has written the share before it
proposes (`RunOk`); no such run is under way while the member has a proposal for that committee
on chain or in flight (`RunsInv`); a proposal in flight has its share on disk as well
(`ShareInv`); and a member that proposed to a committee and left it is not sent back to it
(`NamesInv`), since the coordinator names a committee once. `OneEach` turns the code's comparison
of two counts into one message per sender. The theorems are `ApprovedSharesAreKept`
(`ApprovedShareOnDisk`), `ProposalsFromOwnMessages` (`ProposalFromOwnMessages`) and
`OutputsAreOfOneRun` (`OutputsOfOneRun`).

**PermissionedServerProofs.** For any clients, packages and indices, any number of edits and
restarts, and transactions of any size. `KeysNeverHandedOn` is not inductive, as it does not say
who has which index. `PermissionedInv` does: the configuration is the valid one the server last
started with, its keys are those `load` makes of it, and whoever was ever served still has their
entry with that index, exported or not. Registering and importing keep this by appending;
exporting does since the operator cannot type another index than the entry had: `validate`
requires as many indices as there are from 0 on, which by counting leaves no other
(`NoGaps`, `ExportKeepsIndex`). From it follow `KeysAreNotHandedOn` (`KeysNeverHandedOn`),
`PopsAreOfServedKeys` (`PopsOfServedKeys`) and `EveryIdIsApproved` (`EveryIdApproved`): an id is
in one entry only, so that `load` maps all ids of a client to its one key (`LoadedKeys`), and each
accepted command contributes its own first argument (`Approved`). `SimulatesTheSigned`
(`SimulatesWhatWasSigned`) needs no more than that inputs and commands are lists.

Only model-checked: the monitors and the metrics proxy, for which no inductive invariant has been
worked out; everything on `Gf256`, that is sealed objects and the vote, since the field's
definitions are recursive and bitwise and what they compute needs induction over data; and all
liveness, which needs ENABLED.

## Where code and words disagree

- `certificate_ttl` (`TtlWithinMax`): `from_mins` multiplies in `u16`. A certificate for 1093
  minutes counts as 44 seconds and passes the check that the lifetime "must be smaller than the
  allowed max" of 30 minutes. `SessionBounded`, which holds and is proved, says that no session
  becomes longer by it: such a certificate expires after 44 seconds.
- `combine_and_check_share_consistency` of the Rust crate says "check that all subsets of shares
  would reconstruct the same polynomial" (`crates/crypto/src/lib.rs:341`). It checks that all
  shares lie on the polynomial of the given ones but, unlike the chain, not that its degree is
  below the threshold: shares on a polynomial of higher degree pass for a reader with many keys,
  and one with just the threshold in general gets an error. `OnChainReadsAgree` is therefore about what
  the chain decrypts.
- A key server "can be used multiple times to enable weighting" (`docs/content/UsingSeal.mdx:83`),
  and sealed objects allow it (`SealedReadable`). A vote does not: `finalize_vote` hands one public
  key per place to `decrypt`, which refuses repeated ones, so that a vote that lists a key server
  twice never has a result.
- `RetryConfig::max_retries` is called "the maximum number of retries"; it is the number of
  attempts, as the tests count them, and 0 and 1 are the same.

Behaviour that follows from the code and that a reader may not expect, and that the properties
are therefore stated around: the upgrade monitor tells proposals apart by package version, so
that a second proposal for the same version, made between two polls, is not told;
`reject_digest_for_upgrade` names no digest and counts for whatever proposal is pending; a vote
that lists an address twice is never complete, as only the first of its slots can be filled; the
age of a certificate is checked once, so that keys may be released after it expired, by as long
as the later calls of the request take (`SessionBounded`: it was valid at some moment of the
request); the record of a testnet name may have been read long before the object it refers to
(`NameWasBound` bounds the second read, and places the first at some earlier time); the reads behind a partial key are not
one snapshot, so that during a rotation a start may fail that would succeed a moment later.

## Not modelled

- The cryptography of groups, hashes and the DKG library (`fastcrypto`, `fastcrypto_tbls`), which
  are outside the repository: they appear by what their results are computed from.
- Byte-level parsing, BCS, the stream cipher of `hmac256ctr`, and the wire format of the metrics
  (generated code).
- The V1 and independent variants of the key server object, and the open server mode: they have
  one key and no protocol.
- The other access patterns and the examples: each is one object with a guard, which `FetchKey`
  sees as a policy that approves or does not.
- Delays as durations (backoff, intervals): time passes in units, and fairness takes the place of
  a timer. Torn writes of `dkg.yaml`, which is rewritten in place.
- `check-committee` and other commands that only read, `seal-cli`, `seal-sdk`, headers, the
  service endpoint, and the servers' own metrics: they hold no state that another part reads.
- Removing the entry of a client from a permissioned server's configuration: operators export a
  client and keep its entry, which is what keeps its index taken.
