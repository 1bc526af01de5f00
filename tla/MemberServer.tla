---------------------------- MODULE MemberServer ----------------------------
(***************************************************************************)
(* A committee member's key server: crates/key-server in Committee mode.   *)
(*                                                                         *)
(* The process reads the on-chain committee version, loads its master      *)
(* shares (MasterKeys::load), checks them against the chain and serves     *)
(* requests.  In rotation mode two more tasks run: the periodic updater,   *)
(* which polls the version and sends it over a watch channel, and the      *)
(* version monitor, which switches to the next share.  A request looks up  *)
(* the share twice, before and after the awaits of its checks.             *)
(*                                                                         *)
(* A share is named by the version and the party id it belongs to; its     *)
(* public key has the same name, so that comparing partial public keys is  *)
(* comparing names.  Full nodes answer with a state some rotations old (rpc) *)
(* or not at all.  A definition named X_Suffix is a faulty variant of X that no      *)
(* specification uses.                                                     *)
(***************************************************************************)
EXTENDS Integers, Sequences

CONSTANTS
  MaxVersion,  \* the last committee version (u32::MAX in the code)
  Seat,        \* Seat[v]: this member's party id in committee v, or None
  Size,        \* Size[v]: the number of members of committee v
  Rpc,         \* how full nodes may behave: the rotations they may be behind (lag) and
               \* whether a read may fail for good (fails)
  Request,     \* requests to /v1/fetch_key
  None

Version == 0..MaxVersion

ASSUME VersionBound == MaxVersion \in Nat /\ Rpc \subseteq [lag : Nat, fails : BOOLEAN]
ASSUME Seats == Seat \in [Version -> Nat \cup {None}] /\ Size \in [Version -> Nat]
ASSUME NoneIsNot == None \notin Nat /\ None \notin Nat \X Nat

VARIABLES
  chain,              \* the version of the key server object on chain
  rpc,                \* how the full nodes behave, of Rpc
  config,             \* committee_state of the options file: Active or Rotation to a target
  env,                \* MASTER_SHARE_V{n}: a share or None
  proc,               \* the process: down, validating, warming (first version fetch), up
  key_state,          \* CommitteeKeyState
  committee_version,  \* the AtomicU32
  updater,            \* the periodic updater task: its place, the value it fetched
  watch,              \* the watch channel: its value, whether the receiver has not seen it, open
  monitor,            \* the version monitor task
  reads,              \* versions fetch_partial_key_server_for_member has read so far
  req                 \* per request: idle, or checked and waiting for its response

vars == <<chain, rpc, config, env, proc, key_state, committee_version, updater, watch, monitor,
          reads, req>>

serverVars == <<proc, key_state, committee_version, updater, watch, monitor, reads, req>>

-----------------------------------------------------------------------------
OwnShare(v) == <<v, Seat[v]>>

Share == Version \X Nat

CommitteeState ==
  [mode : {"Active"}, target_version : {0}] \cup [mode : {"Rotation"}, target_version : Version]

Active(share) ==
  [kind |-> "Active", master_share |-> share, next_master_share |-> None, target_version |-> 0]

Rotation(share, next, target) ==
  [kind |-> "Rotation", master_share |-> share, next_master_share |-> next,
   target_version |-> target]

\* The options an operator may have written: shares of the versions dealt so far, under any
\* version's name.
Environment ==
  [Version -> {OwnShare(v) : v \in {w \in Version : w <= chain + 1 /\ Seat[w] # None}}
              \cup {None}]

\* What a full node may answer with.
Readable == {v \in Version : v <= chain /\ chain <= v + rpc.lag}

-----------------------------------------------------------------------------
\* The key state for on-chain version v, None when loading fails.
load(cfg, v) ==
  LET target == cfg.target_version
  IN  CASE cfg.mode = "Active" /\ env[v] # None -> Active(env[v])
        [] cfg.mode = "Active" /\ env[v] = None /\ v < MaxVersion /\ env[v + 1] # None ->
             Rotation(None, env[v + 1], v + 1)
        [] cfg.mode = "Rotation" /\ target # 0 /\ v = target /\ env[target] # None ->
             Active(env[target])
        [] cfg.mode = "Rotation" /\ target # 0 /\ v = target - 1 /\ env[target] # None ->
             Rotation(env[v], env[target], target)
        [] OTHER -> None

get_committee_server_master_share_Early(ks, v) ==
  IF ks.kind = "Active" THEN ks.master_share ELSE ks.next_master_share

\* The share to answer with at version v, None for the Failure error.
get_committee_server_master_share(ks, v) ==
  CASE ks.kind = "Active" -> ks.master_share
    [] ks.kind = "Rotation" /\ v = ks.target_version -> ks.next_master_share
    [] ks.kind = "Rotation" /\ v + 1 = ks.target_version -> ks.master_share
    [] OTHER -> None

CurrentShare == get_committee_server_master_share(key_state, committee_version)

\* The entry of this member when the committee id was read at version c and the key server
\* object at version k: the party ids of k index the members of c.
to_partial_key_servers(c, k) ==
  IF Seat[c] # None /\ Size[k] <= Size[c] /\ Seat[c] < Size[k] THEN <<k, Seat[c]>> ELSE None

Validated_Unchecked(share, c, k, o) == TRUE

\* Whether the share passes when the third read, of committee c itself, is answered at o:
\* the object is gone once the committee has been rotated away.
Validated(share, c, k, o) == o <= c /\ to_partial_key_servers(c, k) = share

-----------------------------------------------------------------------------
\* Nothing of the process survives it.
ProcessEnds ==
  /\ proc' = "down"
  /\ key_state' = Active(None)
  /\ committee_version' = 0
  /\ updater' = [pc |-> "off", value |-> 0]
  /\ watch' = [value |-> 0, unseen |-> FALSE, open |-> FALSE]
  /\ monitor' = "off"
  /\ reads' = <<>>
  /\ req' = [r \in Request |-> "idle"]

Init ==
  /\ chain = 0
  /\ rpc \in Rpc
  /\ config = [mode |-> "Active", target_version |-> 0]
  /\ env = [v \in Version |-> None]
  /\ proc = "down"
  /\ key_state = Active(None)
  /\ committee_version = 0
  /\ updater = [pc |-> "off", value |-> 0]
  /\ watch = [value |-> 0, unseen |-> FALSE, open |-> FALSE]
  /\ monitor = "off"
  /\ reads = <<>>
  /\ req = [r \in Request |-> "idle"]

\* seal_committee finalizes a rotation of the committee.
Rotate ==
  /\ chain < MaxVersion
  /\ chain' = chain + 1
  /\ UNCHANGED <<rpc, config, env, serverVars>>

\* The operator edits the options file and the environment between two starts.
Reconfigure(cfg, e) ==
  /\ proc = "down"
  /\ config' = cfg
  /\ env' = e
  /\ UNCHANGED <<chain, rpc, serverVars>>

\* Server::new up to the loaded keys.  An error leaves the process down.
Start(v) ==
  /\ proc = "down"
  /\ v \in Readable
  /\ load(config, v) # None
  /\ key_state' = load(config, v)
  /\ committee_version' = v
  /\ IF key_state'.kind = "Active"
     THEN proc' = "validating" /\ UNCHANGED <<updater, watch>>
     ELSE /\ proc' = "warming"
          /\ updater' = [pc |-> "fetch", value |-> 0]
          /\ watch' = [value |-> 0, unseen |-> FALSE, open |-> TRUE]
  /\ UNCHANGED <<chain, rpc, config, env, monitor, reads, req>>

Validating == proc = "validating" \/ monitor = "validating"

\* Two of the three reads of fetch_partial_key_server_for_member.
FetchPartial(v) ==
  /\ Validating
  /\ Len(reads) < 2
  /\ v \in Readable
  /\ reads' = Append(reads, v)
  /\ UNCHANGED <<chain, rpc, config, env, proc, key_state, committee_version, updater, watch,
                 monitor, req>>

\* abort takes effect at the task's next await: one caught between its fetch and its send
\* still sends.
Abort(task) ==
  IF task.pc = "send" THEN [task EXCEPT !.pc = "last_send"] ELSE [task EXCEPT !.pc = "off"]

\* The third read and the comparison, at startup: the process panics when they fail.
ValidateAtStart(v) ==
  /\ proc = "validating"
  /\ Len(reads) = 2
  /\ v \in Readable
  /\ IF Validated(key_state.master_share, reads[1], reads[2], v)
     THEN /\ proc' = "up"
          /\ reads' = <<>>
          /\ UNCHANGED <<key_state, committee_version, updater, watch, monitor, req>>
     ELSE ProcessEnds
  /\ UNCHANGED <<chain, rpc, config, env>>

\* ... and in the monitor, which then publishes the target version, aborts the updater and
\* drops its receiver.
ValidateRotated(v) ==
  /\ monitor = "validating"
  /\ Len(reads) = 2
  /\ v \in Readable
  /\ IF Validated(key_state.next_master_share, reads[1], reads[2], v)
     THEN /\ committee_version' = key_state.target_version
          /\ updater' = Abort(updater)
          /\ watch' = [watch EXCEPT !.open = FALSE]
          /\ monitor' = "done"
     ELSE /\ monitor' = "panicked"
          /\ UNCHANGED <<committee_version, updater, watch>>
  /\ reads' = <<>>
  /\ UNCHANGED <<chain, rpc, config, env, proc, key_state, req>>

\* A read that fails after its retries.
FetchPartialFails ==
  /\ rpc.fails
  /\ Validating
  /\ IF proc = "validating"
     THEN ProcessEnds
     ELSE /\ monitor' = "panicked"
          /\ reads' = <<>>
          /\ UNCHANGED <<proc, key_state, committee_version, updater, watch, req>>
  /\ UNCHANGED <<chain, rpc, config, env>>

-----------------------------------------------------------------------------
updaterFrame == <<chain, rpc, config, env, proc, key_state, committee_version, monitor, reads, req>>

UpdaterFetch(v) ==
  /\ updater.pc = "fetch"
  /\ v \in Readable
  /\ updater' = [pc |-> "send", value |-> v]
  /\ UNCHANGED <<watch, updaterFrame>>

UpdaterFetchFails ==
  /\ rpc.fails
  /\ updater.pc = "fetch"
  /\ updater' = [updater EXCEPT !.pc = "tick"]
  /\ UNCHANGED <<watch, updaterFrame>>

\* Sending on a channel whose receiver is gone panics.  A build that unwinds loses the task,
\* whose handle nobody awaits; a release build aborts the process.
UpdaterSend ==
  /\ updater.pc \in {"send", "last_send"}
  /\ \/ /\ watch.open
        /\ watch' = [watch EXCEPT !.value = updater.value, !.unseen = TRUE]
        /\ updater' = [updater EXCEPT !.pc = "tick"]
        /\ UNCHANGED updaterFrame
     \/ /\ ~watch.open
        /\ updater' = [updater EXCEPT !.pc = "panicked"]
        /\ UNCHANGED <<watch, updaterFrame>>
     \/ /\ ~watch.open
        /\ ProcessEnds
        /\ UNCHANGED <<chain, rpc, config, env>>

UpdaterTick ==
  /\ updater.pc = "tick"
  /\ updater' = [updater EXCEPT !.pc = "fetch"]
  /\ UNCHANGED <<watch, updaterFrame>>

\* spawn_periodic_updater returns with the first value, which the monitor does not look at.
Warmed ==
  /\ proc = "warming"
  /\ watch.unseen
  /\ watch' = [watch EXCEPT !.unseen = FALSE]
  /\ proc' = "up"
  /\ monitor' = "waiting"
  /\ UNCHANGED <<chain, rpc, config, env, key_state, committee_version, updater, reads, req>>

\* What the monitor does about a version it sees.
Verdict(version, target) ==
  CASE version = target -> "validating"
    [] version + 1 = target -> "waiting"
    [] OTHER -> "panicked"

MonitorWakes ==
  /\ monitor = "waiting"
  /\ watch.unseen
  /\ watch' = [watch EXCEPT !.unseen = FALSE]
  /\ monitor' = Verdict(watch.value, key_state.target_version)
  /\ UNCHANGED <<chain, rpc, config, env, proc, key_state, committee_version, updater, reads, req>>

Exit_Swallowed == FALSE /\ UNCHANGED vars

\* The panic reaches main through the monitor handle.
Exit ==
  /\ monitor = "panicked"
  /\ ProcessEnds
  /\ UNCHANGED <<chain, rpc, config, env>>

\* The process is killed, as the runbook does before each restart.
Kill ==
  /\ proc # "down"
  /\ ProcessEnds
  /\ UNCHANGED <<chain, rpc, config, env>>

-----------------------------------------------------------------------------
has_key_for_package_Unchecked(r) ==
  /\ proc = "up"
  /\ req[r] = "idle"
  /\ req' = [req EXCEPT ![r] = "checked"]
  /\ UNCHANGED <<chain, rpc, config, env, proc, key_state, committee_version, updater, watch,
                 monitor, reads>>

\* check_request up to has_key_for_package; the awaits of the other checks follow.
has_key_for_package(r) ==
  /\ proc = "up"
  /\ req[r] = "idle"
  /\ CurrentShare # None
  /\ req' = [req EXCEPT ![r] = "checked"]
  /\ UNCHANGED <<chain, rpc, config, env, proc, key_state, committee_version, updater, watch,
                 monitor, reads>>

\* The rest of the request: one of the other checks fails, or create_response looks the key
\* up again and expects it to be there.
create_response(r) ==
  /\ req[r] = "checked"
  /\ req' = [req EXCEPT ![r] = "idle"]
  /\ UNCHANGED <<chain, rpc, config, env, proc, key_state, committee_version, updater, watch,
                 monitor, reads>>

-----------------------------------------------------------------------------
UpdaterStep == (\E v \in Version : UpdaterFetch(v)) \/ UpdaterFetchFails \/ UpdaterSend \/ UpdaterTick

ValidationStep ==
  \/ \E v \in Version : FetchPartial(v) \/ ValidateAtStart(v) \/ ValidateRotated(v)
  \/ FetchPartialFails

Next ==
  \/ Rotate
  \/ \E cfg \in CommitteeState, e \in Environment : Reconfigure(cfg, e)
  \/ \E v \in Version : Start(v)
  \/ ValidationStep
  \/ UpdaterStep
  \/ Warmed
  \/ MonitorWakes
  \/ Exit
  \/ Kill
  \/ \E r \in Request : has_key_for_package(r) \/ create_response(r)

Spec == Init /\ [][Next]_vars

\* The tasks of the process run, calls to full nodes return, with a result or an error, and
\* polls of the version do not fail for ever.  The calls have no timeout of their own, so that
\* their return is an assumption on the full nodes.  (A full node that is for ever now current,
\* now behind, can hide the current version from the monitor, since the channel keeps only the
\* last value: see Switchover.)
TasksRun ==
  /\ WF_vars(UpdaterStep)
  /\ SF_vars(UpdaterFetch(chain))
  /\ WF_vars(ValidationStep)
  /\ WF_vars(MonitorWakes)
  /\ WF_vars(Exit)

FairSpec == Spec /\ TasksRun

-----------------------------------------------------------------------------
KeyState ==
  [kind : {"Active", "Rotation"}, master_share : Share \cup {None},
   next_master_share : Share \cup {None}, target_version : Version]

\* The types of the variables.
TypeOK ==
  /\ chain \in Version /\ rpc \in Rpc
  /\ config \in CommitteeState
  /\ env \in [Version -> Share \cup {None}]
  /\ proc \in {"down", "validating", "warming", "up"}
  /\ key_state \in KeyState
  /\ committee_version \in Version
  /\ updater \in [pc : {"off", "fetch", "send", "last_send", "tick", "panicked"}, value : Version]
  /\ watch \in [value : Version, unseen : BOOLEAN, open : BOOLEAN]
  /\ monitor \in {"off", "waiting", "validating", "done", "panicked"}
  /\ reads \in Seq(Version)
  /\ req \in [Request -> {"idle", "checked"}]

\* create_response's expect("checked already"): a request that found a key before its awaits
\* finds one after them, although the version may have switched in between.
CheckedAlready == \A r \in Request : req[r] = "checked" => CurrentShare # None

\* A share served in active mode, or after the switch, has been the member's share on chain:
\* fetch_and_validate_committee_partial_pk compared it, also when the operator mislabelled it.
ValidatedShareOnChain ==
  proc = "up" /\ (key_state.kind = "Active" \/ monitor = "done") =>
    \E v \in Version : v <= chain /\ CurrentShare = OwnShare(v)

\* A server in rotation mode follows the chain: once the target version is on chain it
\* switches or it exits (the monitor panicked, or it was killed), also if reads fail.
Switchover ==
  rpc.lag = 0 /\ proc = "up" /\ key_state.kind = "Rotation" /\ chain >= key_state.target_version
    ~> proc = "down" \/ committee_version = key_state.target_version

\* The operator has filed every share under the version it is of.
FiledByVersion == \A v \in Version : env[v] \in {OwnShare(v), None}

\* The version of the share the server answers with.  Of a server whose shares are filed under
\* other names nothing is promised: in rotation mode the share of the version before is used
\* without having been compared with the chain.
Serving ==
  IF proc = "up" /\ FiledByVersion /\ CurrentShare # None THEN CurrentShare[1] ELSE None

Holder == INSTANCE ShareHolder WITH NoShare <- None, serving <- Serving

\* A server whose operator files shares under their versions implements ShareHolder: the share
\* it answers with is never of a version that is not on chain, although only one of the two it
\* holds in rotation mode is validated, and while up it moves to the next version's only.
\* MasterKeys::load, get_committee_server_master_share and the version monitor.
ServesAsPromised == Holder!Spec

=============================================================================
