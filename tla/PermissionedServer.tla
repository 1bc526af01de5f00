------------------------- MODULE PermissionedServer -------------------------
(***************************************************************************)
(* A permissioned key server: the keys of its clients (ClientKeys) and the *)
(* transactions it is asked to evaluate (ValidPtb), put together by        *)
(* check_request and create_response (crates/key-server/src/server.rs).    *)
(* The keys do not change while a request is served, so the operator acts  *)
(* between requests.  Signature, session and simulation are in FetchKey.   *)
(***************************************************************************)
EXTENDS ClientKeys, ValidPtb

CONSTANT FirstPkg   \* FirstPkg[p]: the first published version of package p

ASSUME FirstPkgAssumption == FirstPkg \in [Package -> Package]

vars == <<cvars, ptb>>

fetch_first_pkg_id(p) == FirstPkg[p]

\* The keys that answer a request: those of the one client, for the ids under the first
\* version of the package.
fetch_key(p) ==
  IF ~try_from(p) THEN Error
  ELSE LET first_pkg_id == fetch_first_pkg_id(pkg_id(p))
           key == get_key_for_package(first_pkg_id)
       IN  IF key = None THEN Error ELSE [key |-> key, ids |-> full_ids(p, first_pkg_id)]

Init == CInit /\ ptb = [inputs |-> <<>>, commands |-> <<>>]

Next ==
  \/ ptb = [inputs |-> <<>>, commands |-> <<>>] /\ Operate /\ UNCHANGED ptb
  \/ server # None /\ (AddInput \/ AddCommand) /\ UNCHANGED cvars

Spec == Init /\ [][Next]_vars

-----------------------------------------------------------------------------
\* What is handed out was asked for and is the owner's: each id is the first argument of a
\* seal_approve call, all calls are of versions of one package, which one client alone lists
\* and which prefixes the ids, and the key is that client's.  The panics of inner_ids and
\* pkg_id are unreachable.  ValidPtb::try_from, check_request, create_response.
EveryIdApproved ==
  LET answer == fetch_key(ptb)
  IN  answer # Error =>
        \E e \in Range(client_configs) :
          /\ answer.key = master_key(e) /\ Active(e)
          /\ \A id \in Range(answer.ids) :
               \E c \in Range(ptb.commands) :
                 /\ c.kind = "MoveCall" /\ c.function = "seal_approve"
                 /\ c.arguments # <<>>
                 /\ id = <<fetch_first_pkg_id(c.package), Input(ptb, c.arguments[1])>>
                 /\ id[1] \in e.package_ids /\ id[2] \in KeyId

=============================================================================
