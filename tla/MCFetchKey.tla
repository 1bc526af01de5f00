----------------------------- MODULE MCFetchKey -----------------------------
(* Small instances of FetchKey: package app2 is an upgrade of app, other is a package of    *)
(* somebody else that the server also has a key for, closed one that it has no key for, and *)
(* ghost does not exist.                                                                     *)
EXTENDS FetchKey, TLC

CONSTANTS app, app2, other, closed, ghost, name1, badname, i1, i2

MCFirst == (app :> app) @@ (app2 :> app) @@ (other :> other) @@ (closed :> closed) @@ (ghost :> None)

W(access, aliases, app_info, networks, default) ==
  [access |-> access, aliases |-> aliases, app_info |-> (name1 :> app_info), networks |-> (name1 :> networks),
   default |-> default]

MCPackageAddress == (i1 :> app) @@ (i2 :> other)

Both == (i1 :> name1) @@ (i2 :> name1)

\* The policy changes and aliases are enabled; the MVR record is repointed and removed; its
\* objects of testnet change their name as well; a network without MVR.
MCSetting ==
  {[network |-> "Mainnet", worlds |-> {W(TRUE, FALSE, app, None, Both), W(FALSE, FALSE, app, None, Both),
                                       W(TRUE, TRUE, app, None, Both)}],
   [network |-> "Mainnet", worlds |-> {W(TRUE, FALSE, app, None, Both), W(TRUE, FALSE, other, None, Both),
                                       W(TRUE, FALSE, None, None, Both)}],
   [network |-> "Testnet", worlds |-> {W(TRUE, FALSE, None, i1, Both), W(TRUE, FALSE, None, i2, (i1 :> name1) @@ (i2 :> badname)),
                                       W(TRUE, FALSE, None, i1, (i1 :> None) @@ (i2 :> name1))}],
   [network |-> "Devnet", worlds |-> {W(TRUE, FALSE, app, i1, Both)}]}

\* For certificates only.
TtlSetting == {[network |-> "Mainnet", worlds |-> {W(TRUE, FALSE, app, None, Both)}]}

Body(package, name, signed, ttl, created, ok) ==
  [package |-> package, mvr_name |-> name, signed_name |-> signed, ttl_min |-> ttl,
   creation_time |-> created, session_ok |-> ok]

\* Certificates on both sides of every limit and of the word size; names and signatures that
\* match and that do not.
MCPayload ==
  {Body(app2, None, app, ttl, 0, TRUE) : ttl \in {2, 3, 5}}
  \cup {Body(app2, None, app, 2, 2, TRUE),
        Body(app2, None, app2, 2, 0, TRUE), Body(app2, None, app, 2, 0, FALSE),
        Body(closed, None, closed, 2, 0, TRUE), Body(ghost, None, ghost, 2, 0, TRUE),
        Body(app2, name1, name1, 2, 2, TRUE), Body(other, name1, name1, 2, 2, TRUE),
        Body(app2, badname, badname, 2, 2, TRUE)}

\* Lifetimes in minutes on both sides of the limit and of the word size.
TtlPayloads == {Body(app, None, app, ttl, 0, TRUE) : ttl \in {29, 30, 31, 1092, 1093, 1122, 65535}}

=============================================================================
