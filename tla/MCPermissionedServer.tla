------------------------ MODULE MCPermissionedServer ------------------------
(* Two clients and a third one that asks for a package of the first; p2 is an upgrade of p1. *)
(* The index limit of a transaction is reached by the server's own inputs.                    *)
EXTENDS PermissionedServer, TLC

CONSTANTS p1, p2, p3, o1, o2, o3

C(name, oid, pkgs) == [name |-> name, key_server_object_id |-> oid, package_ids |-> pkgs]
MCClient == {C("a", o1, {p1}), C("b", o2, {p3}), C("c", o3, {p1, p3})}
MCFirstPkg == (p1 :> p1) @@ (p2 :> p1) @@ (p3 :> p3)
=============================================================================
