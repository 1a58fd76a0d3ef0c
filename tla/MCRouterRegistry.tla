-------------------------- MODULE MCRouterRegistry --------------------------
(***************************************************************************)
(* Three routers, the third a restart of the first, that may live one      *)
(* after another or side by side in a registry of three slots, and open    *)
(* links to each other or, before the other is there, to a peer elsewhere. *)
(***************************************************************************)
EXTENDS RouterRegistry

CONSTANTS r1, r2, r3, home, away, m1

RegistryRouters == {r1, r2, r3}
RegistryDests == {home, away}
RegistryDestOf == [r \in RegistryRouters |-> IF r = r2 THEN away ELSE home]
RegistryMsgs == {m1}
=============================================================================
