--------------------------- MODULE VaultRegistry ---------------------------
(***************************************************************************)
(* What the factory promises: a set of registered vaults, to which a vault *)
(* is added only while it is not in it and from which a vault is removed   *)
(* entirely.                                                               *)
(***************************************************************************)

CONSTANT Vaults

VARIABLE registered

RegistryTypeOK == registered \subseteq Vaults

RegistryInit == registered = {}

Add(v) == v \notin registered /\ registered' = registered \cup {v}

Discard(v) == v \in registered /\ registered' = registered \ {v}

RegistryNext == \E v \in Vaults : Add(v) \/ Discard(v)

RegistrySpec == RegistryInit /\ [][RegistryNext]_registered

=============================================================================
