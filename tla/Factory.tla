------------------------------ MODULE Factory ------------------------------
(***************************************************************************)
(* The vault registry (contracts/factory): a list of vaults that an admin  *)
(* extends, after asking each vault for its manager, and shortens.  The    *)
(* vaults themselves are seen through get_manager only.                    *)
(***************************************************************************)
EXTENDS Integers, SequencesExt

CONSTANTS
    Admins,      \* addresses that call the factory
    Managers,    \* addresses that may manage a vault
    Vaults,      \* addresses that callers pass as a vault
    NoAdmin,     \* initialize has not run
    NoManager,   \* get_manager panics: not initialized, or no vault at all
    PAGE_CAP     \* most entries of a page, 50 in the code

ASSUME FactoryAssumption ==
    /\ NoAdmin \notin Admins
    /\ NoManager \notin Managers \cup Vaults
    /\ PAGE_CAP \in Nat \ {0}

VARIABLES
    admin,       \* DataKey::Admin
    vaults,      \* DataKey::Vaults
    managerOf    \* what each vault's get_manager answers

factoryVars == <<admin, vaults, managerOf>>

FactoryTypeOK ==
    /\ admin \in Admins \cup {NoAdmin}
    /\ vaults \in Seq(Vaults)
    /\ managerOf \in [Vaults -> Managers \cup {NoManager}]

FactoryInit ==
    /\ admin = NoAdmin
    /\ vaults = <<>>
    /\ managerOf = [v \in Vaults |-> NoManager]

IsRegistered(v) == v \in ToSet(vaults)

\* (mutant) the offset counts from 1
GetVaultsFromOne(offset, limit) ==
    LET cap == IF limit < PAGE_CAP THEN limit ELSE PAGE_CAP
    IN  SubSeq(vaults, offset + 2,
               IF offset + cap < Len(vaults) THEN offset + cap ELSE Len(vaults))

\* The page that starts at `offset`, which counts from 0.
GetVaults(offset, limit) ==
    LET cap == IF limit < PAGE_CAP THEN limit ELSE PAGE_CAP
    IN  SubSeq(vaults, offset + 1,
               IF offset + cap < Len(vaults) THEN offset + cap ELSE Len(vaults))

-----------------------------------------------------------------------------

Initialize(a) ==
    /\ admin = NoAdmin
    /\ admin' = a
    /\ vaults' = <<>>
    /\ UNCHANGED managerOf

\* (mutant) a vault that is already registered is listed again
RegisterTwice(caller, v) ==
    /\ caller = admin
    /\ vaults' = Append(vaults, v)
    /\ UNCHANGED <<admin, managerOf>>

\* The part register_vault and verify_and_register_vault have in common.
Register(caller, v) ==
    /\ caller = admin
    /\ ~IsRegistered(v)
    /\ vaults' = Append(vaults, v)
    /\ UNCHANGED <<admin, managerOf>>

RegisterVault(caller, v, manager) ==
    managerOf[v] = manager /\ Register(caller, v)

\* (mutant) the vault is not asked for its manager
VerifyNothing(caller, v) == Register(caller, v)

VerifyAndRegisterVault(caller, v) ==
    managerOf[v] # NoManager /\ Register(caller, v)

\* (mutant) the last entry takes the place of the removed one
RemoveBySwap(caller, v) ==
    /\ caller = admin
    /\ \E i \in DOMAIN vaults :
          /\ vaults[i] = v
          /\ \A j \in 1 .. i - 1 : vaults[j] # v
          /\ vaults' = [j \in 1 .. Len(vaults) - 1 |->
                            IF j = i THEN vaults[Len(vaults)] ELSE vaults[j]]
    /\ UNCHANGED <<admin, managerOf>>

\* (mutant) copying stops at the removed entry
RemoveTruncating(caller, v) ==
    /\ caller = admin
    /\ \E i \in DOMAIN vaults :
          vaults[i] = v /\ vaults' = SubSeq(vaults, 1, i - 1)
    /\ UNCHANGED <<admin, managerOf>>

\* The first occurrence goes, the entries behind it close up.
RemoveVault(caller, v) ==
    /\ caller = admin
    /\ \E i \in DOMAIN vaults :
          /\ vaults[i] = v
          /\ \A j \in 1 .. i - 1 : vaults[j] # v
          /\ vaults' = RemoveAt(vaults, i)
    /\ UNCHANGED <<admin, managerOf>>

SetAdmin(caller, new) ==
    /\ caller = admin
    /\ admin' = new
    /\ UNCHANGED <<vaults, managerOf>>

\* A vault is initialized, or hands its management over (FeeTimelock's
\* SetManager).
VaultSetManager(v, m) ==
    /\ managerOf' = [managerOf EXCEPT ![v] = m]
    /\ UNCHANGED <<admin, vaults>>

FactoryNext ==
    \/ \E a \in Admins : Initialize(a)
    \/ \E c \in Admins, v \in Vaults, m \in Managers : RegisterVault(c, v, m)
    \/ \E c \in Admins, v \in Vaults : VerifyAndRegisterVault(c, v) \/ RemoveVault(c, v)
    \/ \E c, a \in Admins : SetAdmin(c, a)
    \/ \E v \in Vaults, m \in Managers : VaultSetManager(v, m)

FactorySpec == FactoryInit /\ [][FactoryNext]_factoryVars

-----------------------------------------------------------------------------

\* No sequence of registrations and removals lists a vault twice: otherwise
\* remove_vault, which drops one occurrence, would leave the vault registered.
ListedOnce == IsInjective(vaults)

\* A listed vault answers get_manager, whichever of the two entry points listed
\* it and whatever its managers did since.
ListedAreInitialized == \A v \in ToSet(vaults) : managerOf[v] # NoManager

\* Vaults keep their places relative to each other: a call that removes none
\* leaves every vault at its index, and a removal only closes the gap.
OrderKept ==
    [][ \A i, j \in DOMAIN vaults :
            i < j /\ {vaults[i], vaults[j]} \subseteq ToSet(vaults') =>
                \E k, l \in DOMAIN vaults' :
                    k < l /\ vaults'[k] = vaults[i] /\ vaults'[l] = vaults[j] ]_factoryVars

\* The list implements the set of registered vaults.
Registry == INSTANCE VaultRegistry WITH registered <- ToSet(vaults)
ImplementsRegistry == Registry!RegistrySpec

=============================================================================
