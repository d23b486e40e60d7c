--------------------------- MODULE FactoryProofs ---------------------------
(***************************************************************************)
(* The registry for any number of vaults, callers and readers' page sizes. *)
(***************************************************************************)
EXTENDS FactoryReader, TLAPS

\* What holds of the list between calls; before initialize it is empty.
ListInv ==
    /\ FactoryTypeOK
    /\ ListedOnce
    /\ ListedAreInitialized
    /\ admin = NoAdmin => vaults = <<>>

\* Without the entry at a place, the entries behind it close up.
LEMMA RemoveAtEntries ==
    ASSUME NEW S, NEW s \in Seq(S), NEW i \in DOMAIN s
    PROVE  /\ RemoveAt(s, i) \in Seq(S)
           /\ Len(RemoveAt(s, i)) = Len(s) - 1
           /\ \A j \in 1 .. Len(RemoveAt(s, i)) :
                 RemoveAt(s, i)[j] = s[IF j < i THEN j ELSE j + 1]
<1> DEFINE t == RemoveAt(s, i)
           at(j) == IF j < i THEN j ELSE j + 1
           before == SubSeq(s, 1, i - 1)
           after  == SubSeq(s, i + 1, Len(s))
<1>0. i \in 1 .. Len(s) /\ Len(s) \in Nat /\ \A j \in 1 .. Len(s) : s[j] \in S
    OBVIOUS
<1>1. /\ before \in Seq(S)
      /\ Len(before) = i - 1
      /\ \A j \in 1 .. i - 1 : before[j] = s[j]
    BY <1>0
<1>2. /\ after \in Seq(S)
      /\ Len(after) = Len(s) - i
      /\ \A j \in 1 .. Len(s) - i : after[j] = s[i + j]
    BY <1>0
<1>3. t = before \o after
    BY DEF RemoveAt
<1> HIDE DEF before, after, t
<1>4. t \in Seq(S) /\ Len(t) = Len(s) - 1
    BY <1>0, <1>1, <1>2, <1>3
<1>5. ASSUME NEW j \in 1 .. Len(t) PROVE t[j] = s[at(j)]
  <2>1. CASE j < i
      BY <1>0, <1>1, <1>2, <1>3, <1>4, <2>1
  <2>2. CASE j >= i
    <3>1. t[j] = after[j - (i - 1)]
        BY <1>0, <1>1, <1>2, <1>3, <1>4, <2>2, SMTT(30)
    <3>2. j - (i - 1) \in 1 .. Len(s) - i /\ i + (j - (i - 1)) = j + 1
        BY <1>0, <1>4, <2>2
    <3>3. after[j - (i - 1)] = s[i + (j - (i - 1))]
        BY <1>2, <3>2
    <3> QED
        BY <2>2, <3>1, <3>2, <3>3
  <2> QED
      BY <1>0, <2>1, <2>2
<1> QED
    BY <1>4, <1>5 DEF t

\* Without the entry at a place, a list that names nothing twice keeps all
\* other entries, and names nothing twice.
LEMMA RemoveAtFacts ==
    ASSUME NEW S, NEW s \in Seq(S), IsInjective(s), NEW i \in DOMAIN s
    PROVE  /\ RemoveAt(s, i) \in Seq(S)
           /\ IsInjective(RemoveAt(s, i))
           /\ ToSet(RemoveAt(s, i)) = ToSet(s) \ {s[i]}
<1> DEFINE t == RemoveAt(s, i)
           at(j) == IF j < i THEN j ELSE j + 1
<1>1. /\ i \in 1 .. Len(s)
      /\ Len(s) \in Nat
      /\ \A j \in 1 .. Len(s) : s[j] \in S
    OBVIOUS
<1>2. /\ t \in Seq(S)
      /\ Len(t) = Len(s) - 1
      /\ \A j \in 1 .. Len(t) : t[j] = s[at(j)]
    BY RemoveAtEntries
<1>3. \A j \in 1 .. Len(t) : at(j) \in 1 .. Len(s) /\ at(j) # i
    BY <1>1, <1>2
<1>4. \A j, k \in 1 .. Len(t) : at(j) = at(k) => j = k
    BY <1>1, <1>2
<1>5. \A k \in 1 .. Len(s) : k # i => \E j \in 1 .. Len(t) : at(j) = k
  <2> SUFFICES ASSUME NEW k \in 1 .. Len(s), k # i
               PROVE  \E j \in 1 .. Len(t) : at(j) = k
      OBVIOUS
  <2>1. CASE k < i
      BY <1>1, <1>2, <2>1
  <2>2. CASE k > i
      <3>1. k - 1 \in 1 .. Len(t) /\ at(k - 1) = k
          BY <1>1, <1>2, <2>2
      <3> QED BY <3>1
  <2> QED
      BY <1>1, <2>1, <2>2
<1>6. DOMAIN t = 1 .. Len(t) /\ DOMAIN s = 1 .. Len(s)
    BY <1>2
<1> HIDE DEF t, at
<1>7. IsInjective(t)
    BY <1>2, <1>3, <1>4, <1>6, ZenonT(30) DEF IsInjective
<1>8. ToSet(t) = ToSet(s) \ {s[i]}
  <2>1. ToSet(t) \subseteq ToSet(s) \ {s[i]}
      BY <1>1, <1>2, <1>3, <1>6 DEF ToSet, IsInjective
  <2>2. ToSet(s) \ {s[i]} \subseteq ToSet(t)
    <3> SUFFICES ASSUME NEW k \in 1 .. Len(s), s[k] # s[i] PROVE s[k] \in ToSet(t)
        BY <1>6 DEF ToSet
    <3>1. PICK j \in 1 .. Len(t) : at(j) = k
        BY <1>5
    <3>2. t[j] = s[k]
        BY <1>2, <3>1
    <3> QED
        BY <1>6, <3>2 DEF ToSet
  <2> QED
      BY <2>1, <2>2
<1> QED
    BY <1>2, <1>7, <1>8 DEF t

\* Appending a new entry adds it.
LEMMA AppendFacts ==
    ASSUME NEW S, NEW s \in Seq(S), IsInjective(s), NEW v \in S, v \notin ToSet(s)
    PROVE  /\ Append(s, v) \in Seq(S)
           /\ IsInjective(Append(s, v))
           /\ ToSet(Append(s, v)) = ToSet(s) \cup {v}
<1> DEFINE t == Append(s, v)
<1>1. /\ t \in Seq(S)
      /\ DOMAIN t = 1 .. Len(s) + 1
      /\ DOMAIN s = 1 .. Len(s)
      /\ Len(s) \in Nat
      /\ \A j \in 1 .. Len(s) : t[j] = s[j]
      /\ t[Len(s) + 1] = v
    OBVIOUS
<1>2. \A j \in 1 .. Len(s) : s[j] # v
    BY <1>1 DEF ToSet
<1> HIDE DEF t
<1>3. \A j \in DOMAIN t : j \in 1 .. Len(s) \/ j = Len(s) + 1
    BY <1>1
<1>4. IsInjective(t)
    BY <1>1, <1>2, <1>3 DEF IsInjective
<1>5. ToSet(t) = ToSet(s) \cup {v}
  <2>1. Len(s) + 1 \in DOMAIN t /\ \A j \in 1 .. Len(s) : j \in DOMAIN t
      BY <1>1
  <2> QED
      BY <1>1, <1>3, <2>1 DEF ToSet
<1> QED
    BY <1>1, <1>4, <1>5 DEF t

-----------------------------------------------------------------------------

\* A registration, by either entry point, keeps the list well formed and adds
\* its vault.
LEMMA RegisterStep ==
    ASSUME ListInv, NEW c \in Admins, NEW v \in Vaults, Register(c, v),
           managerOf[v] # NoManager
    PROVE  ListInv' /\ ToSet(vaults') = ToSet(vaults) \cup {v} /\ v \notin ToSet(vaults)
<1>1. /\ vaults \in Seq(Vaults) /\ IsInjective(vaults) /\ v \notin ToSet(vaults)
      /\ vaults' = Append(vaults, v) /\ managerOf' = managerOf /\ admin' = admin
      /\ admin # NoAdmin
    BY FactoryAssumption DEF ListInv, FactoryTypeOK, ListedOnce, Register, IsRegistered
<1>2. /\ vaults' \in Seq(Vaults) /\ IsInjective(vaults')
      /\ ToSet(vaults') = ToSet(vaults) \cup {v}
    BY <1>1, AppendFacts
<1> QED
    BY <1>1, <1>2 DEF ListInv, FactoryTypeOK, ListedOnce, ListedAreInitialized

\* A removal keeps the list well formed and takes its vault out of it.
LEMMA RemoveStep ==
    ASSUME ListInv, NEW c \in Admins, NEW v \in Vaults, RemoveVault(c, v)
    PROVE  ListInv' /\ ToSet(vaults') = ToSet(vaults) \ {v} /\ v \in ToSet(vaults)
<1>1. /\ vaults \in Seq(Vaults) /\ IsInjective(vaults)
      /\ managerOf' = managerOf /\ admin' = admin /\ admin # NoAdmin
    BY FactoryAssumption DEF ListInv, FactoryTypeOK, ListedOnce, RemoveVault
<1>2. PICK i \in DOMAIN vaults : vaults[i] = v /\ vaults' = RemoveAt(vaults, i)
    BY DEF RemoveVault
<1>3. v \in ToSet(vaults)
    BY <1>2 DEF ToSet
<1>4. /\ vaults' \in Seq(Vaults) /\ IsInjective(vaults')
      /\ ToSet(vaults') = ToSet(vaults) \ {v}
    BY <1>1, <1>2, RemoveAtFacts
<1> QED
    BY <1>1, <1>3, <1>4 DEF ListInv, FactoryTypeOK, ListedOnce, ListedAreInitialized

\* Every other step leaves the list as it is.
LEMMA OtherSteps ==
    ASSUME ListInv,
           \/ \E a \in Admins : Initialize(a)
           \/ \E c, a \in Admins : SetAdmin(c, a)
           \/ \E v \in Vaults, m \in Managers : VaultSetManager(v, m)
           \/ UNCHANGED factoryVars
    PROVE  ListInv' /\ vaults' = vaults
<1> USE DEF ListInv, FactoryTypeOK, ListedOnce, ListedAreInitialized
<1>1. ASSUME NEW a \in Admins, Initialize(a) PROVE ListInv' /\ vaults' = vaults
    BY <1>1, FactoryAssumption DEF Initialize
<1>2. ASSUME NEW c \in Admins, NEW a \in Admins, SetAdmin(c, a)
      PROVE  ListInv' /\ vaults' = vaults
    BY <1>2, FactoryAssumption DEF SetAdmin
<1>3. ASSUME NEW v \in Vaults, NEW m \in Managers, VaultSetManager(v, m)
      PROVE  ListInv' /\ vaults' = vaults
  <2>1. vaults' = vaults /\ admin' = admin
      BY <1>3 DEF VaultSetManager
  <2>2. managerOf' \in [Vaults -> Managers \cup {NoManager}]
      BY <1>3 DEF VaultSetManager
  <2>3. \A u \in Vaults : managerOf[u] # NoManager => managerOf'[u] # NoManager
      BY <1>3, FactoryAssumption DEF VaultSetManager
  <2>4. ToSet(vaults) \subseteq Vaults
      BY DEF ToSet
  <2> QED
      BY <2>1, <2>2, <2>3, <2>4
<1>4. ASSUME UNCHANGED factoryVars PROVE ListInv' /\ vaults' = vaults
    BY <1>4 DEF factoryVars
<1> QED
    BY <1>1, <1>2, <1>3, <1>4

\* A step keeps the list well formed and adds one vault, removes one, or leaves
\* the list alone.
LEMMA ListStep ==
    ASSUME ListInv, [FactoryNext]_factoryVars
    PROVE  /\ ListInv'
           /\ \/ vaults' = vaults
              \/ \E v \in Vaults :
                    \/ v \notin ToSet(vaults) /\ vaults' = Append(vaults, v)
                       /\ ToSet(vaults') = ToSet(vaults) \cup {v}
                    \/ v \in ToSet(vaults) /\ ToSet(vaults') = ToSet(vaults) \ {v}
<1>1. ASSUME NEW c \in Admins, NEW v \in Vaults, NEW m \in Managers,
             RegisterVault(c, v, m)
      PROVE  /\ ListInv' /\ v \notin ToSet(vaults) /\ vaults' = Append(vaults, v)
             /\ ToSet(vaults') = ToSet(vaults) \cup {v}
  <2>1. Register(c, v) /\ managerOf[v] # NoManager
      BY <1>1, FactoryAssumption DEF RegisterVault
  <2> QED
      BY <2>1, RegisterStep DEF Register
<1>2. ASSUME NEW c \in Admins, NEW v \in Vaults, VerifyAndRegisterVault(c, v)
      PROVE  /\ ListInv' /\ v \notin ToSet(vaults) /\ vaults' = Append(vaults, v)
             /\ ToSet(vaults') = ToSet(vaults) \cup {v}
  <2>1. Register(c, v) /\ managerOf[v] # NoManager
      BY <1>2 DEF VerifyAndRegisterVault
  <2> QED
      BY <2>1, RegisterStep DEF Register
<1>3. ASSUME NEW c \in Admins, NEW v \in Vaults, RemoveVault(c, v)
      PROVE  ListInv' /\ v \in ToSet(vaults) /\ ToSet(vaults') = ToSet(vaults) \ {v}
    BY <1>3, RemoveStep
<1>4. CASE \/ \E a \in Admins : Initialize(a)
           \/ \E c, a \in Admins : SetAdmin(c, a)
           \/ \E v \in Vaults, m \in Managers : VaultSetManager(v, m)
           \/ UNCHANGED factoryVars
    BY <1>4, OtherSteps
<1> QED
    BY <1>1, <1>2, <1>3, <1>4 DEF FactoryNext

\* The empty registry is well formed.
LEMMA ListStart == FactoryInit => ListInv
<1> SUFFICES ASSUME FactoryInit PROVE ListInv
    OBVIOUS
<1>1. vaults = <<>> /\ DOMAIN vaults = {}
    BY DEF FactoryInit
<1> QED
    BY <1>1 DEF FactoryInit, ListInv, FactoryTypeOK, ListedOnce,
                ListedAreInitialized, IsInjective, ToSet

LEMMA ListInvariant == FactorySpec => []ListInv
<1>1. ListInv /\ [FactoryNext]_factoryVars => ListInv'
    BY ListStep
<1> QED
    BY <1>1, ListStart, PTL DEF FactorySpec

\* Whatever vaults are registered and removed, no vault is listed twice, so
\* that remove_vault always removes it entirely.
THEOREM NoVaultListedTwice == FactorySpec => []ListedOnce
<1> QED
    BY ListInvariant, PTL DEF ListInv

\* A registered vault is an initialized one, by either way of registering.
THEOREM ListedInitialized == FactorySpec => []ListedAreInitialized
<1> QED
    BY ListInvariant, PTL DEF ListInv

\* Removing an entry keeps any two others in their order.
LEMMA RemoveAtKeepsOrder ==
    ASSUME NEW S, NEW s \in Seq(S), NEW i \in DOMAIN s,
           NEW p \in DOMAIN s, NEW q \in DOMAIN s, p < q, p # i, q # i
    PROVE  \E k, l \in DOMAIN RemoveAt(s, i) :
              k < l /\ RemoveAt(s, i)[k] = s[p] /\ RemoveAt(s, i)[l] = s[q]
<1> DEFINE t == RemoveAt(s, i)
           k == IF p < i THEN p ELSE p - 1
           l == IF q < i THEN q ELSE q - 1
<1>1. /\ t \in Seq(S) /\ Len(t) = Len(s) - 1
      /\ \A j \in 1 .. Len(t) : t[j] = s[IF j < i THEN j ELSE j + 1]
    BY RemoveAtEntries
<1>2. /\ Len(s) \in Nat /\ i \in 1 .. Len(s) /\ p \in 1 .. Len(s) /\ q \in 1 .. Len(s)
      /\ DOMAIN t = 1 .. Len(t)
    BY <1>1
<1>3. k \in 1 .. Len(t) /\ l \in 1 .. Len(t) /\ k < l
    BY <1>1, <1>2
<1>4. (IF k < i THEN k ELSE k + 1) = p /\ (IF l < i THEN l ELSE l + 1) = q
    BY <1>2
<1> HIDE DEF t, k, l
<1>5. t[k] = s[p] /\ t[l] = s[q]
    BY <1>1, <1>3, <1>4
<1> QED
    BY <1>2, <1>3, <1>5 DEF t

\* No call changes the order of the vaults that stay listed.
THEOREM OrderStays == FactorySpec => OrderKept
<1> DEFINE Ordered ==
        \A i, j \in DOMAIN vaults :
            i < j /\ {vaults[i], vaults[j]} \subseteq ToSet(vaults') =>
                \E k, l \in DOMAIN vaults' :
                    k < l /\ vaults'[k] = vaults[i] /\ vaults'[l] = vaults[j]
<1>1. ASSUME ListInv, [FactoryNext]_factoryVars
      PROVE  Ordered
  <2>0. vaults \in Seq(Vaults) /\ IsInjective(vaults)
      BY <1>1 DEF ListInv, FactoryTypeOK, ListedOnce
  <2>1. CASE vaults' = vaults
      BY <2>1
  <2>2. ASSUME NEW v \in Vaults, vaults' = Append(vaults, v)
        PROVE  Ordered
      BY <2>0, <2>2
  <2>3. ASSUME NEW c \in Admins, NEW v \in Vaults, RemoveVault(c, v)
        PROVE  Ordered
    <3>1. PICK r \in DOMAIN vaults : vaults[r] = v /\ vaults' = RemoveAt(vaults, r)
        BY <2>3 DEF RemoveVault
    <3>2. ToSet(vaults') = ToSet(vaults) \ {vaults[r]}
        BY <2>0, <3>1, RemoveAtFacts
    <3> SUFFICES ASSUME NEW i \in DOMAIN vaults, NEW j \in DOMAIN vaults, i < j,
                        {vaults[i], vaults[j]} \subseteq ToSet(vaults')
                 PROVE  \E k, l \in DOMAIN vaults' :
                            k < l /\ vaults'[k] = vaults[i] /\ vaults'[l] = vaults[j]
        OBVIOUS
    <3>3. i # r /\ j # r
        BY <3>2
    <3> QED
        BY <2>0, <3>1, <3>3, RemoveAtKeepsOrder
  <2> HIDE DEF Ordered
  <2>4. CASE \/ \E c \in Admins, v \in Vaults, m \in Managers : RegisterVault(c, v, m)
             \/ \E c \in Admins, v \in Vaults : VerifyAndRegisterVault(c, v)
      BY <2>2, <2>4 DEF RegisterVault, VerifyAndRegisterVault, Register
  <2>5. CASE \/ \E a \in Admins : Initialize(a)
             \/ \E c, a \in Admins : SetAdmin(c, a)
             \/ \E v \in Vaults, m \in Managers : VaultSetManager(v, m)
             \/ UNCHANGED factoryVars
      BY <1>1, <2>1, <2>5, OtherSteps
  <2> QED
      BY <1>1, <2>3, <2>4, <2>5 DEF FactoryNext
<1>2. ListInv /\ [FactoryNext]_factoryVars => [Ordered]_factoryVars
    BY <1>1
<1> QED
    BY <1>2, ListInvariant, PTL DEF FactorySpec, OrderKept

\* The compacted list implements the set: every call adds one unregistered
\* vault, removes one registered vault entirely, or changes nothing.
THEOREM ListImplementsRegistry == FactorySpec => ImplementsRegistry
<1>1. FactoryInit => Registry!RegistryInit
  <2> SUFFICES ASSUME FactoryInit PROVE ToSet(vaults) = {}
      BY DEF Registry!RegistryInit
  <2>1. DOMAIN vaults = {}
      BY DEF FactoryInit
  <2> QED
      BY <2>1 DEF ToSet
<1>2. ListInv /\ [FactoryNext]_factoryVars =>
          [Registry!RegistryNext]_(ToSet(vaults))
    BY ListStep DEF Registry!RegistryNext, Registry!Add, Registry!Discard
<1> QED
    BY <1>1, <1>2, ListInvariant, PTL
       DEF FactorySpec, ImplementsRegistry, Registry!RegistrySpec

-----------------------------------------------------------------------------

\* A prefix, element by element.
LEMMA PrefixByElements ==
    ASSUME NEW S, NEW s \in Seq(S), NEW t \in Seq(S)
    PROVE  IsPrefix(s, t) <=> Len(s) <= Len(t) /\ \A i \in 1 .. Len(s) : s[i] = t[i]
<1>1. Len(s) \in Nat /\ Len(t) \in Nat
    OBVIOUS
<1>2. SubSeq(s, 1, Len(s)) = s
    OBVIOUS
<1>3. ASSUME Len(s) <= Len(t)
      PROVE  /\ SubSeq(t, 1, Len(s)) \in Seq(S)
             /\ Len(SubSeq(t, 1, Len(s))) = Len(s)
             /\ \A i \in 1 .. Len(s) : SubSeq(t, 1, Len(s))[i] = t[i]
    BY <1>1, <1>3
<1>4. ASSUME Len(s) <= Len(t), \A i \in 1 .. Len(s) : s[i] = t[i]
      PROVE  s = SubSeq(t, 1, Len(s))
    BY <1>1, <1>3, <1>4
<1> QED
    BY <1>2, <1>3, <1>4 DEF IsPrefix

\* What a reader in progress has read, and what a finished one has.
ReaderInv ==
    /\ ListInv
    /\ seen \in Seq(Vaults)
    /\ reader \in {"idle", "reading", "done"}
    /\ throughout \subseteq Vaults
    /\ removals \in BOOLEAN
    /\ reader = "idle" => seen = <<>>
    /\ reader = "reading" => throughout \subseteq ToSet(vaults)
    /\ ReadIsPrefix
    /\ PagesCover

\* A page is a list of vaults, wherever it starts.
LEMMA PageTyped ==
    ASSUME NEW S, vaults \in Seq(S), NEW s \in Seq(S), NEW n \in Limits
    PROVE  s \o GetVaults(Len(s), n) \in Seq(S)
<1> DEFINE cap  == IF n < PAGE_CAP THEN n ELSE PAGE_CAP
           end  == IF Len(s) + cap < Len(vaults) THEN Len(s) + cap ELSE Len(vaults)
           page == SubSeq(vaults, Len(s) + 1, end)
<1>1. /\ Len(s) \in Nat /\ Len(vaults) \in Nat /\ cap \in Nat
      /\ end \in Nat /\ end <= Len(vaults)
    BY FactoryAssumption, LimitAssumption
<1> HIDE DEF cap, end
<1>2. page \in Seq(S)
    BY <1>1
<1>3. page = GetVaults(Len(s), n)
    BY DEF GetVaults, end, cap
<1> HIDE DEF page
<1> QED
    BY <1>2, <1>3

\* A page continues the prefix, and is empty only at the end of the list.
LEMMA PageFacts ==
    ASSUME NEW S, vaults \in Seq(S), NEW s \in Seq(S), NEW n \in Limits,
           IsPrefix(s, vaults)
    PROVE  /\ s \o GetVaults(Len(s), n) \in Seq(S)
           /\ IsPrefix(s \o GetVaults(Len(s), n), vaults)
           /\ GetVaults(Len(s), n) = <<>> => s = vaults
<1> DEFINE cap  == IF n < PAGE_CAP THEN n ELSE PAGE_CAP
           end  == IF Len(s) + cap < Len(vaults) THEN Len(s) + cap ELSE Len(vaults)
           page == SubSeq(vaults, Len(s) + 1, end)
           t    == s \o page
<1>1. cap \in Nat \ {0}
    BY FactoryAssumption, LimitAssumption
<1>2. /\ Len(s) \in Nat /\ Len(vaults) \in Nat /\ Len(s) <= Len(vaults)
      /\ \A i \in 1 .. Len(s) : s[i] = vaults[i]
    BY PrefixByElements
<1>3. /\ end \in Nat /\ Len(s) <= end /\ end <= Len(vaults)
      /\ end = Len(s) => Len(s) = Len(vaults)
    BY <1>1, <1>2
<1> HIDE DEF cap, end
<1>4. /\ page \in Seq(S)
      /\ Len(page) = end - Len(s)
      /\ \A i \in 1 .. end - Len(s) : page[i] = vaults[Len(s) + i]
    BY <1>2, <1>3
<1> HIDE DEF page
<1>5. t \in Seq(S) /\ Len(t) = end
    BY <1>2, <1>3, <1>4
<1>6. ASSUME NEW i \in 1 .. end PROVE t[i] = vaults[i]
  <2>1. CASE i <= Len(s)
      BY <1>2, <1>3, <1>4, <2>1
  <2>2. CASE i > Len(s)
    <3>1. i - Len(s) \in 1 .. end - Len(s) /\ Len(s) + (i - Len(s)) = i
        BY <1>2, <1>3, <2>2
    <3>2. t[i] = page[i - Len(s)]
        BY <1>2, <1>3, <1>4, <2>2
    <3> QED
        BY <1>4, <3>1, <3>2
  <2>3. i <= Len(s) \/ i > Len(s)
      BY <1>2, <1>3, <1>6
  <2> QED
      BY <2>1, <2>2, <2>3
<1> HIDE DEF t
<1>7. IsPrefix(t, vaults)
    BY <1>3, <1>5, <1>6, PrefixByElements
<1>8. page = <<>> => s = vaults
  <2> SUFFICES ASSUME page = <<>> PROVE s = vaults
      OBVIOUS
  <2>1. Len(s) = Len(vaults)
      BY <1>2, <1>3, <1>4
  <2> QED
      BY <1>2, <2>1
<1>9. page = GetVaults(Len(s), n)
    BY DEF GetVaults, page, end, cap
<1> QED
    BY <1>5, <1>7, <1>8, <1>9 DEF t

LEMMA ReaderStart == ReaderInit => ReaderInv
<1> SUFFICES ASSUME ReaderInit PROVE ReaderInv
    OBVIOUS
<1>1. ListInv
    BY ListStart DEF ReaderInit
<1>2. seen \in Seq(Vaults) /\ seen = <<>> /\ reader = "idle"
    BY DEF ReaderInit
<1>3. throughout = {} /\ removals \in BOOLEAN
    BY DEF ReaderInit
<1> QED
    BY <1>1, <1>2, <1>3 DEF ReaderInv, ReadIsPrefix, PagesCover

\* A call of the registry that removes no vault leaves the prefix a prefix.
LEMMA CallDuringReading ==
    ASSUME ReaderInv, FactoryCall
    PROVE  ReaderInv'
<1>1. /\ ListInv' /\ seen' = seen /\ reader' = reader
      /\ vaults \in Seq(Vaults) /\ vaults' \in Seq(Vaults)
    BY ListStep DEF FactoryCall, ReaderInv, ListInv, FactoryTypeOK
<1>2. CASE reader # "reading"
    BY <1>1, <1>2 DEF FactoryCall, ReaderInv, ReadIsPrefix, PagesCover
<1>3. CASE reader = "reading"
  <2>1. /\ throughout' = throughout \cap ToSet(vaults')
        /\ removals' = (removals \/ ~(ToSet(vaults) \subseteq ToSet(vaults')))
      BY <1>3 DEF FactoryCall
  <2>2. throughout' \subseteq Vaults /\ removals' \in BOOLEAN
      BY <2>1 DEF ReaderInv
  <2>3. ASSUME ~removals' PROVE IsPrefix(seen, vaults')
    <3>1. ~removals /\ ToSet(vaults) \subseteq ToSet(vaults')
        BY <2>1, <2>3 DEF ReaderInv
    <3>2. IsPrefix(seen, vaults)
        BY <1>3, <3>1 DEF ReaderInv, ReadIsPrefix
    <3>3. vaults' = vaults \/ \E v \in Vaults : vaults' = Append(vaults, v)
      <4>1. \/ vaults' = vaults
            \/ \E v \in Vaults :
                  \/ vaults' = Append(vaults, v)
                  \/ v \in ToSet(vaults) /\ ToSet(vaults') = ToSet(vaults) \ {v}
          BY ListStep DEF FactoryCall, ReaderInv
      <4> QED
          BY <3>1, <4>1
    <3>4. CASE vaults' = vaults
        BY <3>2, <3>4
    <3>5. ASSUME NEW v \in Vaults, vaults' = Append(vaults, v)
          PROVE  IsPrefix(seen, vaults')
      <4>1. seen \in Seq(Vaults)
          BY DEF ReaderInv
      <4>2. Len(seen) <= Len(vaults) /\ \A i \in 1 .. Len(seen) : seen[i] = vaults[i]
          BY <1>1, <3>2, <4>1, PrefixByElements
      <4>3. /\ Len(vaults') = Len(vaults) + 1
            /\ \A i \in 1 .. Len(vaults) : vaults'[i] = vaults[i]
          BY <1>1, <3>5
      <4>4. Len(seen) \in Nat /\ Len(vaults) \in Nat
          BY <1>1, <4>1
      <4>5. Len(seen) <= Len(vaults') /\ \A i \in 1 .. Len(seen) : seen[i] = vaults'[i]
          BY <4>2, <4>3, <4>4
      <4> QED
          BY <1>1, <4>1, <4>5, PrefixByElements
    <3> QED
        BY <3>3, <3>4, <3>5
  <2> QED
      BY <1>1, <1>3, <2>1, <2>2, <2>3 DEF ReaderInv, ReadIsPrefix, PagesCover
<1> QED
    BY <1>2, <1>3

LEMMA ReaderStep ==
    ASSUME ReaderInv, [ReaderNext]_<<factoryVars, readerVars>>
    PROVE  ReaderInv'
<1>1. CASE StartReading
  <2>1. /\ ListInv' /\ vaults' = vaults /\ seen' = seen /\ removals' = removals
        /\ reader = "idle" /\ reader' = "reading" /\ throughout' = ToSet(vaults)
      BY <1>1, OtherSteps DEF StartReading, ReaderInv
  <2>2. seen = <<>> /\ vaults \in Seq(Vaults)
      BY <2>1 DEF ReaderInv, ListInv, FactoryTypeOK
  <2>3. IsPrefix(seen, vaults)
    <3>1. seen \in Seq(Vaults) /\ Len(seen) = 0 /\ Len(vaults) \in Nat
        BY <2>2
    <3>2. Len(seen) <= Len(vaults) /\ \A i \in 1 .. Len(seen) : seen[i] = vaults[i]
        BY <3>1
    <3> QED
        BY <2>2, <3>1, <3>2, PrefixByElements
  <2>4. ToSet(vaults) \subseteq Vaults
      BY <2>2 DEF ToSet
  <2> QED
      BY <2>1, <2>2, <2>3, <2>4 DEF ReaderInv, ReadIsPrefix, PagesCover
<1>2. ASSUME NEW n \in Limits, ReadPage(n) PROVE ReaderInv'
  <2>1. /\ ListInv' /\ vaults' = vaults /\ reader = "reading"
        /\ throughout' = throughout /\ removals' = removals
        /\ seen' = seen \o GetVaults(Len(seen), n)
        /\ reader' = IF GetVaults(Len(seen), n) = <<>> THEN "done" ELSE "reading"
      BY <1>2, OtherSteps DEF ReadPage, ReaderInv
  <2>2. vaults \in Seq(Vaults) /\ seen \in Seq(Vaults)
      BY DEF ReaderInv, ListInv, FactoryTypeOK
  <2>3. seen' \in Seq(Vaults)
      BY <2>1, <2>2, PageTyped
  <2>4. ASSUME ~removals'
        PROVE  /\ IsPrefix(seen', vaults')
               /\ reader' = "done" => seen' = vaults
    <3>1. IsPrefix(seen, vaults)
        BY <2>1, <2>4 DEF ReaderInv, ReadIsPrefix
    <3>2. /\ IsPrefix(seen', vaults')
          /\ GetVaults(Len(seen), n) = <<>> => seen = vaults
        BY <2>1, <2>2, <3>1, PageFacts
    <3>3. GetVaults(Len(seen), n) = <<>> => seen' = seen
        BY <2>1, <2>2
    <3> QED
        BY <2>1, <3>2, <3>3
  <2>5. throughout \subseteq ToSet(vaults) /\ IsInjective(vaults)
      BY <2>1 DEF ReaderInv, ListInv, ListedOnce
  <2>6. ReadIsPrefix' /\ PagesCover'
      BY <2>1, <2>4, <2>5 DEF ReadIsPrefix, PagesCover
  <2> QED
      BY <2>1, <2>3, <2>5, <2>6 DEF ReaderInv
<1>3. CASE FactoryCall
    BY <1>3, CallDuringReading
<1>4. CASE UNCHANGED <<factoryVars, readerVars>>
  <2>1. ListInv' /\ vaults' = vaults
      BY <1>4, OtherSteps DEF ReaderInv
  <2> QED
      BY <1>4, <2>1 DEF readerVars, ReaderInv, ReadIsPrefix, PagesCover
<1> QED
    BY <1>1, <1>2, <1>3, <1>4 DEF ReaderNext

LEMMA ReaderInvariant == ReaderSpec => []ReaderInv
<1>1. ReaderInv /\ [ReaderNext]_<<factoryVars, readerVars>> => ReaderInv'
    BY ReaderStep
<1> QED
    BY <1>1, ReaderStart, PTL DEF ReaderSpec

\* A tool that pages through get_vaults while only registrations happen has
\* always read the beginning of the list, for any page sizes and any cap.
THEOREM ReadingIsPrefix == ReaderSpec => []ReadIsPrefix
<1> QED
    BY ReaderInvariant, PTL DEF ReaderInv

\* Such a tool ends with every vault that was registered all along, each once.
THEOREM PagesCoverRegistry == ReaderSpec => []PagesCover
<1> QED
    BY ReaderInvariant, PTL DEF ReaderInv

=============================================================================
