--------------------------- MODULE FactoryReader ---------------------------
(***************************************************************************)
(* The registry with the off-chain tool it is paged for: a reader that     *)
(* asks for page after page, each from where the last one ended, until an  *)
(* empty page.  Other calls fall between its pages.                        *)
(***************************************************************************)
EXTENDS Factory

CONSTANT Limits    \* page sizes a reader asks for

ASSUME LimitAssumption == Limits \subseteq Nat \ {0}

VARIABLES
    reader,      \* "idle", "reading" or "done"
    seen,        \* what it has read, in order
    throughout,  \* the vaults registered at every moment of its reading
    removals     \* a vault was removed while it was reading

readerVars == <<reader, seen, throughout, removals>>

ReaderInit ==
    /\ FactoryInit
    /\ reader = "idle"
    /\ seen = <<>>
    /\ throughout = {}
    /\ removals = FALSE

StartReading ==
    /\ reader = "idle"
    /\ reader' = "reading"
    /\ throughout' = ToSet(vaults)
    /\ UNCHANGED <<factoryVars, seen, removals>>

\* The next page starts behind the entries read so far.
ReadPage(limit) ==
    /\ reader = "reading"
    /\ LET page == GetVaults(Len(seen), limit) IN
         /\ seen' = seen \o page
         /\ reader' = IF page = <<>> THEN "done" ELSE "reading"
    /\ UNCHANGED <<factoryVars, throughout, removals>>

\* A call of the registry, and what it means for the reading in progress.
FactoryCall ==
    /\ FactoryNext
    /\ IF reader = "reading"
       THEN /\ throughout' = throughout \cap ToSet(vaults')
            /\ removals' = (removals \/ ~(ToSet(vaults) \subseteq ToSet(vaults')))
       ELSE UNCHANGED <<throughout, removals>>
    /\ UNCHANGED <<reader, seen>>

ReaderNext ==
    \/ StartReading
    \/ \E n \in Limits : ReadPage(n)
    \/ FactoryCall

ReaderSpec == ReaderInit /\ [][ReaderNext]_<<factoryVars, readerVars>>

-----------------------------------------------------------------------------

\* As long as no vault is removed, what a reader has read is the beginning of
\* the list, however its pages and the registrations interleave.
ReadIsPrefix ==
    reader = "reading" /\ ~removals => IsPrefix(seen, vaults)

\* A reading during which no vault was removed returns every vault that was
\* registered throughout, and none of them twice.
PagesCover ==
    reader = "done" /\ ~removals =>
        throughout \subseteq ToSet(seen) /\ IsInjective(seen)

=============================================================================
