--------------------------- MODULE AdapterRegistry ---------------------------
(***************************************************************************)
(* InstitutionAdapterRegistry of railone_institutions/registry.py.  Each   *)
(* process loads builds into a registry of its own, which a restart        *)
(* empties.  register() compares a build only with what the same process   *)
(* has under the reference: the manifest table of                          *)
(* railone_postgres/institutions.py, which would refuse a second build of  *)
(* a reference, is not consulted.  So two processes, or one before and     *)
(* after a restart, may hold different builds of one reference.            *)
(***************************************************************************)
EXTENDS AdapterDescriptors, Integers, FiniteSets

CONSTANTS
    Executable,    \* the builds whose certification is neither DRAFT nor SUSPENDED
    Processes,
    Offered,       \* the builds each process is given to load, over all its restarts
    MaxExpired,    \* bound on the manifests that expire
    NoBuild

ASSUME RegistryAssumption ==
    /\ Executable \subseteq Builds
    /\ Offered \in [Processes -> SUBSET Builds]
    /\ MaxExpired \in Nat
    /\ NoBuild \notin Builds

VARIABLES
    entries,       \* _entries of each process's registry
    expired        \* the builds whose manifest has passed expires_at

registryVars == <<entries, expired>>

RegistryTypeOK ==
    /\ entries \in [Processes -> [Refs -> Builds \cup {NoBuild}]]
    /\ expired \subseteq Builds

NothingLoaded == [r \in Refs |-> NoBuild]

\* register(): refused when the process has the reference with another signature.
Register(p, b) ==
    /\ b \in Offered[p]
    /\ entries[p][RefOf[b]] \in {NoBuild, b}
    /\ entries' = [entries EXCEPT ![p][RefOf[b]] = b]
    /\ UNCHANGED expired

\* The clock passes expires_at of a manifest.
Expire(b) ==
    /\ Cardinality(expired) < MaxExpired
    /\ expired' = expired \cup {b}
    /\ UNCHANGED entries

\* The process ends and another starts with an empty registry.
Restart(p) ==
    /\ entries' = [entries EXCEPT ![p] = NothingLoaded]
    /\ UNCHANGED expired

\* resolve(): registered, inside its window, and certified.
Resolves(p, b) == entries[p][RefOf[b]] = b /\ b \in Executable \ expired
=============================================================================
