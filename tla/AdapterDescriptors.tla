------------------------- MODULE AdapterDescriptors -------------------------
(***************************************************************************)
(* The adapters that calls of dispatch() bring, by what the code reads of  *)
(* them.  A direct adapter is handed over as it is.  A bridged one is a    *)
(* build: an InstitutionAdapter with its signed capability manifest.  Its  *)
(* descriptor names it adapter_id@version, and different builds may be     *)
(* signed under one name.                                                  *)
(***************************************************************************)
CONSTANTS
    Adapters,      \* direct adapters and builds
    Direct,        \* the adapters that are not behind a bridge
    Idempotent,    \* those whose supports_idempotency is TRUE
    ProviderOf,    \* provider_id of each adapter
    Refs,          \* binding references, adapter_id@version
    RefOf          \* binding_ref of each build

Builds == Adapters \ Direct

ASSUME DescriptorAssumption ==
    /\ Adapters # {}
    /\ Direct \subseteq Adapters
    /\ RefOf \in [Builds -> Refs]
=============================================================================
