--------------------------- MODULE AdapterDispatch ---------------------------
(***************************************************************************)
(* Dispatch through the adapter registry: a bridged adapter comes from     *)
(* provider_bridge() of the registry of the dispatcher's own process.      *)
(* Processes restart and load their builds again, and what they load under *)
(* a pinned reference need not be the build that was there before.         *)
(***************************************************************************)
EXTENDS ProviderSubmission, AdapterRegistry

ASSUME DispatchAssumption == Processes = Dispatchers

dispatchVars == <<vars, registryVars>>

DispatchInit ==
    /\ Init
    /\ entries = [p \in Processes |-> NothingLoaded]
    /\ expired = {}

\* The adapters a process can bring: direct ones, and bridges that resolve.
Available(d) == Direct \cup {b \in Builds : Resolves(d, b)}

\* provider_bridge() resolves the adapter for this call of dispatch().
Dispatch(d, n, a) ==
    /\ a \in Available(d)
    /\ ReadAttempt(d, n, a)
    /\ UNCHANGED registryVars

Work(d) == Proceed(d) /\ UNCHANGED registryVars

\* The call ends early, and the process with it or not.
Abort(d) == Crash(d) /\ (Restart(d) \/ UNCHANGED registryVars)

RestartIdle(d) == dispatcher[d].at = "idle" /\ Restart(d) /\ UNCHANGED vars

\* The process loads a build, also while a call is in progress.
Load(d, b) == Register(d, b) /\ UNCHANGED vars

Environment ==
    \/ RttMoves /\ UNCHANGED registryVars
    \/ (\E b \in Builds : Expire(b)) /\ UNCHANGED vars

DispatchNext ==
    \/ Environment
    \/ \E d \in Dispatchers :
          \/ \E n \in RttIds, a \in Adapters : Dispatch(d, n, a)
          \/ Work(d)
          \/ Abort(d)
          \/ RestartIdle(d)
          \/ \E b \in Builds : Load(d, b)

DispatchSpec == DispatchInit /\ [][DispatchNext]_dispatchVars

\* A call continues unless it is cut off, a process that is given builds of a
\* pinned reference loads one when it starts, and the orchestrator keeps
\* dispatching an open RTT with the adapter of its route whenever one resolves.
FairDispatchSpec ==
    /\ DispatchSpec
    /\ \A d \in Dispatchers :
          /\ WF_dispatchVars(Work(d))
          /\ \A n \in RttIds :
                /\ WF_dispatchVars(\E b \in Reaching(n) \cap Builds : Load(d, b))
                /\ SF_dispatchVars(\E a \in Reaching(n) : Dispatch(d, n, a))

-----------------------------------------------------------------------------
(* Properties *)

\* A submission that went to the provider gets an outcome as long as its RTT
\* is open and no build of its pinned reference is out of its window, up to
\* the bound on the calls that may overtake each other.
DispatchingEnds ==
    \A n \in RttIds :
        submission[n].state = "DISPATCHING" ~>
            \/ submission[n].state \in FinalStates
            \/ rttState[n] # "CREATED"
            \/ ~(Reaching(n) \subseteq Direct \cup (Executable \ expired))
            \/ submission[n].dispatches = MaxDispatches
=============================================================================
