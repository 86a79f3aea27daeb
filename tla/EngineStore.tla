---------------------------- MODULE EngineStore ----------------------------
(***************************************************************************)
(* The store of search engines (tools/builtin/search_engines.py) and the   *)
(* processes that provision it, which may run at the same time, fail at    *)
(* any step and crash at any step.                                         *)
(***************************************************************************)
EXTENDS Naturals, Sequences

CONSTANT Installers   \* the processes that provision the store

Engines == <<"fd", "rg">>   \* PINS, in the order provisioning takes them
Names == {"fd", "rg"}

VARIABLES
    binary,     \* what each fixed name holds: "absent", "whole", "partial" or "other"
    temporary,  \* what each installer's temporary file holds: "none", "partial" or "whole"
    step,       \* where an installer is: "check", "fetch", "make", "write", "place", or how it ended
    turn,       \* the engine it is at
    reported    \* what it has reported for the engines before

storeVars == <<binary, temporary, step, turn, reported>>

Init ==
    /\ binary \in [Names -> {"absent", "other"}]
    /\ temporary = [i \in Installers |-> "none"]
    /\ step = [i \in Installers |-> "check"]
    /\ turn = [i \in Installers |-> 1]
    /\ reported = [i \in Installers |-> <<>>]

Current(i) == Engines[turn[i]]

\* The engine is dealt with: provision_search_engines() goes on to the next.
Done(i, outcome) ==
    /\ reported' = [reported EXCEPT ![i] = Append(@, outcome)]
    /\ IF turn[i] < Len(Engines)
       THEN turn' = [turn EXCEPT ![i] = @ + 1] /\ step' = [step EXCEPT ![i] = "check"]
       ELSE UNCHANGED turn /\ step' = [step EXCEPT ![i] = "returned"]

\* is_verified(): what is installed has the pinned hash.
Verified(e) == binary[e] = "whole"

Check(i) ==
    /\ step[i] = "check"
    /\ IF Verified(Current(i)) THEN Done(i, "present")
       ELSE step' = [step EXCEPT ![i] = "fetch"] /\ UNCHANGED <<turn, reported>>
    /\ UNCHANGED <<binary, temporary>>

\* The artifact is fetched and extracted, and both hashes are compared.
Fetch(i) ==
    /\ step[i] = "fetch"
    /\ step' \in {[step EXCEPT ![i] = "make"], [step EXCEPT ![i] = "raised"]}
    /\ UNCHANGED <<binary, temporary, turn, reported>>

\* _install(): a temporary file of its own; making it may fail.
MakeTemporary(i) ==
    /\ step[i] = "make"
    /\ \/ temporary' = [temporary EXCEPT ![i] = "partial"] /\ step' = [step EXCEPT ![i] = "write"]
       \/ step' = [step EXCEPT ![i] = "raised"] /\ UNCHANGED temporary
    /\ UNCHANGED <<binary, turn, reported>>

\* A failure while writing or renaming removes the temporary file, if it can.
InstallFails(i) ==
    /\ step[i] \in {"write", "place"}
    /\ step' = [step EXCEPT ![i] = "raised"]
    /\ temporary' \in {[temporary EXCEPT ![i] = "none"], temporary}
    /\ UNCHANGED <<binary, turn, reported>>

WriteTemporary(i) ==
    /\ step[i] = "write"
    /\ temporary' = [temporary EXCEPT ![i] = "whole"] /\ step' = [step EXCEPT ![i] = "place"]
    /\ UNCHANGED <<binary, turn, reported>>

\* os.replace(): atomic, whatever another installer has put there.
Place(i) ==
    /\ step[i] = "place"
    /\ binary' = [binary EXCEPT ![Current(i)] = temporary[i]]
    /\ temporary' = [temporary EXCEPT ![i] = "none"]
    /\ Done(i, "installed")

Crash(i) ==
    /\ step[i] \notin {"returned", "raised", "crashed"}
    /\ step' = [step EXCEPT ![i] = "crashed"]
    /\ UNCHANGED <<binary, temporary, turn, reported>>

Next == \E i \in Installers : Check(i) \/ Fetch(i) \/ MakeTemporary(i) \/ InstallFails(i)
                              \/ WriteTemporary(i) \/ Place(i) \/ Crash(i)

-----------------------------------------------------------------------------

\* "An interruption leaves at most a temporary file, which nothing resolves": a
\* fixed name never holds a part of an engine, an installer that returned has
\* every engine in place and reported, and what it leaves is at most its
\* temporary file, after a failure.
InstalledWhole ==
    /\ \A e \in Names : binary[e] # "partial"
    /\ \A i \in Installers :
           /\ step[i] = "returned" => /\ \A e \in Names : Verified(e)
                                      /\ Len(reported[i]) = Len(Engines)
           /\ step[i] \notin {"write", "place", "raised", "crashed"} => temporary[i] = "none"
           /\ \A k \in DOMAIN reported[i] : Verified(Engines[k])
=============================================================================
