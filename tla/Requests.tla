------------------------------ MODULE Requests ------------------------------
(***************************************************************************)
(* Web requests that work on the database.  Several modules extend this    *)
(* one; each adds its tables and the handlers its requests run.  A request *)
(* is cut where it reads: what it keeps between two steps is its record.   *)
(***************************************************************************)
EXTENDS Naturals, FiniteSets

CONSTANTS
    Clients,     \* requests that may be under way at a time
    Scenarios,   \* kinds of use: [clients, calls, ...], one of them holds in a behaviour
    None         \* no value

VARIABLES
    scenario,    \* the kind of use, chosen at the start
    request      \* what each request under way has read

requestVars == <<scenario, request>>

Idle == [pc |-> "idle"]
RequestsInit == scenario \in Scenarios /\ request = [r \in Clients |-> Idle]

Starts(r, call) == r \in scenario.clients /\ request[r] = Idle /\ call \in scenario.calls
At(r, pc) == request[r].pc = pc
Goes(r, state) == request' = [request EXCEPT ![r] = state] /\ UNCHANGED scenario
Ends(r) == Goes(r, Idle)
\* A call of one step is in nobody's way while it runs.
AtOnce(call) == (\E r \in Clients : Starts(r, call)) /\ UNCHANGED requestVars

\* A request fails before it has committed: a check, a key, a lost connection, a dead process.
Abort(r) == request[r] # Idle /\ Ends(r)

Alone == \E r \in scenario.clients : scenario.clients = {r}
Quiet == \A r \in Clients : request[r] = Idle
=============================================================================
