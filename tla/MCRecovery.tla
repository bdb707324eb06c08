----------------------------- MODULE MCRecovery -----------------------------
(* Values for the constants of Recovery: client a sends two requests and b one, *)
(* all for the same object.                                                     *)
EXTENDS Recovery

CONSTANTS a, b

Owners == <<a, a, b>>
Objects == <<1, 1, 1>>

OneClient(reqs, crash, loss, late) ==
  [client |-> {a}, req |-> reqs, crash |-> crash, loss |-> loss, late |-> late]
TwoClients(reqs) ==
  [client |-> {a, b}, req |-> reqs, crash |-> 1, loss |-> 0, late |-> 0]

\* One restart: two requests of one client and a message that is lost or a wait
\* that ends too early, or requests of two clients.
OneRestart ==
  {OneClient({1, 2}, 1, 1, 0), OneClient({1, 2}, 1, 0, 1), TwoClients({1, 3})}

\* The same with one request, for the temporal properties.
OneRequest ==
  {OneClient({1}, 1, 1, 0), OneClient({1}, 1, 0, 1), TwoClients({1})}

\* A second restart during the recovery, and a lost message.
TwoRestarts == {OneClient({1}, 2, 1, 0)}
=============================================================================
