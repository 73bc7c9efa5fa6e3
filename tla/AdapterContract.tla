--------------------------- MODULE AdapterContract ---------------------------
(***************************************************************************)
(* What a caller of a host adapter may count on, in whichever process the  *)
(* adapter runs (internal/plugin/contract.go): one request at a time is    *)
(* with it, it executes a request at most once and in the order they were  *)
(* made, and a call returns what came of its own request, or an error.  A  *)
(* request whose caller has been told of an error may still be executed.   *)
(***************************************************************************)
EXTENDS Naturals, Sequences, SequencesExt

CONSTANTS Clients, AdapterResults, Nothing, Failure

VARIABLES
  asking,      \* the clients whose request is with the adapter
  request,     \* the number of each client's latest request
  requests,    \* how many were made
  executed,    \* <<number, result>> in the order of execution
  returned     \* what each client's latest call returned

contractVars == <<asking, request, requests, executed, returned>>

Answer(r) == [kind |-> "answer", result |-> r]

ContractInit ==
  /\ asking = {} /\ requests = 0 /\ executed = <<>>
  /\ request = [c \in Clients |-> 0] /\ returned = [c \in Clients |-> Nothing]

Ask(c) ==
  /\ asking = {} /\ asking' = {c}
  /\ requests' = requests + 1 /\ request' = [request EXCEPT ![c] = requests + 1]
  /\ returned' = [returned EXCEPT ![c] = Nothing]
  /\ UNCHANGED executed

Execute(n, r) ==
  /\ \A i \in DOMAIN executed : executed[i][1] < n
  /\ executed' = Append(executed, <<n, r>>)
  /\ UNCHANGED <<asking, request, requests, returned>>

Return(c) ==
  /\ c \in asking /\ asking' = asking \ {c}
  /\ \/ returned' = [returned EXCEPT ![c] = Failure]
     \/ \E i \in DOMAIN executed :
          /\ executed[i][1] = request[c]
          /\ returned' = [returned EXCEPT ![c] = Answer(executed[i][2])]
  /\ UNCHANGED <<request, requests, executed>>

ContractNext ==
  \/ \E c \in Clients : Ask(c) \/ Return(c)
  \/ \E n \in 1 .. requests, r \in AdapterResults : Execute(n, r)

ContractSpec == ContractInit /\ [][ContractNext]_contractVars
=============================================================================
