---------------------------- MODULE XenstoreRpc ----------------------------
(***************************************************************************)
(* What a task that calls XsdSocket::send relies on: the store executes    *)
(* its request at most once, the call gets an answer only after its own    *)
(* request was executed, and a call that was refused was not executed and  *)
(* never will be.  A call that is dropped while it waits may still be      *)
(* executed.                                                               *)
(***************************************************************************)
EXTENDS Naturals

CONSTANTS Callers,         \* the tasks that share the connection
          Requests,        \* names of requests, each used for one call
          NoRequest        \* no member of Requests

VARIABLES pending,         \* the request each caller waits for, or NoRequest
          answered,        \* the callers whose answer has come
          open,            \* the requests the store may still execute
          executed,        \* the requests the store has executed
          refused          \* the requests that were never sent

rpcVars == <<pending, answered, open, executed, refused>>

RpcInit ==
    /\ pending = [c \in Callers |-> NoRequest]
    /\ answered = {} /\ open = {} /\ executed = {} /\ refused = {}

Ask(c) ==
    \E r \in Requests \ (open \cup executed \cup refused) :
        /\ pending[c] = NoRequest
        /\ pending' = [pending EXCEPT ![c] = r]
        /\ open' = open \cup {r}
        /\ UNCHANGED <<answered, executed, refused>>

Execute(r) ==
    /\ open' = open \ {r}
    /\ executed' = executed \cup {r}
    /\ UNCHANGED <<pending, answered, refused>>

Answer(c) ==
    /\ pending[c] \in executed
    /\ answered' = answered \cup {c}
    /\ UNCHANGED <<pending, open, executed, refused>>

Refuse(c) ==
    /\ pending[c] \in open
    /\ pending' = [pending EXCEPT ![c] = NoRequest]
    /\ open' = open \ {pending[c]}
    /\ refused' = refused \cup {pending[c]}
    /\ UNCHANGED <<answered, executed>>

\* The call returns, or the caller drops it; a request that has left stays open.
End(c) ==
    /\ pending[c] # NoRequest
    /\ pending' = [pending EXCEPT ![c] = NoRequest]
    /\ answered' = answered \ {c}
    /\ open' \in {open, open \ {pending[c]}}
    /\ UNCHANGED <<executed, refused>>

\* The connection ends: some open requests are lost.
Lose ==
    /\ open' \in SUBSET open
    /\ UNCHANGED <<pending, answered, executed, refused>>

RpcNext ==
    \/ \E c \in Callers : Ask(c) \/ Answer(c) \/ Refuse(c) \/ End(c)
    \/ \E r \in open : Execute(r)
    \/ Lose

RpcSpec == RpcInit /\ [][RpcNext]_rpcVars
=============================================================================
