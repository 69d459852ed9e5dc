---------------------------- MODULE IdAllocator ----------------------------
(***************************************************************************)
(* What the callers of xenclient's DeviceIdAllocator rely on: ids are      *)
(* handed out next-fit, an id in use is never handed out again, and        *)
(* "exhausted" is answered only when every id is in use.                   *)
(***************************************************************************)
EXTENDS NextFit

VARIABLES allocated,       \* the ids in use
          next,            \* where the next search starts
          ret              \* what the last operation returned

absVars == <<allocated, next, ret>>
-----------------------------------------------------------------------------
AbsInit ==
    /\ allocated = {}
    /\ next = 0
    /\ ret = NoId

AbsAllocate ==
    \E id \in Ids :
        /\ IsNextFree(allocated, next, id)
        /\ allocated' = allocated \cup {id}
        /\ next' = Succ(id)
        /\ ret' = id

AbsExhausted ==
    /\ allocated = Ids
    /\ ret' = NoId
    /\ UNCHANGED <<allocated, next>>

AbsRelease(id) ==
    /\ allocated' = allocated \ {id}
    /\ ret' = NoId
    /\ UNCHANGED next

AbsNext ==
    \/ AbsAllocate
    \/ AbsExhausted
    \/ \E id \in Ids : AbsRelease(id)

AbsSpec == AbsInit /\ [][AbsNext]_absVars
=============================================================================
