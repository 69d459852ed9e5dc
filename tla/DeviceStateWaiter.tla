-------------------------- MODULE DeviceStateWaiter --------------------------
(***************************************************************************)
(* Waiting until the backends of some devices have reached a state:         *)
(* xenclient/src/devstate.rs, with the watch of several paths of            *)
(* xenstore/src/lib.rs.  The drivers change the states meanwhile, between   *)
(* any two reads of a round.                                                *)
(***************************************************************************)
EXTENDS Integers

CONSTANTS
  N,            \* devices to wait for
  Desired,      \* the state waited for
  Top,          \* the highest state of a device
  Capacity,     \* of the watch's channel
  HasDeadline,  \* the deadline may pass
  MaxChanges    \* bound: changes of states

VARIABLES
  state,    \* the state node of each device
  changes,  \* how often states have changed
  watched,  \* the paths set under the id of the watch
  queued,   \* events in the watch's channel
  pc,       \* where the waiter is
  i,        \* the device it deals with
  ready,    \* devices found in the desired state in this round
  seen,     \* history: what this round has read of each device
  outcome,  \* what do_wait returns: none yet, "ready", "failed"
  result    \* what wait returns: none yet, "ok", "late"

store == <<state, changes>>
vars == <<store, watched, queued, pc, i, ready, seen, outcome, result>>

Devices == 1..N
Missing == -1   \* the state path does not exist
Junk == -2      \* the state path holds no number
Unread == -3
States == 0..Top \cup {Missing, Junk}

TypeOK ==
  /\ state \in [Devices -> States]
  /\ changes \in 0..MaxChanges
  /\ watched \subseteq Devices
  /\ queued \in 0..Capacity
  /\ pc \in {"bind", "check", "select", "done"}
  /\ i \in 1..(N + 1)
  /\ ready \in 0..N /\ ready < i
  /\ seen \in [Devices -> States \cup {Unread}]
  /\ outcome \in {"none", "ready", "failed"}
  /\ result \in {"none", "ok", "late"}

Init ==
  /\ state \in [Devices -> States]
  /\ changes = 0
  /\ watched = {} /\ queued = 0
  /\ pc = "bind" /\ i = 1 /\ ready = 0
  /\ seen = [d \in Devices |-> Unread]
  /\ outcome = "none" /\ result = "none"

\* An event reaches the channel, or finds it full, or never comes.
Event == queued' \in {queued, IF queued < Capacity THEN queued + 1 ELSE queued}

\* do_wait returns; wait looks at the outcome of the timeout alone.
Return(what) ==
  /\ pc' = "done"
  /\ outcome' = what
  /\ result' = "ok"
Running == UNCHANGED <<outcome, result>>

\* bind_watch_id: one path after the other is put under the id; the store fires
\* each at once.
BindWatch ==
  /\ pc = "bind" /\ i <= N
  /\ watched' = watched \cup {i}
  /\ i' = i + 1
  /\ Event
  /\ UNCHANGED <<store, pc, ready, seen>> /\ Running

\* Mutant of StartRound: the count goes on where the last round left it.
StartRoundCounting ==
  /\ \/ pc = "bind" /\ i = N + 1 /\ UNCHANGED queued
     \/ pc = "select" /\ queued > 0 /\ queued' = queued - 1
     \/ pc = "select" /\ UNCHANGED queued
  /\ pc' = "check" /\ i' = 1 /\ ready' = ready
  /\ seen' = [d \in Devices |-> Unread]
  /\ UNCHANGED <<store, watched>> /\ Running
\* Mutant of StartRound: nothing but an event ends the wait.
StartRoundOnEvent ==
  /\ \/ pc = "bind" /\ i = N + 1 /\ UNCHANGED queued
     \/ pc = "select" /\ queued > 0 /\ queued' = queued - 1
  /\ pc' = "check" /\ i' = 1 /\ ready' = 0
  /\ seen' = [d \in Devices |-> Unread]
  /\ UNCHANGED <<store, watched>> /\ Running
\* A round starts after the binding, an update or 250 ms.
StartRound ==
  /\ \/ pc = "bind" /\ i = N + 1 /\ UNCHANGED queued
     \/ pc = "select" /\ queued > 0 /\ queued' = queued - 1
     \/ pc = "select" /\ UNCHANGED queued
  /\ pc' = "check" /\ i' = 1 /\ ready' = 0
  /\ seen' = [d \in Devices |-> Unread]
  /\ UNCHANGED <<store, watched>> /\ Running

Unfit(s) == s \in {Missing, Junk} \/ s > Desired

\* check_states: one read.
CheckState ==
  /\ pc = "check" /\ i <= N
  /\ seen' = [seen EXCEPT ![i] = state[i]]
  /\ \/ Unfit(state[i]) /\ Return("failed") /\ UNCHANGED <<i, ready>>
     \/ /\ ~Unfit(state[i])
        /\ i' = i + 1
        /\ ready' = IF state[i] = Desired THEN ready + 1 ELSE ready
        /\ UNCHANGED pc /\ Running
  /\ UNCHANGED <<store, watched, queued>>

EndRound ==
  /\ pc = "check" /\ i = N + 1
  /\ \/ ready = N /\ Return("ready")
     \/ ready # N /\ pc' = "select" /\ Running
  /\ UNCHANGED <<store, watched, queued, i, ready, seen>>

\* The timeout drops do_wait wherever it is.
Deadline ==
  /\ HasDeadline
  /\ pc # "done"
  /\ pc' = "done" /\ result' = "late"
  /\ UNCHANGED <<store, watched, queued, i, ready, seen, outcome>>

\* External: a driver, or the removal of a device, changes a state.
Change(d, s) ==
  /\ changes < MaxChanges
  /\ s # state[d]
  /\ state' = [state EXCEPT ![d] = s]
  /\ changes' = changes + 1
  /\ IF d \in watched /\ pc # "done" THEN Event ELSE UNCHANGED queued
  /\ UNCHANGED <<watched, pc, i, ready, seen>> /\ Running

Waiter == BindWatch \/ StartRound \/ CheckState \/ EndRound
Next == Waiter \/ Deadline \/ \E d \in Devices, s \in States : Change(d, s)

Spec == Init /\ [][Next]_vars
\* Tokio polls the waiter while it can go on, and its timers run.
FairSpec == Spec /\ WF_vars(Waiter) /\ WF_vars(Deadline)

------------------------------------------------------------------------------
\* do_wait returns Ok only when one round, from the first device to the last,
\* read the desired state of each (check_states, devstate.rs:69-98), although
\* states change and rounds are repeated.
ReadyWasSeen ==
  outcome = "ready" => \A d \in Devices : seen[d] = Desired

\* Devices that have come to the desired state and stay there are found to have
\* done so, whether or not events come (the sleep, devstate.rs:114-117).
AllReady == \A d \in Devices : state[d] = Desired
Over == pc = "done"
ReadinessIsFound == <>[]AllReady => <>Over

\* wait returns, by its deadline if by nothing else (devstate.rs:122-130).
WaitReturns == <>Over

\* What the errors of check_states promise ("state path '{}' had a state of {}
\* which is greater than {}", devstate.rs:88): wait() is an error when a device
\* can no longer become ready.
WaitIsTruthful == result = "ok" => outcome = "ready"
==============================================================================
