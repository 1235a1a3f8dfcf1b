---------------------------- MODULE Application ----------------------------
(***************************************************************************)
(* A program on top of the library: pc says where in its function a        *)
(* process is, and a step is one call that a process or main makes into    *)
(* the library, or a step of the library.                                  *)
(***************************************************************************)
EXTENDS Conditions

CONSTANTS
  capacity,        \* of the resource the program is about
  Gaps, Services   \* times the program draws

ASSUME CapacityIsNatural == capacity \in Nat
ASSUME TimesAreDelays == Gaps \cup Services \subseteq Delays
ASSUME HostRuns == RunModes = {"run"}

VARIABLES
  in_use,    \* the slots of the resource that are taken
  pc,        \* where a process is, NULL outside of its life
  req, ev,   \* its locals: its request, and the event it waits for next
  limit      \* history: when the last timeout it made ends

appVars == <<pc, req, ev, limit>>
allVars == <<vars, condVars, appVars>>

AppInit ==
  /\ Init /\ CondInit /\ in_use = 0
  /\ pc = [p \in Proc |-> NULL] /\ limit = [p \in Proc |-> 0]
  /\ req = [p \in Proc |-> NULL] /\ ev = [p \in Proc |-> NULL]

(* The event that the next allocation returns.  Which unused memory malloc *)
(* returns makes no difference.                                            *)
New == IF event_pool # <<>> THEN Head(event_pool)
       ELSE CHOOSE e \in Addr : state[e] = "fresh"

(* The process that the next sim_process returns.                          *)
NewProc == IF process_pool # <<>> THEN Head(process_pool)
           ELSE CHOOSE p \in Proc : pstate[p] = "unborn"

At(p, here) == ctx = p /\ pc[p] = here

(* p gets an event that fires after one of the times.                      *)
Timeout(p, here, times, there) ==
  /\ At(p, here)
  /\ \E d \in times :
       sim_timeout(New, d) /\ limit' = [limit EXCEPT ![p] = now + d]
  /\ ev' = [ev EXCEPT ![p] = New] /\ pc' = [pc EXCEPT ![p] = there]
  /\ UNCHANGED <<condVars, req>>

(* p waits for e.                                                          *)
Yield(p, here, e, there) ==
  /\ At(p, here) /\ sim_yield(p, e)
  /\ pc' = [pc EXCEPT ![p] = there]
  /\ UNCHANGED <<condVars, req, ev, limit>>

(* p returns; its locals end with it.                                      *)
End(p, here) ==
  /\ At(p, here) /\ process_entry_end(p)
  /\ pc' = [pc EXCEPT ![p] = NULL]
  /\ req' = [req EXCEPT ![p] = NULL] /\ ev' = [ev EXCEPT ![p] = NULL]
  /\ UNCHANGED <<condVars, limit>>

(* A process is started, by main or by a process that goes on to then.     *)
Start(there, then) ==
  /\ NewProc \in Proc /\ sim_process(NewProc)
  /\ pc' = [p \in Proc |-> IF p = NewProc THEN there
                           ELSE IF ctx = p THEN then ELSE pc[p]]
  /\ UNCHANGED <<condVars, req, ev, limit>>

main_run ==
  /\ heap # <<>> /\ StartRun("run", 0)
  /\ UNCHANGED <<condVars, appVars>>

AllGone == ctx = "main" /\ \A p \in Proc : pstate[p] \in {"unborn", "dead"}
=============================================================================
