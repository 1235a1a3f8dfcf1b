-------------------------------- MODULE Bank --------------------------------
(***************************************************************************)
(* The program examples/bank_renege.c on the library: a source of          *)
(* customers, each of whom waits at a counter (a FIFO resource) or loses   *)
(* patience, and then leaves his request behind.                           *)
(***************************************************************************)
EXTENDS Application

CONSTANTS N_CUSTOMERS, Patience

(* The lines of the program.                                               *)
BankStages ==
  {"source", "gap", "pause", "customer", "patience", "either", "wait", "choose",
   "service", "release", "leave"}

ASSUME CustomersArePatient == N_CUSTOMERS \in Nat /\ Patience \subseteq Delays
ASSUME EitherIsOfTwo == MaxInputs >= 2
ASSUME NullIsNoBankStage == NULL \notin BankStages

VARIABLES
  queue,   \* the line at the counter, see module Resource
  left     \* customers still to come (N_CUSTOMERS - i)

BankInit == AppInit /\ queue = <<>> /\ left = N_CUSTOMERS

(* main: start the source, run.                                            *)
bank_main ==
  /\ ctx = "main"
  /\ IF \A p \in Proc : pstate[p] = "unborn" THEN Start("source", NULL)
                                             ELSE main_run
  /\ UNCHANGED left

(* A customer, a pause, and so on.                                         *)
source(p) ==
  \/ /\ At(p, "source") /\ left > 0
     /\ Start("customer", "gap")
     /\ left' = left - 1
  \/ /\ \/ Timeout(p, "gap", Gaps, "pause")
        \/ Yield(p, "pause", ev[p], "source")
        \/ End(p, "source") /\ left = 0
     /\ UNCHANGED left

(* sim_resource_request of the counter.                                    *)
customer_request(p) ==
  /\ At(p, "customer")
  /\ IF in_use < capacity
     THEN /\ Allocated(New, "triggered", FALSE) /\ _sim_event_schedule(New, 0)
          /\ in_use' = in_use + 1 /\ UNCHANGED queue
     ELSE /\ Allocated(New, "pending", FALSE)
          /\ queue' = Append(queue, New) /\ UNCHANGED <<heap, in_use>>
  /\ req' = [req EXCEPT ![p] = New]
  /\ pc' = [pc EXCEPT ![p] = "patience"]
  /\ UNCHANGED <<now, envVars, intVars, procVars, ctlVars, ghosts, condVars, ev,
                 limit>>

customer_either(p) ==
  /\ At(p, "either")
  /\ make_cond(New, <<req[p], ev[p]>>, TRUE)
  /\ ev' = [ev EXCEPT ![p] = New]
  /\ pc' = [pc EXCEPT ![p] = "wait"]
  /\ UNCHANGED <<req, limit>>

IsServed(p) == state[req[p]] = "processed"

(* Mutant: the slot is freed and handed on.                                *)
hand_on_counted ==
  IF queue # <<>>
  THEN /\ queue' = Tail(queue)
       /\ state' = [state EXCEPT ![Head(queue)] = "triggered"]
       /\ _sim_event_schedule(Head(queue), 0)
       /\ in_use' = in_use - 1
  ELSE in_use' = in_use - 1 /\ UNCHANGED <<queue, state, heap>>

(* The slot goes to the first in line, who may have left.                  *)
hand_on ==
  IF queue # <<>>
  THEN /\ queue' = Tail(queue)
       /\ state' = [state EXCEPT ![Head(queue)] = "triggered"]
       /\ _sim_event_schedule(Head(queue), 0)
       /\ UNCHANGED in_use
  ELSE in_use' = in_use - 1 /\ UNCHANGED <<queue, state, heap>>

(* sim_resource_release of the counter; the request of p was processed.    *)
customer_release(p) ==
  /\ At(p, "release")
  /\ IF in_use = 0
     THEN UNCHANGED <<in_use, queue, state, heap, event_pool>>
     ELSE hand_on /\ event_pool' = <<req[p]>> \o event_pool
  /\ pc' = [pc EXCEPT ![p] = "leave"]
  /\ UNCHANGED <<now, cbs, recyclable, envVars, intVars, procVars, ctlVars, ghosts,
                 condVars, req, ev, limit>>

customer(p) ==
  \/ customer_request(p)
  \/ /\ \/ Timeout(p, "patience", Patience, "either")
        \/ customer_either(p)
        \/ Yield(p, "wait", ev[p], "choose")
        \/ Timeout(p, "choose", Services, "service") /\ IsServed(p)
        \/ End(p, "choose") /\ ~IsServed(p)
        \/ Yield(p, "service", ev[p], "release")
        \/ End(p, "leave")
     /\ UNCHANGED <<in_use, queue>>
  \/ customer_release(p)

BankNext ==
  \/ (bank_main \/ \E p \in Proc : source(p)) /\ UNCHANGED <<in_use, queue>>
  \/ (\E p \in Proc : customer(p)) /\ UNCHANGED left
  \/ Run /\ UNCHANGED <<appVars, in_use, queue, left>>

(* One thread, which never stops before the program ends.                  *)
BankSpec ==
  /\ BankInit /\ [][BankNext]_<<allVars, in_use, queue, left>>
  /\ WF_<<allVars, in_use, queue, left>>(BankNext)

-----------------------------------------------------------------------------
(* Properties.                                                             *)

AtCounter == {p \in Proc : pc[p] \in {"service", "release"}}

(* No more customers are served at one time than there are counters, each  *)
(* with a request of its own, granted and not in the pool.                 *)
ServedAtCounter ==
  /\ Cardinality(AtCounter) <= in_use /\ in_use <= capacity
  /\ \A p \in AtCounter :
       /\ IsServed(p) /\ req[p] \notin ToSet(event_pool) \cup ToSet(queue)
       /\ \A q \in Proc \ {p} : pc[q] # NULL => req[q] # req[p]

(* Nobody waits longer than his patience; who leaves unserved does so when *)
(* it ends, and his request still waits or was granted at that very        *)
(* instant.                                                                *)
LeavesInTime ==
  \A p \in Proc :
    At(p, "choose") =>
      /\ now <= limit[p]
      /\ ~IsServed(p) =>
           now = limit[p] /\ (req[p] \in ToSet(queue) \/ req[p] \in Queued(heap))
=============================================================================
