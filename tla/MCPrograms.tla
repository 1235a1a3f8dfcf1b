----------------------------- MODULE MCPrograms -----------------------------
(***************************************************************************)
(* Programs on the library for TLC, side by side: which of them a          *)
(* behaviour is about is chosen once.                                      *)
(***************************************************************************)
EXTENDS Bank, Machine

CONSTANT Kinds

VARIABLE kind

MCInit == kind \in Kinds /\ BankInit /\ MachineInit

MCNext ==
  /\ UNCHANGED kind
  /\ \/ kind = "bank" /\ BankNext /\ UNCHANGED <<holders, waiters>>
     \/ kind = "machine" /\ MachineNext /\ UNCHANGED <<queue, left>>

mcVars == <<kind, allVars, in_use, queue, left, holders, waiters>>

MCSpec == MCInit /\ [][MCNext]_mcVars /\ WF_mcVars(MCNext)

-----------------------------------------------------------------------------
(* Properties, besides those of the modules Bank and Machine.              *)

(* Everybody comes and goes, whatever happens to a request, and no slot of *)
(* the machine is lost on the way.                                         *)
EverybodyLeaves ==
  /\ kind = "bank" => <>(AllGone /\ left = 0)
  /\ kind = "machine" => <>(AllGone /\ ShiftOver)
=============================================================================
