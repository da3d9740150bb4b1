------------------------------ MODULE Accounts ------------------------------
(***************************************************************************)
(* An organization's account from both of its ends, which share no state:  *)
(* how it is set up and connected to its billing sources (SetupWizard),    *)
(* and what those tell of its customers afterwards (Providers), side by    *)
(* side for their instances and their proofs.                              *)
(***************************************************************************)
EXTENDS Providers

CONSTANTS Slugs, NoKey, WrongKey, Offered, MaxSetupFaults, MaxIssued, MaxVisits

VARIABLES
  orgs, issued, conn, job, events, net, setupFaults,
  open, visits, stored, key, shown, phase, choice, via, form, busy, progress, polls, report,
  switched

setting ==
  <<orgs, issued, conn, job, events, net, setupFaults,
    open, visits, stored, key, shown, phase, choice, via, form, busy, progress, polls, report,
    switched>>

Setup == INSTANCE SetupWizard WITH faults <- setupFaults, MaxFaults <- MaxSetupFaults

ASSUME AccountsAssumption == Setup!Parameters

\* What the setup page says is true, under its own name.
SetupIsSound == Setup!SetupIsSound
=============================================================================
