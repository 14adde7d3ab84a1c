--------------------------- MODULE RunnerContract ---------------------------
(***************************************************************************)
(* What process::ProcessRunner promises to whoever uses it                 *)
(* (include/flowforge/process/process_runner.hpp): one exit report per     *)
(* launch, and an outcome that agrees with what was asked.  The scheduler  *)
(* relies on this contract; ProcessRunner implements it.                   *)
(***************************************************************************)
EXTENDS Domain

CONSTANTS
    Handles,       \* the handles given out by launch()
    HasTimeout     \* those whose ProcessSpec has a timeout

VARIABLES
    launched,      \* the handles launch() has returned
    asked,         \* the handles request_terminate() was called for
    destroyed,     \* the runner's destructor has been called
    report         \* the outcome on_exit was called with, or "none"

cvars == <<launched, asked, destroyed, report>>

CInit == /\ launched = {} /\ asked = {} /\ destroyed = FALSE
         /\ report = [h \in Handles |-> "none"]

CLaunch(h) ==
    /\ ~destroyed
    /\ h \notin launched
    /\ launched' = launched \cup {h}
    /\ UNCHANGED <<asked, destroyed, report>>

CTerminate(h) ==
    /\ ~destroyed
    /\ h \in launched
    /\ asked' = asked \cup {h}
    /\ UNCHANGED <<launched, destroyed, report>>

CDestroy ==
    /\ ~destroyed
    /\ destroyed' = TRUE
    /\ UNCHANGED <<launched, asked, report>>

(* The outcomes that on_exit may be called with.                           *)
Honest(h, outcome) ==
    /\ outcome = "timed_out" => h \in HasTimeout
    /\ outcome = "cancelled" => h \in asked \/ destroyed

(* The reactor may have several exits to report in one round.              *)
CExits(done) ==
    /\ done # {} /\ done \subseteq launched
    /\ \A h \in done : report[h] = "none"
    /\ \E r \in [done -> ProcessOutcome] :
         /\ \A h \in done : Honest(h, r[h])
         /\ report' = [h \in Handles |-> IF h \in done THEN r[h] ELSE report[h]]
    /\ UNCHANGED <<launched, asked, destroyed>>

CNext == \/ \E h \in Handles : CLaunch(h) \/ CTerminate(h)
         \/ CDestroy
         \/ \E done \in SUBSET Handles : CExits(done)

Contract == CInit /\ [][CNext]_cvars
=============================================================================
