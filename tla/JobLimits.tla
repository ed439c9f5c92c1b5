----------------------------- MODULE JobLimits -----------------------------
(***************************************************************************)
(* process/JobMon/MainDlg.cpp: the limits of the open job.  The combo box  *)
(* offers a list of them; Set and Remove read the job's limits, change the *)
(* one picked and write all back, and the list box shows what is in force. *)
(* The values that go with a limit are left out.                           *)
(***************************************************************************)
EXTENDS Naturals

VARIABLES
  limits,      (* the limits in force, kept by the system                  *)
  shown,       (* the limits in the list box                               *)
  asserted     (* an assertion of the program has failed                   *)

limitVars == <<limits, shown, asserted>>

(* The single bits behind "User Interface - All". *)
UiBits == {"Desktop", "GlobalAtoms", "ReadClipboard", "WriteClipboard",
           "DisplaySettings", "ExitWindows", "SystemParameters", "Handles"}

Flags == {"ActiveProcesses", "BreakawayOk", "SilentBreakawayOk", "KillOnJobClose",
          "DieOnUnhandledException", "PriorityClass", "Affinity", "JobMemory",
          "ProcessMemory", "MaxWorkingSet"}

(* BuildLimitList *)
Offered ==
  Flags \cup UiBits \cup {"All", "JobTime", "ProcessTime", "SchedulingClass", "CpuRateControl"}

(* The case labels of the two handlers. *)
UiCases == (UiBits \ {"ExitWindows"}) \cup {"All"}
SetCases == Flags \cup UiCases
RemoveCases == {"ActiveProcesses", "PriorityClass", "BreakawayOk", "SilentBreakawayOk",
                "KillOnJobClose"} \cup UiCases

Bits(type) == IF type = "All" THEN UiBits ELSE {type}

LimitsInit == limits = {} /\ shown = {} /\ asserted = FALSE

(* UpdateJobLimits, after a change that the system has accepted. *)
Change(new) ==
  /\ limits' = new /\ shown' = new
  /\ UNCHANGED asserted

Refused == UNCHANGED limitVars

OnSetLimit(type) ==
  \/ type \in SetCases /\ (Change(limits \cup Bits(type)) \/ Refused)
  \/ type \notin SetCases /\ asserted' = TRUE /\ UNCHANGED <<limits, shown>>

OnRemoveLimit(type) ==
  \/ type \in RemoveCases /\ (Change(limits \ Bits(type)) \/ Refused)
  \/ type \notin RemoveCases /\ asserted' = TRUE /\ UNCHANGED <<limits, shown>>

(* Another job is opened; UpdateUIForNewJob does not renew the list box. *)
OpenAnother(inForce) ==
  limits' = inForce /\ UNCHANGED <<shown, asserted>>

OnRefreshLimits == Change(limits)

LimitsNext ==
  \/ \E type \in Offered : OnSetLimit(type) \/ OnRemoveLimit(type)
  \/ OpenAnother({})
  \/ OnRefreshLimits

LimitsSpec == LimitsInit /\ [][LimitsNext]_limitVars

(* ATLASSERT(false) in the default case of OnSetLimit and OnRemoveLimit     *)
(* (MainDlg.cpp:672, 739): the combo box offers nothing else than the cases.*)
NeverAsserts == ~asserted

=============================================================================
