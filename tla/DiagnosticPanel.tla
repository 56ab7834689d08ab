---------------------------- MODULE DiagnosticPanel ----------------------------
(***************************************************************************)
(* One test of the desktop application's Network Stress Test panel         *)
(* (diagnostic_panel.rs): the button that starts a publisher thread, the   *)
(* button that stops it, and the thread that ends.  The flag `running' is  *)
(* shared: the buttons go by it, the thread's loop goes by it, and the     *)
(* thread clears it when it has ended.                                     *)
(*                                                                         *)
(* The buttons' 300 ms debounce is left out: a thread may be held up for   *)
(* longer, so that a test is started again before the old thread is gone.  *)
(***************************************************************************)
EXTENDS Integers

CONSTANT MaxTestRuns     \* bound: starts of the test

ASSUME PanelAssumption == MaxTestRuns \in Nat

VARIABLES
  listed,           \* the test is in the panel's list
  running,          \* session.running
  testRun,          \* starts so far
  threads,          \* threads[r]: "none", "publish", "leave", "report", "gone"
  finalReport       \* the run whose report is shown, 0: none

panelVars == <<listed, running, testRun, threads, finalReport>>

Runs == 1 .. MaxTestRuns

PanelInit ==
  /\ listed = TRUE /\ running = FALSE /\ testRun = 0
  /\ threads = [r \in Runs |-> "none"]
  /\ finalReport = 0

(* Faulty variant: the flag stays set where the thread cannot be started.  *)
StartTest_StaysSet ==
  /\ listed /\ ~ running /\ testRun < MaxTestRuns
  /\ testRun' = testRun + 1
  /\ finalReport' = 0
  /\ running' = TRUE
  /\ \/ threads' = [threads EXCEPT ![testRun + 1] = "publish"]
     \/ UNCHANGED threads
  /\ UNCHANGED listed

(* The flag is set before the thread is started, and cleared again where   *)
(* the thread cannot be started.                                           *)
StartTest ==
  /\ listed /\ ~ running /\ testRun < MaxTestRuns
  /\ testRun' = testRun + 1
  /\ finalReport' = 0
  /\ \/ running' = TRUE /\ threads' = [threads EXCEPT ![testRun + 1] = "publish"]
     \/ UNCHANGED <<running, threads>>
  /\ UNCHANGED listed

StopTest ==
  /\ listed /\ running
  /\ running' = FALSE
  /\ UNCHANGED <<listed, testRun, threads, finalReport>>

(* The Remove button is enabled for stopped tests.                         *)
RemoveTest ==
  /\ listed /\ ~ running
  /\ listed' = FALSE
  /\ UNCHANGED <<running, testRun, threads, finalReport>>

(* The panel is dropped with the application's window.                     *)
DropPanel ==
  /\ listed
  /\ listed' = FALSE
  /\ running' = FALSE
  /\ UNCHANGED <<testRun, threads, finalReport>>

LeaveLoop(r) ==
  /\ threads[r] = "publish"
  /\ ~ running
  /\ threads' = [threads EXCEPT ![r] = "leave"]
  /\ UNCHANGED <<listed, running, testRun, finalReport>>

(* The socket cannot be bound, or a packet not be built.                   *)
PublishFails(r) ==
  /\ threads[r] = "publish"
  /\ threads' = [threads EXCEPT ![r] = "leave"]
  /\ UNCHANGED <<listed, running, testRun, finalReport>>

ClearRunning(r) ==
  /\ threads[r] = "leave"
  /\ running' = FALSE
  /\ threads' = [threads EXCEPT ![r] = "report"]
  /\ UNCHANGED <<listed, testRun, finalReport>>

(* Only a publisher that was stopped has a report to show.                 *)
ShowReport(r) ==
  /\ threads[r] = "report"
  /\ threads' = [threads EXCEPT ![r] = "gone"]
  /\ finalReport' \in {finalReport, r}
  /\ UNCHANGED <<listed, running, testRun>>

ThreadEnds(r) == LeaveLoop(r) \/ ClearRunning(r) \/ ShowReport(r)

PanelNext ==
  \/ StartTest \/ StopTest \/ RemoveTest \/ DropPanel
  \/ \E r \in Runs : ThreadEnds(r) \/ PublishFails(r)

-----------------------------------------------------------------------------
(* The panel never shows a test as running that nothing publishes: the     *)
(* flag is set only while a thread is there to clear it.                   *)
RunningIsPublished ==
  running => \E r \in Runs : threads[r] \in {"publish", "leave"}

(* A test that is gone from the panel publishes no more, however often it  *)
(* was stopped and started before.                                         *)
RemovedTestEnds == ~ listed ~> \A r \in Runs : threads[r] \in {"none", "gone"}

=============================================================================
