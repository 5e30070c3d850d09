---------------------------- MODULE HangDetection ----------------------------
(***************************************************************************)
(* How the processes of an MPI program decide that it hangs.  In every     *)
(* process the application thread records a transition at each MPI call    *)
(* and then signals a condition variable, without the mutex that goes with *)
(* it; a helper thread waits for the signal and starts the analysis when   *)
(* none came for TransTime seconds.  The analysis and the barriers around  *)
(* it are collective: a process leaves one when every process entered it.  *)
(* Clocks are kept as ages, which stop counting where the code stops       *)
(* telling them apart.                                                     *)
(***************************************************************************)
EXTENDS Naturals

CONSTANTS Proc,        \* the MPI processes
          TransTime,   \* seconds of silence that mean a hang (AUT_TIMEOUT)
          WaitTime,    \* seconds one wait for the condition may last
          MaxRounds,   \* bound: how often one helper starts an analysis
          MaxSpurious  \* bound: wake-ups of a helper that nobody signalled

ASSUME HangAssumption ==
  /\ TransTime \in Nat \ {0}
  /\ WaitTime \in Nat \ {0}
  /\ MaxRounds \in Nat \ {0}
  /\ MaxSpurious \in Nat

VARIABLES
  env,        \* AUT_NO_BARRIER and AUT_DO_NOT_EXIT, read once at launch
  app,        \* the application thread of each process
  helper,     \* where the helper thread of each process is
  expire,     \* seconds until expireTime of the helper's current wait
  seen,       \* seconds since lastTransition of the helper, up to TransTime
  coll,       \* number of collective operations the helper has entered
  rounds,     \* number of analyses the helper has started
  spurious,   \* unsignalled wake-ups so far
  quiet,      \* history: seconds since the last transition was signalled
  heard       \* history: seconds since the last signal that found the helper

clocks == <<expire, seen>>
history == <<quiet, heard>>
vars == <<env, app, helper, expire, seen, coll, rounds, spurious, quiet, heard>>

Least(x, y) == IF x < y THEN x ELSE y

Init ==
  /\ env \in [noBarrier : BOOLEAN, doNotExit : BOOLEAN]
  /\ app = [p \in Proc |-> "computing"]
  /\ helper = [p \in Proc |-> "start"]
  /\ expire = [p \in Proc |-> 0]
  /\ seen = [p \in Proc |-> 0]
  /\ coll = [p \in Proc |-> 0]
  /\ rounds = [p \in Proc |-> 0]
  /\ spurious = 0
  /\ quiet = [p \in Proc |-> 0]
  /\ heard = [p \in Proc |-> 0]

-----------------------------------------------------------------------------
(***************************************************************************)
(* The application thread.                                                 *)
(***************************************************************************)

(* transitionBeforeMPICall and transitionAfterMPICall: the transition is in
   the Markov model before anyone is told. *)
Record(p) ==
  /\ app[p] = "computing"
  /\ app' = [app EXCEPT ![p] = "recorded"]
  /\ UNCHANGED <<env, helper, clocks, coll, rounds, spurious, history>>

(* signalCondition: only a helper that is waiting right now is woken. *)
Signal(p) ==
  /\ app[p] = "recorded"
  /\ app' = [app EXCEPT ![p] = "computing"]
  /\ quiet' = [quiet EXCEPT ![p] = 0]
  /\ IF helper[p] = "waiting"
       THEN /\ helper' = [helper EXCEPT ![p] = "woken"]
            /\ heard' = [heard EXCEPT ![p] = 0]
       ELSE UNCHANGED <<helper, heard>>
  /\ UNCHANGED <<env, clocks, coll, rounds, spurious>>

(* The application makes no MPI call any more. *)
Hang(p) ==
  /\ app[p] = "computing"
  /\ app' = [app EXCEPT ![p] = "hung"]
  /\ UNCHANGED <<env, helper, clocks, coll, rounds, spurious, history>>

-----------------------------------------------------------------------------
(***************************************************************************)
(* The helper thread (helperThread).                                       *)
(***************************************************************************)

(* MUTANT of SetDeadline: the new deadline is counted from the old one. *)
DeadlineFromDeadline(p) ==
  /\ helper[p] = "start"
  /\ helper' = [helper EXCEPT ![p] = "entering"]
  /\ expire' = [expire EXCEPT ![p] = @ + WaitTime]
  /\ UNCHANGED <<env, app, seen, coll, rounds, spurious, history>>

(* The outer loop takes the mutex and sets the deadline of its waits. *)
SetDeadline(p) ==
  /\ helper[p] = "start"
  /\ helper' = [helper EXCEPT ![p] = "entering"]
  /\ expire' = [expire EXCEPT ![p] = WaitTime]
  /\ UNCHANGED <<env, app, seen, coll, rounds, spurious, history>>

(* pthread_cond_timedwait begins: from here on a signal reaches the helper. *)
BeginWait(p) ==
  /\ helper[p] = "entering"
  /\ helper' = [helper EXCEPT ![p] = "waiting"]
  /\ UNCHANGED <<env, app, clocks, coll, rounds, spurious, history>>

(* pthread_cond_timedwait may return 0 although nobody signalled. *)
SpuriousWakeup(p) ==
  /\ helper[p] = "waiting"
  /\ spurious < MaxSpurious
  /\ spurious' = spurious + 1
  /\ helper' = [helper EXCEPT ![p] = "woken"]
  /\ UNCHANGED <<env, app, clocks, coll, rounds, history>>

(* MUTANT of Observe: lastTransition is not updated. *)
ObserveNothing(p) ==
  /\ helper[p] = "woken"
  /\ helper' = [helper EXCEPT ![p] = "start"]
  /\ UNCHANGED <<env, app, clocks, coll, rounds, spurious, history>>

(* The wait returned 0: the time of the last transition is now. *)
Observe(p) ==
  /\ helper[p] = "woken"
  /\ helper' = [helper EXCEPT ![p] = "start"]
  /\ seen' = [seen EXCEPT ![p] = 0]
  /\ UNCHANGED <<env, app, expire, coll, rounds, spurious, history>>

(* MUTANT of TimeoutEarly: a wait that timed out counts as a transition. *)
TimeoutResets(p) ==
  /\ helper[p] = "waiting"
  /\ expire[p] = 0
  /\ seen[p] < TransTime
  /\ helper' = [helper EXCEPT ![p] = "entering"]
  /\ seen' = [seen EXCEPT ![p] = 0]
  /\ UNCHANGED <<env, app, expire, coll, rounds, spurious, history>>

(* The wait timed out too early to call it a hang: the inner loop waits again
   for the same deadline, which is over. *)
TimeoutEarly(p) ==
  /\ helper[p] = "waiting"
  /\ expire[p] = 0
  /\ seen[p] < TransTime
  /\ helper' = [helper EXCEPT ![p] = "entering"]
  /\ UNCHANGED <<env, app, clocks, coll, rounds, spurious, history>>

Enter(p, operation) ==
  /\ helper' = [helper EXCEPT ![p] = operation]
  /\ coll' = [coll EXCEPT ![p] = @ + 1]

(* The wait timed out after a long silence: the helper calls it a hang and
   goes, never to come back, to the first barrier or to the analysis. *)
Alarm(p) ==
  /\ helper[p] = "waiting"
  /\ expire[p] = 0
  /\ seen[p] = TransTime
  /\ rounds[p] < MaxRounds
  /\ rounds' = [rounds EXCEPT ![p] = @ + 1]
  /\ Enter(p, IF env.noBarrier THEN "analysis" ELSE "barrier1")
  /\ UNCHANGED <<env, app, clocks, spurious, history>>

(* A process leaves its k-th collective once every process entered its own. *)
Complete(p) == \A q \in Proc : coll[q] >= coll[p]

(* MUTANT of LeaveFirstBarrier: the analysis begins without the others. *)
LeaveFirstBarrierAlone(p) ==
  /\ helper[p] = "barrier1"
  /\ Enter(p, "analysis")
  /\ UNCHANGED <<env, app, clocks, rounds, spurious, history>>

LeaveFirstBarrier(p) ==
  /\ helper[p] = "barrier1"
  /\ Complete(p)
  /\ Enter(p, "analysis")
  /\ UNCHANGED <<env, app, clocks, rounds, spurious, history>>

LeaveAnalysis(p) ==
  /\ helper[p] = "analysis"
  /\ ~env.noBarrier
  /\ Complete(p)
  /\ Enter(p, "barrier2")
  /\ UNCHANGED <<env, app, clocks, rounds, spurious, history>>

(* MUTANT of AnalysisOver: the last collective is not waited for. *)
AnalysisOverAlone(p) ==
  helper[p] = IF env.noBarrier THEN "analysis" ELSE "barrier2"

AnalysisOver(p) ==
  /\ helper[p] = IF env.noBarrier THEN "analysis" ELSE "barrier2"
  /\ Complete(p)

(* exit() takes the application down with the helper thread. *)
Exit(p) ==
  /\ AnalysisOver(p)
  /\ ~env.doNotExit
  /\ helper' = [helper EXCEPT ![p] = "exited"]
  /\ app' = [app EXCEPT ![p] = "gone"]
  /\ UNCHANGED <<env, clocks, coll, rounds, spurious, history>>

Sleep(p) ==
  /\ AnalysisOver(p)
  /\ env.doNotExit
  /\ helper' = [helper EXCEPT ![p] = "sleeping"]
  /\ UNCHANGED <<env, app, clocks, coll, rounds, spurious, history>>

(* After sleep() the helper is back in the inner loop, with the old deadline
   and the old lastTransition. *)
WakeFromSleep(p) ==
  /\ helper[p] = "sleeping"
  /\ rounds[p] < MaxRounds
  /\ helper' = [helper EXCEPT ![p] = "entering"]
  /\ UNCHANGED <<env, app, clocks, coll, rounds, spurious, history>>

-----------------------------------------------------------------------------
(* A second passes everywhere. *)
Tick ==
  /\ expire' = [p \in Proc |-> IF expire[p] = 0 THEN 0 ELSE expire[p] - 1]
  /\ seen' = [p \in Proc |-> Least(seen[p] + 1, TransTime)]
  /\ quiet' = [p \in Proc |-> Least(quiet[p] + 1, TransTime)]
  /\ heard' = [p \in Proc |-> Least(heard[p] + 1, TransTime)]
  /\ UNCHANGED <<env, app, helper, coll, rounds, spurious>>

Application(p) == Record(p) \/ Signal(p) \/ Hang(p)

HelperThread(p) ==
  \/ SetDeadline(p)
  \/ BeginWait(p)
  \/ Observe(p)
  \/ TimeoutEarly(p)
  \/ Alarm(p)
  \/ LeaveFirstBarrier(p)
  \/ LeaveAnalysis(p)
  \/ Exit(p)
  \/ Sleep(p)
  \/ WakeFromSleep(p)

Next ==
  \/ \E p \in Proc : Application(p) \/ HelperThread(p) \/ SpuriousWakeup(p)
  \/ Tick

(* Threads run and time passes; nothing makes the application call MPI. *)
Fairness ==
  /\ \A p \in Proc : WF_vars(Signal(p)) /\ WF_vars(HelperThread(p))
  /\ WF_vars(Tick)

Spec == Init /\ [][Next]_vars /\ Fairness

-----------------------------------------------------------------------------
(* Types of the variables. *)
TypeOK ==
  /\ env \in [noBarrier : BOOLEAN, doNotExit : BOOLEAN]
  /\ app \in [Proc -> {"computing", "recorded", "hung", "gone"}]
  /\ helper \in [Proc -> {"start", "entering", "waiting", "woken", "barrier1",
                          "analysis", "barrier2", "exited", "sleeping"}]
  /\ expire \in [Proc -> 0 .. WaitTime]
  /\ seen \in [Proc -> 0 .. TransTime]
  /\ coll \in [Proc -> 0 .. 3 * MaxRounds]
  /\ rounds \in [Proc -> 0 .. MaxRounds]
  /\ spurious \in 0 .. MaxSpurious
  /\ quiet \in [Proc -> 0 .. TransTime]
  /\ heard \in [Proc -> 0 .. TransTime]

(* A process that any signal still reaches keeps the whole job alive: when
   some process gave up its program (exit, or the sleep that AUT_DO_NOT_EXIT
   puts in its place), every process had raised the alarm as often. *)
UnanimousVerdict ==
  \A p, q \in Proc : helper[p] \in {"exited", "sleeping"} => rounds[q] >= rounds[p]

(* The barriers and the analysis of different processes pair up: no process
   is two collective operations ahead of another, and the k-th one is the same
   for all, so a barrier before an analysis is never matched with the barrier
   after it, of this round or of the one before. *)
InCollective(p) == helper[p] \in {"barrier1", "analysis", "barrier2"}
CollectivesMatch ==
  \A p, q \in Proc :
    /\ coll[p] <= coll[q] + 1
    /\ InCollective(p) /\ InCollective(q) /\ coll[p] = coll[q] => helper[p] = helper[q]

(* A signal that reaches the helper puts the alarm off: none is raised until
   TransTime seconds have passed since, however late the helper runs. *)
HeardSignalDefersAlarm ==
  [][\A p \in Proc : rounds'[p] > rounds[p] => heard[p] = TransTime]_vars

(* A program in which every process has stopped calling MPI is reported: all
   processes get through the analysis. *)
HangIsReported ==
  (\A p \in Proc : app[p] = "hung") ~>
    (\A p \in Proc : helper[p] \in {"exited", "sleeping"})

(* What helper_thread.C:145-146 says the test is for, "Check for a long time
   between a transition": an alarm is raised only in a process that recorded
   and signalled no transition for TransTime seconds. *)
AlarmMeansSilence ==
  [][\A p \in Proc : rounds'[p] > rounds[p] => quiet[p] = TransTime]_vars
==============================================================================
