------------------------- MODULE HangDetection_proofs -------------------------
(***************************************************************************)
(* Proofs about the detection of hangs, for any set of processes, any      *)
(* timeouts and any number of rounds.  The inductive invariant Inv says    *)
(* how many collective operations a helper has entered, given how many     *)
(* analyses it has started and where it is, and how far apart processes    *)
(* can be.                                                                 *)
(***************************************************************************)
EXTENDS HangDetection, TLAPS

(* Three collective operations a round with the barriers, one without. *)
Entered(p) ==
  IF env.noBarrier THEN rounds[p]
  ELSE 3 * rounds[p] - (IF helper[p] = "barrier1" THEN 2
                        ELSE IF helper[p] = "analysis" THEN 1 ELSE 0)
Counted ==
  \A p \in Proc :
    /\ coll[p] = Entered(p)
    /\ InCollective(p) => rounds[p] >= 1
    /\ env.noBarrier => helper[p] \notin {"barrier1", "barrier2"}

(* Outside of a collective operation, nobody is behind. *)
NobodyBehind == \A p, q \in Proc : ~InCollective(p) => coll[p] <= coll[q]
OneAhead == \A p, q \in Proc : coll[p] <= coll[q] + 1

(* lastTransition is not older than the last signal that was heard, except
   between the signal and the assignment. *)
Fresh == \A p \in Proc : helper[p] = "woken" \/ seen[p] <= heard[p]

Inv ==
  /\ TypeOK
  /\ Counted
  /\ NobodyBehind
  /\ OneAhead
  /\ Fresh

-----------------------------------------------------------------------------
LEMMA InvInit == Init => Inv
<1> SUFFICES ASSUME Init PROVE Inv
  OBVIOUS
<1> USE DEF Init
<1>1. TypeOK
  BY HangAssumption DEF TypeOK
<1>2. Counted /\ NobodyBehind /\ OneAhead /\ Fresh
  BY DEF Counted, Entered, InCollective, NobodyBehind, OneAhead, Fresh
<1>3. QED
  BY <1>1, <1>2 DEF Inv

(* A step of process p that stays outside of collective operations, or leaves
   one that is complete, and starts no analysis. *)
LEMMA InvOutside ==
  ASSUME Inv, TypeOK', NEW p \in Proc, NEW here,
         helper' = [helper EXCEPT ![p] = here],
         here \in {"start", "entering", "waiting", "woken", "exited", "sleeping"},
         InCollective(p) => AnalysisOver(p),
         UNCHANGED <<env, coll, rounds>>
  PROVE  Counted' /\ NobodyBehind' /\ OneAhead'
<1> USE DEF Inv, TypeOK
<1>1. Counted'
  BY HangAssumption DEF Counted, Entered, InCollective, AnalysisOver
<1>2. NobodyBehind'
  BY DEF NobodyBehind, InCollective, AnalysisOver, Complete
<1>3. OneAhead'
  BY DEF OneAhead
<1>4. QED
  BY <1>1, <1>2, <1>3

(* A step of process p into its next collective operation. *)
LEMMA InvEnter ==
  ASSUME Inv, NEW p \in Proc, NEW operation, Enter(p, operation),
         operation \in {"barrier1", "analysis", "barrier2"},
         InCollective(p) => Complete(p)
  PROVE  NobodyBehind' /\ OneAhead'
<1> USE DEF Inv, TypeOK, Enter
<1>1. \A q \in Proc : coll[q] \in Nat /\ coll[p] <= coll[q]
  BY HangAssumption DEF NobodyBehind, Complete
<1>2. NobodyBehind'
  BY <1>1, HangAssumption DEF NobodyBehind, InCollective
<1>3. OneAhead'
  BY <1>1, HangAssumption DEF OneAhead
<1>4. QED
  BY <1>2, <1>3

(* The application thread. *)
LEMMA InvApplication ==
  ASSUME Inv, NEW p \in Proc, Application(p)
  PROVE  Inv'
<1> USE DEF Inv
<1>1. CASE Record(p) \/ Hang(p)
  <2> USE <1>1 DEF Record, Hang, clocks, history
  <2>1. TypeOK'
    BY DEF TypeOK
  <2>2. Counted' /\ NobodyBehind' /\ OneAhead' /\ Fresh'
    BY DEF Counted, Entered, InCollective, NobodyBehind, OneAhead, Fresh
  <2>3. QED
    BY <2>1, <2>2
<1>2. CASE Signal(p)
  <2> USE <1>2 DEF Signal, clocks
  <2>1. TypeOK'
    BY HangAssumption DEF TypeOK
  <2>2. CASE helper[p] = "waiting"
    <3>1. Counted' /\ NobodyBehind' /\ OneAhead'
      BY <2>1, <2>2, InvOutside DEF InCollective
    <3>2. Fresh'
      BY <2>2 DEF Fresh, TypeOK
    <3>3. QED
      BY <2>1, <3>1, <3>2
  <2>3. CASE helper[p] # "waiting"
    BY <2>1, <2>3
    DEF Counted, Entered, InCollective, NobodyBehind, OneAhead, Fresh
  <2>4. QED
    BY <2>2, <2>3
<1>3. QED
  BY <1>1, <1>2 DEF Application

(* The helper thread while it waits for signals, and when it leaves the last
   collective operation of a round. *)
LEMMA InvWaiting ==
  ASSUME Inv, NEW p \in Proc,
         \/ SetDeadline(p) \/ BeginWait(p) \/ SpuriousWakeup(p) \/ Observe(p)
         \/ TimeoutEarly(p) \/ Exit(p) \/ Sleep(p) \/ WakeFromSleep(p)
  PROVE  Inv'
<1> USE DEF Inv
<1>1. CASE SetDeadline(p) \/ BeginWait(p) \/ TimeoutEarly(p) \/ WakeFromSleep(p)
  <2> USE <1>1 DEF SetDeadline, BeginWait, TimeoutEarly, WakeFromSleep, clocks, history
  <2>1. TypeOK'
    BY HangAssumption DEF TypeOK
  <2>2. Counted' /\ NobodyBehind' /\ OneAhead'
    BY <2>1, InvOutside DEF InCollective
  <2>3. Fresh'
    BY DEF Fresh, TypeOK
  <2>4. QED
    BY <2>1, <2>2, <2>3
<1>2. CASE SpuriousWakeup(p)
  <2> USE <1>2 DEF SpuriousWakeup, clocks, history
  <2>1. TypeOK'
    BY HangAssumption DEF TypeOK
  <2>2. Counted' /\ NobodyBehind' /\ OneAhead'
    BY <2>1, InvOutside DEF InCollective
  <2>3. Fresh'
    BY DEF Fresh, TypeOK
  <2>4. QED
    BY <2>1, <2>2, <2>3
<1>3. CASE Observe(p)
  <2> USE <1>3 DEF Observe, history
  <2>1. TypeOK'
    BY HangAssumption DEF TypeOK
  <2>2. Counted' /\ NobodyBehind' /\ OneAhead'
    BY <2>1, InvOutside DEF InCollective
  <2>3. Fresh'
    BY HangAssumption DEF Fresh, TypeOK
  <2>4. QED
    BY <2>1, <2>2, <2>3
<1>4. CASE Exit(p) \/ Sleep(p)
  <2> USE <1>4 DEF Exit, Sleep, clocks, history
  <2>1. TypeOK'
    BY DEF TypeOK
  <2>2. Counted' /\ NobodyBehind' /\ OneAhead'
    BY <2>1, InvOutside
  <2>3. Fresh'
    BY DEF Fresh, TypeOK, AnalysisOver
  <2>4. QED
    BY <2>1, <2>2, <2>3
<1>5. QED
  BY <1>1, <1>2, <1>3, <1>4

(* The helper thread on its way through the barriers and the analysis. *)
LEMMA InvCollective ==
  ASSUME Inv, NEW p \in Proc, Alarm(p) \/ LeaveFirstBarrier(p) \/ LeaveAnalysis(p)
  PROVE  Inv'
<1> USE DEF Inv
<1>1. NobodyBehind' /\ OneAhead'
  <2>1. CASE Alarm(p)
    BY <2>1, InvEnter DEF Alarm, InCollective
  <2>2. CASE LeaveFirstBarrier(p)
    BY <2>2, InvEnter DEF LeaveFirstBarrier
  <2>3. CASE LeaveAnalysis(p)
    BY <2>3, InvEnter DEF LeaveAnalysis
  <2>4. QED
    BY <2>1, <2>2, <2>3
<1>2. Counted'
  <2>1. CASE Alarm(p)
    BY <2>1, HangAssumption DEF Alarm, Enter, Counted, Entered, InCollective, TypeOK
  <2>2. CASE LeaveFirstBarrier(p)
    BY <2>2, HangAssumption
    DEF LeaveFirstBarrier, Enter, Counted, Entered, InCollective, TypeOK
  <2>3. CASE LeaveAnalysis(p)
    BY <2>3, HangAssumption DEF LeaveAnalysis, Enter, Counted, Entered, InCollective, TypeOK
  <2>4. QED
    BY <2>1, <2>2, <2>3
<1>3. /\ rounds' \in [Proc -> 0 .. MaxRounds]
      /\ helper' \in [Proc -> {"start", "entering", "waiting", "woken", "barrier1",
                               "analysis", "barrier2", "exited", "sleeping"}]
      /\ coll' \in [Proc -> Nat]
      /\ UNCHANGED <<env, app, expire, seen, spurious, quiet, heard>>
  BY HangAssumption
  DEF Alarm, LeaveFirstBarrier, LeaveAnalysis, Enter, TypeOK, clocks, history
<1>4. coll' \in [Proc -> 0 .. 3 * MaxRounds]
  <2>1. ASSUME NEW q \in Proc PROVE coll'[q] <= 3 * MaxRounds
    BY <1>2, <1>3, HangAssumption DEF Counted, Entered
  <2>2. QED
    BY <1>3, <2>1, HangAssumption
<1>5. TypeOK'
  BY <1>3, <1>4 DEF TypeOK
<1>6. Fresh'
  BY <1>3 DEF Fresh, TypeOK, Alarm, LeaveFirstBarrier, LeaveAnalysis, Enter
<1>7. QED
  BY <1>1, <1>2, <1>5, <1>6

LEMMA InvTick ==
  ASSUME Inv, Tick
  PROVE  Inv'
<1> USE DEF Inv, Tick
<1>1. TypeOK'
  BY HangAssumption DEF TypeOK, Least
<1>2. Counted' /\ NobodyBehind' /\ OneAhead'
  BY DEF Counted, Entered, InCollective, NobodyBehind, OneAhead
<1>3. Fresh'
  BY HangAssumption DEF Fresh, TypeOK, Least
<1>4. QED
  BY <1>1, <1>2, <1>3

LEMMA InvNext == Inv /\ [Next]_vars => Inv'
<1> SUFFICES ASSUME Inv, [Next]_vars PROVE Inv'
  OBVIOUS
<1>1. ASSUME NEW p \in Proc, Application(p) PROVE Inv'
  BY <1>1, InvApplication
<1>2. ASSUME NEW p \in Proc, HelperThread(p) \/ SpuriousWakeup(p) PROVE Inv'
  BY <1>2, InvWaiting, InvCollective DEF HelperThread
<1>3. CASE Tick
  BY <1>3, InvTick
<1>4. CASE UNCHANGED vars
  BY <1>4 DEF vars, Inv, TypeOK, Counted, Entered, InCollective, NobodyBehind, OneAhead, Fresh
<1>5. QED
  BY <1>1, <1>2, <1>3, <1>4 DEF Next

(* Inv holds in every state of every job. *)
THEOREM Invariance == Spec => []Inv
<1>1. QED
  BY InvInit, InvNext, PTL DEF Spec

-----------------------------------------------------------------------------
(***************************************************************************)
(* The results.                                                            *)
(***************************************************************************)

(* The variables have their types; in particular, no helper enters more
   collective operations than its rounds account for. *)
THEOREM TypeCorrect == Spec => []TypeOK
<1>1. Inv => TypeOK
  BY DEF Inv
<1>2. QED
  BY <1>1, Invariance, PTL

(* When a process gave up its program, every process raised the alarm as often:
   it has entered all of the collective operations of its rounds, so the others
   have entered as many, which takes as many rounds. *)
THEOREM Unanimity == Spec => []UnanimousVerdict
<1>1. Inv => UnanimousVerdict
  <2> SUFFICES ASSUME Inv, NEW p \in Proc, NEW q \in Proc,
                      helper[p] \in {"exited", "sleeping"}
               PROVE  rounds[q] >= rounds[p]
    BY DEF UnanimousVerdict
  <2>1. rounds[p] \in Nat /\ rounds[q] \in Nat
    BY HangAssumption DEF Inv, TypeOK
  <2>2. coll[p] <= coll[q]
    BY DEF Inv, NobodyBehind, InCollective
  <2>3. coll[p] = IF env.noBarrier THEN rounds[p] ELSE 3 * rounds[p]
    BY <2>1 DEF Inv, Counted, Entered
  <2>4. coll[q] <= IF env.noBarrier THEN rounds[q] ELSE 3 * rounds[q]
    BY <2>1 DEF Inv, Counted, Entered
  <2>5. coll[q] \in Nat
    BY HangAssumption DEF Inv, TypeOK
  <2>6. QED
    BY <2>1, <2>2, <2>3, <2>4, <2>5
<1>2. QED
  BY <1>1, Invariance, PTL

(* The k-th collective operation is the same one in every process. *)
THEOREM Matching == Spec => []CollectivesMatch
<1>1. Inv => CollectivesMatch
  <2> SUFFICES ASSUME Inv, NEW p \in Proc, NEW q \in Proc,
                      InCollective(p), InCollective(q), coll[p] = coll[q]
               PROVE  helper[p] = helper[q]
    BY DEF CollectivesMatch, Inv, OneAhead
  <2>1. rounds[p] \in Nat /\ rounds[q] \in Nat
    BY HangAssumption DEF Inv, TypeOK
  <2>2. CASE env.noBarrier
    BY <2>2 DEF Inv, Counted, InCollective
  <2>3. CASE ~env.noBarrier
    BY <2>1, <2>3 DEF Inv, Counted, Entered, InCollective
  <2>4. QED
    BY <2>2, <2>3
<1>2. QED
  BY <1>1, Invariance, PTL

(* An alarm is not raised sooner than TransTime after a signal that was heard. *)
THEOREM Deferral == Spec => HeardSignalDefersAlarm
<1>1. Inv /\ [Next]_vars =>
        [\A p \in Proc : rounds'[p] > rounds[p] => heard[p] = TransTime]_vars
  <2> SUFFICES ASSUME Inv, Next, NEW p \in Proc, rounds'[p] > rounds[p]
               PROVE  heard[p] = TransTime
    OBVIOUS
  <2>1. \A q \in Proc : rounds[q] \in Nat
    BY HangAssumption DEF Inv, TypeOK
  <2>2. rounds' # rounds
    BY <2>1
  <2>3. PICK q \in Proc : Alarm(q)
    BY <2>2 DEF Next, Application, HelperThread, Record, Signal, Hang, SetDeadline, BeginWait,
       SpuriousWakeup, Observe, TimeoutEarly, LeaveFirstBarrier, LeaveAnalysis, Exit, Sleep,
       WakeFromSleep, Tick
  <2>4. p = q
    BY <2>1, <2>3 DEF Alarm, Inv, TypeOK
  <2>5. seen[p] = TransTime /\ seen[p] <= heard[p]
    BY <2>3, <2>4 DEF Alarm, Inv, Fresh
  <2>6. QED
    BY <2>5, HangAssumption DEF Inv, TypeOK
<1>2. QED
  BY <1>1, Invariance, PTL DEF Spec, HeardSignalDefersAlarm
==============================================================================
