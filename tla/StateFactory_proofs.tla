------------------------- MODULE StateFactory_proofs -------------------------
(***************************************************************************)
(* Proofs about the state factory, for any finite set of names and any set *)
(* of threads.  Most follows from one inductive invariant, Inv: who is     *)
(* inside createState, and what the tables look like at each point of it.  *)
(* PackInv adds what the helper thread has put into its buffer.            *)
(***************************************************************************)
EXTENDS StateFactory, FiniteSetTheorems, TLAPS

Calling(t) == pc[t] \in {"lock", "lookup", "insertName", "insertState", "unlock"}
Inside(t) == pc[t] \in {"lookup", "insertName", "insertState", "unlock"}

(* A thread in createState has a name to ask for. *)
ArgGiven == \A t \in Threads : Calling(t) => arg[t] \in Names

(* The mutex is held by the thread that is inside. *)
MutualExclusion == \A t \in Threads : Inside(t) <=> mutex = t

(* Ids are handed out from 1 on, and none twice. *)
Dense == \A n \in Names : nameToState[n] <= Cardinality(KnownNames)
Injective ==
  \A m, n \in Names : nameToState[m] = nameToState[n] /\ nameToState[m] # NoId => m = n

(* How far the thread inside has come. *)
BeforeInsertName(t) ==
  nameToState[arg[t]] = NoId /\ newId[t] = Cardinality(KnownNames) + 1
BeforeInsertState(t) ==
  nameToState[arg[t]] = newId[t] /\ newId[t] # NoId /\ stateToName[newId[t]] = Nobody
Progress ==
  \A t \in Threads :
    /\ pc[t] = "insertName" => BeforeInsertName(t)
    /\ pc[t] = "insertState" => BeforeInsertState(t)
    /\ pc[t] = "unlock" => nameToState[arg[t]] # NoId

(* The tables agree, except about the name that is being inserted. *)
StatesNamed == \A i \in Ids, n \in Names : stateToName[i] = n => nameToState[n] = i
NamesStated ==
  \A n \in Names : nameToState[n] # NoId =>
    \/ stateToName[nameToState[n]] = n
    \/ \E t \in Threads : pc[t] = "insertState" /\ arg[t] = n

(* What was answered can be looked up, so no lookup has failed. *)
AnswersKnown ==
  \A t \in Threads : answer[t] # NoAnswer => stateToName[answer[t][2]] = answer[t][1]

Inv ==
  /\ TypeOK
  /\ ArgGiven
  /\ MutualExclusion
  /\ Dense
  /\ Injective
  /\ Progress
  /\ StatesNamed
  /\ NamesStated
  /\ AnswersKnown
  /\ LookupNeverFails

-----------------------------------------------------------------------------
(***************************************************************************)
(* Cardinalities.                                                          *)
(***************************************************************************)

(* The names that have an id are finitely many, and fewer than all while some
   name has none: there is always an id left for it. *)
LEMMA KnownNamesCounted ==
  /\ IsFiniteSet(KnownNames)
  /\ Cardinality(KnownNames) \in Nat
  /\ Cardinality(Names) \in Nat
  /\ Cardinality(KnownNames) <= Cardinality(Names)
  /\ \A n \in Names : nameToState[n] = NoId =>
       Cardinality(KnownNames) + 1 <= Cardinality(Names)
<1>1. KnownNames \in SUBSET Names
  BY DEF KnownNames
<1>2. IsFiniteSet(Names)
  BY FactoryAssumption
<1>3. /\ IsFiniteSet(KnownNames)
      /\ Cardinality(KnownNames) <= Cardinality(Names)
      /\ Cardinality(Names) = Cardinality(KnownNames) => Names = KnownNames
  BY <1>1, <1>2, FS_Subset
<1>4. Cardinality(KnownNames) \in Nat /\ Cardinality(Names) \in Nat
  BY <1>2, <1>3, FS_CardinalityType
<1>5. ASSUME NEW n \in Names, nameToState[n] = NoId
      PROVE  Cardinality(KnownNames) + 1 <= Cardinality(Names)
  <2>1. KnownNames # Names
    BY <1>5 DEF KnownNames
  <2>2. QED
    BY <2>1, <1>3, <1>4
<1>6. QED
  BY <1>3, <1>4, <1>5

(* Giving an id to a name that has none adds one to the count. *)
LEMMA OneMoreName ==
  ASSUME NEW n \in Names, NEW i \in Ids, nameToState[n] = NoId, TypeOK,
         nameToState' = [nameToState EXCEPT ![n] = i]
  PROVE  Cardinality(KnownNames)' = Cardinality(KnownNames) + 1
<1>1. i # NoId
  BY DEF Ids, NoId
<1>2. KnownNames' = KnownNames \cup {n}
  BY <1>1 DEF KnownNames, TypeOK
<1>3. n \notin KnownNames
  BY DEF KnownNames
<1>4. QED
  BY <1>2, <1>3, KnownNamesCounted, FS_AddElement

(* The ids in the table of states are at most as many as the names. *)
LEMMA KnownIdsCounted == Cardinality(KnownIds) \in 0 .. Cardinality(Names)
<1>1. KnownIds \in SUBSET Ids
  BY DEF KnownIds
<1>2. Cardinality(Names) \in Nat
  BY KnownNamesCounted
<1>3. IsFiniteSet(Ids) /\ Cardinality(Ids) = Cardinality(Names)
  BY <1>2, FS_Interval DEF Ids
<1>4. IsFiniteSet(KnownIds) /\ Cardinality(KnownIds) <= Cardinality(Names)
  BY <1>1, <1>3, FS_Subset
<1>5. QED
  BY <1>2, <1>4, FS_CardinalityType

-----------------------------------------------------------------------------
(***************************************************************************)
(* The invariant.                                                          *)
(***************************************************************************)
LEMMA InvInit == Init => Inv
<1> SUFFICES ASSUME Init PROVE Inv
  OBVIOUS
<1> USE DEF Init
<1>1. Cardinality(Names) \in Nat
  BY KnownNamesCounted
<1>2. TypeOK
  BY <1>1, FactoryAssumption DEF TypeOK, NoAnswer
<1>3. ArgGiven /\ MutualExclusion /\ Progress /\ AnswersKnown /\ LookupNeverFails
  BY FactoryAssumption
  DEF ArgGiven, MutualExclusion, Progress, AnswersKnown, LookupNeverFails, Calling, Inside
<1>4. Dense
  BY KnownNamesCounted DEF Dense, NoId
<1>5. Injective
  BY DEF Injective
<1>6. StatesNamed /\ NamesStated
  BY FactoryAssumption DEF StatesNamed, NamesStated
<1>7. QED
  BY <1>2, <1>3, <1>4, <1>5, <1>6 DEF Inv

(* A step that changes nothing changes nothing. *)
LEMMA InvUnchanged ==
  ASSUME Inv, UNCHANGED vars
  PROVE  Inv'
<1> USE DEF Inv, vars
<1>1. TypeOK'
  BY DEF TypeOK
<1>2. ArgGiven' /\ MutualExclusion' /\ Progress' /\ LookupNeverFails'
  BY DEF ArgGiven, MutualExclusion, Progress, LookupNeverFails, Calling, Inside,
     BeforeInsertName, BeforeInsertState, KnownNames
<1>3. Dense' /\ Injective' /\ StatesNamed' /\ AnswersKnown' /\ NamesStated'
  BY DEF Dense, Injective, StatesNamed, AnswersKnown, NamesStated, KnownNames
<1>4. QED
  BY <1>1, <1>2, <1>3

(* Steps that leave the tables and the answers alone only move threads. *)
LEMMA InvCall ==
  ASSUME Inv, NEW t \in Threads, NEW n \in Names, Call(t, n)
  PROVE  Inv'
<1> USE DEF Inv, Call, Goto, tables, packing
<1>1. TypeOK'
  BY DEF TypeOK
<1>2. ArgGiven' /\ MutualExclusion' /\ Progress' /\ LookupNeverFails'
  BY FactoryAssumption DEF TypeOK, ArgGiven, MutualExclusion, Progress, LookupNeverFails,
     Calling, Inside, BeforeInsertName, BeforeInsertState, KnownNames
<1>3. Dense' /\ Injective' /\ StatesNamed' /\ AnswersKnown'
  BY DEF Dense, Injective, StatesNamed, AnswersKnown, KnownNames
<1>4. NamesStated'
  BY DEF NamesStated, TypeOK
<1>5. QED
  BY <1>1, <1>2, <1>3, <1>4

LEMMA InvLock ==
  ASSUME Inv, NEW t \in Threads, Lock(t)
  PROVE  Inv'
<1> USE DEF Inv, Lock, Goto, tables, packing
<1>1. TypeOK'
  BY DEF TypeOK
<1>2. ArgGiven' /\ MutualExclusion' /\ Progress' /\ LookupNeverFails'
  BY FactoryAssumption DEF TypeOK, ArgGiven, MutualExclusion, Progress, LookupNeverFails,
     Calling, Inside, BeforeInsertName, BeforeInsertState, KnownNames
<1>3. Dense' /\ Injective' /\ StatesNamed' /\ AnswersKnown'
  BY DEF Dense, Injective, StatesNamed, AnswersKnown, KnownNames
<1>4. NamesStated'
  BY DEF NamesStated, TypeOK
<1>5. QED
  BY <1>1, <1>2, <1>3, <1>4

LEMMA InvLookupFound ==
  ASSUME Inv, NEW t \in Threads, LookupFound(t)
  PROVE  Inv'
<1> USE DEF Inv, LookupFound, Goto, tables, packing
<1>1. TypeOK'
  BY DEF TypeOK
<1>2. ArgGiven' /\ MutualExclusion' /\ Progress' /\ LookupNeverFails'
  BY FactoryAssumption DEF TypeOK, ArgGiven, MutualExclusion, Progress, LookupNeverFails,
     Calling, Inside, BeforeInsertName, BeforeInsertState, KnownNames
<1>3. Dense' /\ Injective' /\ StatesNamed' /\ AnswersKnown'
  BY DEF Dense, Injective, StatesNamed, AnswersKnown, KnownNames
<1>4. NamesStated'
  BY DEF NamesStated, TypeOK
<1>5. QED
  BY <1>1, <1>2, <1>3, <1>4

(* A name that has no id leaves one free: the new id is in range. *)
LEMMA InvLookupMissing ==
  ASSUME Inv, NEW t \in Threads, LookupMissing(t)
  PROVE  Inv'
<1> USE DEF Inv, LookupMissing, Goto, tables, packing
<1>1. arg[t] \in Names
  BY DEF ArgGiven, Calling
<1>2. Cardinality(KnownNames) + 1 \in Ids
  BY <1>1, KnownNamesCounted DEF Ids
<1>3. TypeOK'
  BY <1>2 DEF TypeOK
<1>4. ArgGiven' /\ MutualExclusion' /\ LookupNeverFails'
  BY DEF TypeOK, ArgGiven, MutualExclusion, LookupNeverFails, Calling, Inside
<1>5. Progress'
  <2>1. Cardinality(KnownNames)' = Cardinality(KnownNames)
    BY DEF KnownNames
  <2>2. QED
    BY <2>1 DEF TypeOK, Progress, BeforeInsertName, BeforeInsertState
<1>6. Dense' /\ Injective' /\ StatesNamed' /\ AnswersKnown'
  BY DEF Dense, Injective, StatesNamed, AnswersKnown, KnownNames
<1>7. NamesStated'
  BY DEF NamesStated, TypeOK
<1>8. QED
  BY <1>3, <1>4, <1>5, <1>6, <1>7

(* The new id is the next one: no name has it and no state is entered for it. *)
LEMMA InvInsertName ==
  ASSUME Inv, NEW t \in Threads, InsertName(t)
  PROVE  Inv'
<1> USE DEF Inv, InsertName, Goto, packing
<1> DEFINE n == arg[t]
           i == newId[t]
<1>1. n \in Names /\ nameToState[n] = NoId /\ i = Cardinality(KnownNames) + 1
  BY DEF ArgGiven, Calling, Progress, BeforeInsertName
<1>2. i \in Ids /\ i # NoId /\ i \in Nat
  BY <1>1, KnownNamesCounted DEF Ids, NoId
<1>3. nameToState' = [nameToState EXCEPT ![n] = i]
  BY <1>1 DEF TypeOK
<1>4. Cardinality(KnownNames)' = i
  BY <1>1, <1>2, <1>3, OneMoreName
<1>5. \A u \in Threads : u # t => ~Inside(u)
  BY FactoryAssumption DEF MutualExclusion, Inside
<1>6. \A m \in Names : nameToState[m] \in Nat /\ nameToState[m] < i
  BY <1>1, KnownNamesCounted DEF Dense, TypeOK, Ids, NoId
<1>7. TypeOK'
  BY <1>2, <1>3 DEF TypeOK
<1>8. ArgGiven' /\ MutualExclusion' /\ LookupNeverFails'
  BY DEF TypeOK, ArgGiven, MutualExclusion, LookupNeverFails, Calling, Inside
<1>9. Dense'
  <2>1. ASSUME NEW m \in Names PROVE nameToState'[m] <= i
    <3>1. CASE m = n
      BY <3>1, <1>2, <1>3 DEF TypeOK
    <3>2. CASE m # n
      BY <3>2, <1>2, <1>3, <1>6 DEF TypeOK
    <3>3. QED
      BY <3>1, <3>2
  <2>2. QED
    BY <2>1, <1>4 DEF Dense
<1>10. Injective'
  BY <1>3, <1>6 DEF Injective, TypeOK
<1>11. stateToName[i] = Nobody
  <2>1. stateToName[i] \notin Names
    BY <1>2, <1>6 DEF StatesNamed
  <2>2. QED
    BY <2>1, <1>2 DEF TypeOK
<1>12. Progress'
  <2>1. ASSUME NEW u \in Threads
        PROVE  /\ pc'[u] = "insertName" => BeforeInsertName(u)'
               /\ pc'[u] = "insertState" => BeforeInsertState(u)'
               /\ pc'[u] = "unlock" => nameToState'[arg'[u]] # NoId
    <3>1. CASE u = t
      BY <3>1, <1>1, <1>2, <1>3, <1>11 DEF TypeOK, BeforeInsertState
    <3>2. CASE u # t
      BY <3>2, <1>5 DEF TypeOK, Inside
    <3>3. QED
      BY <3>1, <3>2
  <2>2. QED
    BY <2>1 DEF Progress
<1>13. StatesNamed'
  <2>1. ASSUME NEW j \in Ids, NEW m \in Names, stateToName[j] = m
        PROVE  nameToState'[m] = j
    <3>1. nameToState[m] = j
      BY <2>1 DEF StatesNamed
    <3>2. m # n
      BY <3>1, <1>1 DEF Ids, NoId
    <3>3. QED
      BY <3>1, <3>2, <1>3 DEF TypeOK
  <2>2. QED
    BY <2>1 DEF StatesNamed
<1>14. NamesStated'
  <2>1. ASSUME NEW m \in Names, nameToState'[m] # NoId
        PROVE  \/ stateToName[nameToState'[m]] = m
               \/ pc'[t] = "insertState" /\ arg'[t] = m
    <3>1. CASE m = n
      BY <3>1 DEF TypeOK
    <3>2. CASE m # n
      <4>1. nameToState'[m] = nameToState[m]
        BY <3>2, <1>3 DEF TypeOK
      <4>2. ~ \E u \in Threads : pc[u] = "insertState" /\ arg[u] = m
        BY <1>5 DEF Inside
      <4>3. QED
        BY <2>1, <4>1, <4>2 DEF NamesStated
    <3>3. QED
      BY <3>1, <3>2
  <2>2. QED
    BY <2>1 DEF NamesStated
<1>15. AnswersKnown'
  BY DEF AnswersKnown
<1>16. QED
  BY <1>7, <1>8, <1>9, <1>10, <1>12, <1>13, <1>14, <1>15

(* Now the other table agrees on the name as well. *)
LEMMA InvInsertState ==
  ASSUME Inv, NEW t \in Threads, InsertState(t)
  PROVE  Inv'
<1> USE DEF Inv, InsertState, Goto, packing
<1> DEFINE n == arg[t]
           i == newId[t]
<1>1. n \in Names /\ nameToState[n] = i /\ i # NoId /\ stateToName[i] = Nobody
  BY DEF ArgGiven, Calling, Progress, BeforeInsertState
<1>2. i \in Ids
  BY <1>1 DEF TypeOK
<1>3. stateToName' = [stateToName EXCEPT ![i] = n]
  BY <1>1, <1>2 DEF TypeOK
<1>4. \A u \in Threads : u # t => ~Inside(u)
  BY FactoryAssumption DEF MutualExclusion, Inside
<1>5. TypeOK'
  BY <1>1, <1>2, <1>3 DEF TypeOK
<1>6. ArgGiven' /\ MutualExclusion' /\ LookupNeverFails'
  BY DEF TypeOK, ArgGiven, MutualExclusion, LookupNeverFails, Calling, Inside
<1>7. Dense' /\ Injective'
  BY DEF Dense, Injective, KnownNames
<1>8. Progress'
  <2>1. ASSUME NEW u \in Threads
        PROVE  /\ pc'[u] = "insertName" => BeforeInsertName(u)'
               /\ pc'[u] = "insertState" => BeforeInsertState(u)'
               /\ pc'[u] = "unlock" => nameToState'[arg'[u]] # NoId
    <3>1. CASE u = t
      BY <3>1, <1>1 DEF TypeOK
    <3>2. CASE u # t
      BY <3>2, <1>4 DEF TypeOK, Inside
    <3>3. QED
      BY <3>1, <3>2
  <2>2. QED
    BY <2>1 DEF Progress
<1>9. StatesNamed'
  BY <1>1, <1>3 DEF StatesNamed, TypeOK
<1>10. NamesStated'
  <2>1. ASSUME NEW m \in Names, nameToState[m] # NoId
        PROVE  stateToName'[nameToState[m]] = m
    <3>1. CASE m = n
      BY <3>1, <1>1, <1>2, <1>3 DEF TypeOK
    <3>2. CASE m # n
      <4>1. stateToName[nameToState[m]] = m
        BY <2>1, <3>2, <1>4 DEF NamesStated, Inside
      <4>2. nameToState[m] # i
        BY <1>1, <2>1, <3>2 DEF Injective
      <4>3. QED
        BY <4>1, <4>2, <1>3, <2>1 DEF TypeOK
    <3>3. QED
      BY <3>1, <3>2
  <2>2. QED
    BY <2>1 DEF NamesStated
<1>11. AnswersKnown'
  <2>1. ASSUME NEW u \in Threads, answer[u] # NoAnswer
        PROVE  stateToName'[answer[u][2]] = answer[u][1]
    <3>1. answer[u] \in Names \X Ids
      BY <2>1 DEF TypeOK
    <3>2. stateToName[answer[u][2]] = answer[u][1]
      BY <2>1 DEF AnswersKnown
    <3>3. answer[u][2] # i
      BY <3>1, <3>2, <1>1, FactoryAssumption
    <3>4. QED
      BY <3>1, <3>2, <3>3, <1>3 DEF TypeOK
  <2>2. QED
    BY <2>1 DEF AnswersKnown
<1>12. QED
  BY <1>5, <1>6, <1>7, <1>8, <1>9, <1>10, <1>11

(* What is answered has been entered in both tables by then. *)
LEMMA InvUnlock ==
  ASSUME Inv, NEW t \in Threads, Unlock(t)
  PROVE  Inv'
<1> USE DEF Inv, Unlock, Goto, tables, packing
<1> DEFINE n == arg[t]
<1>1. n \in Names /\ nameToState[n] # NoId
  BY DEF ArgGiven, Calling, Progress
<1>2. nameToState[n] \in Ids
  BY <1>1 DEF TypeOK
<1>3. \A u \in Threads : u # t => ~Inside(u)
  BY FactoryAssumption DEF MutualExclusion, Inside
<1>4. stateToName[nameToState[n]] = n
  BY <1>1, <1>3 DEF NamesStated, Inside
<1>5. TypeOK'
  BY <1>1, <1>2 DEF TypeOK, NoId
<1>6. ArgGiven' /\ LookupNeverFails'
  BY DEF TypeOK, ArgGiven, LookupNeverFails, Calling
<1>7. MutualExclusion'
  BY <1>3, FactoryAssumption DEF TypeOK, MutualExclusion, Inside
<1>8. Progress'
  BY <1>3 DEF TypeOK, Progress, Inside, BeforeInsertName, BeforeInsertState
<1>9. Dense' /\ Injective' /\ StatesNamed'
  BY DEF Dense, Injective, StatesNamed, KnownNames
<1>10. NamesStated'
  BY <1>3 DEF NamesStated, TypeOK, Inside
<1>11. AnswersKnown'
  <2>1. ASSUME NEW u \in Threads, answer'[u] # NoAnswer
        PROVE  stateToName[answer'[u][2]] = answer'[u][1]
    <3>1. CASE u = t
      BY <3>1, <1>4 DEF TypeOK
    <3>2. CASE u # t
      BY <3>2, <2>1 DEF TypeOK, AnswersKnown
    <3>3. QED
      BY <3>1, <3>2
  <2>2. QED
    BY <2>1 DEF AnswersKnown
<1>12. QED
  BY <1>5, <1>6, <1>7, <1>8, <1>9, <1>10, <1>11

(* An answer is in the table: the lookup does not fail. *)
LEMMA InvFindName ==
  ASSUME Inv, NEW t \in Threads, FindName(t)
  PROVE  Inv'
<1> USE DEF Inv, FindName, Goto, tables, packing
<1>1. answer[t] \in Names \X Ids
  BY DEF TypeOK
<1>2. stateToName[answer[t][2]] # Nobody
  BY <1>1, FactoryAssumption DEF AnswersKnown
<1>3. pc' = pc
  BY <1>2 DEF TypeOK
<1>4. QED
  BY <1>3, InvUnchanged DEF vars

(* Packing reads the table of states and writes the buffer only. *)
LEMMA InvPack ==
  ASSUME Inv, Pack
  PROVE  Inv'
<1> USE DEF Inv
<1>1. /\ UNCHANGED <<nameToState, stateToName, mutex, arg, newId, answer>>
      /\ \A t \in Threads : Inside(t)' <=> Inside(t)
      /\ \A t \in Threads : Calling(t)' <=> Calling(t)
      /\ \A t \in Threads : Inside(t) => pc'[t] = pc[t]
      /\ \A t \in Threads : pc'[t] # "error"
  BY FactoryAssumption DEF TypeOK, Pack, PackedSize, PackHeader, PackEntry, PackEnd, PackSent,
     Goto, tables, packing, Inside, Calling, LookupNeverFails
<1>2. TypeOK'
  <2>1. CASE PackedSize \/ PackHeader
    BY <2>1, KnownIdsCounted DEF PackedSize, PackHeader, Goto, tables, TypeOK
  <2>2. CASE PackEntry
    <3>1. Unpacked \subseteq Ids
      BY DEF Unpacked, KnownIds
    <3>2. QED
      BY <2>2, <3>1 DEF PackEntry, tables, TypeOK
  <2>3. CASE PackEnd \/ PackSent
    <3>1. 0 \in 0 .. Cardinality(Names) /\ <<>> \in Seq(Ids)
      BY KnownNamesCounted
    <3>2. CASE PackEnd
      BY <3>2 DEF PackEnd, Goto, tables, packing, TypeOK
    <3>3. CASE PackSent
      BY <3>3, <3>1 DEF PackSent, Goto, tables, TypeOK
    <3>4. QED
      BY <2>3, <3>2, <3>3
  <2>4. QED
    BY <2>1, <2>2, <2>3 DEF Pack
<1>3. ArgGiven' /\ MutualExclusion' /\ LookupNeverFails'
  BY <1>1 DEF ArgGiven, MutualExclusion, LookupNeverFails
<1>4. Progress'
  BY <1>1 DEF Progress, Inside, BeforeInsertName, BeforeInsertState, KnownNames
<1>5. Dense' /\ Injective' /\ StatesNamed' /\ AnswersKnown'
  BY <1>1 DEF Dense, Injective, StatesNamed, AnswersKnown, KnownNames
<1>6. NamesStated'
  BY <1>1 DEF NamesStated, Inside
<1>7. QED
  BY <1>2, <1>3, <1>4, <1>5, <1>6

LEMMA InvNext == Inv /\ [Next]_vars => Inv'
<1> SUFFICES ASSUME Inv, [Next]_vars PROVE Inv'
  OBVIOUS
<1>1. CASE \E t \in Threads, n \in Names : Call(t, n)
  BY <1>1, InvCall
<1>2. ASSUME NEW t \in Threads, CreateState(t) PROVE Inv'
  BY <1>2, InvLock, InvLookupFound, InvLookupMissing, InvInsertName, InvInsertState, InvUnlock
  DEF CreateState
<1>3. ASSUME NEW t \in Threads, FindName(t) PROVE Inv'
  BY <1>3, InvFindName
<1>4. CASE Pack
  BY <1>4, InvPack
<1>5. CASE UNCHANGED vars
  BY <1>5, InvUnchanged
<1>6. QED
  BY <1>1, <1>2, <1>3, <1>4, <1>5 DEF Next

(* Inv holds in every state the factory can be in. *)
THEOREM Invariance == Spec => []Inv
<1>1. QED
  BY InvInit, InvNext, PTL DEF Spec

-----------------------------------------------------------------------------
(***************************************************************************)
(* The results.                                                            *)
(***************************************************************************)

(* The factory's variables have their types; in particular, an id handed out
   is never above the number of names. *)
THEOREM TypeCorrect == Spec => []TypeOK
<1>1. Inv => TypeOK
  BY DEF Inv
<1>2. QED
  BY <1>1, Invariance, PTL

(* While no thread is inside createState, the two tables are inverse. *)
THEOREM TablesInverse == Spec => []TablesAreInverse
<1>1. Inv => TablesAreInverse
  <2> SUFFICES ASSUME Inv, mutex = Nobody, NEW n \in Names, NEW i \in Ids
               PROVE  nameToState[n] = i <=> stateToName[i] = n
    BY DEF TablesAreInverse
  <2>1. ~ \E t \in Threads : pc[t] = "insertState"
    BY FactoryAssumption DEF Inv, MutualExclusion, Inside
  <2>2. ASSUME nameToState[n] = i PROVE stateToName[i] = n
    <3>1. nameToState[n] # NoId
      BY <2>2 DEF Ids, NoId
    <3>2. QED
      BY <2>1, <2>2, <3>1 DEF Inv, NamesStated
  <2>3. ASSUME stateToName[i] = n PROVE nameToState[n] = i
    BY <2>3 DEF Inv, StatesNamed
  <2>4. QED
    BY <2>2, <2>3
<1>2. QED
  BY <1>1, Invariance, PTL

(* A state that createState returned can be looked up ever after. *)
THEOREM LookupsSucceed == Spec => []LookupNeverFails
<1>1. Inv => LookupNeverFails
  BY DEF Inv
<1>2. QED
  BY <1>1, Invariance, PTL

(* The factory implements the registry: entering a name in the first table is
   the step that numbers it, returning from createState the step that tells. *)
THEOREM Refinement == Spec => ImplementsRegistry
<1>1. Init => Registry!Init
  BY DEF Init, Registry!Init, NoId, NoAnswer, Registry!NoAnswer
<1>2. Inv /\ Inv' /\ [Next]_vars => [Registry!Next]_(Registry!registry)
  <2> SUFFICES ASSUME Inv, Inv', [Next]_vars
               PROVE  Registry!Next \/ UNCHANGED <<nameToState, answer>>
    BY DEF Registry!registry
  <2>1. ASSUME NEW t \in Threads, InsertName(t) PROVE Registry!Next
    <3>1. arg[t] \in Names /\ nameToState[arg[t]] = NoId /\ newId[t] = Cardinality(KnownNames) + 1
      BY <2>1 DEF Inv, ArgGiven, Calling, Progress, BeforeInsertName, InsertName
    <3>2. Registry!Numbered = KnownNames
      BY DEF Registry!Numbered, KnownNames, NoId
    <3>3. /\ nameToState' = [nameToState EXCEPT ![arg[t]] = newId[t]]
          /\ UNCHANGED answer
      BY <2>1, <3>1 DEF InsertName, Inv, TypeOK
    <3>4. Registry!Cardinality(Registry!Numbered) = Cardinality(KnownNames)
      BY <3>2 DEF Registry!Cardinality, Cardinality
    <3>5. Registry!Register(arg[t])
      BY <3>1, <3>3, <3>4 DEF Registry!Register, NoId
    <3>6. QED
      BY <3>1, <3>5 DEF Registry!Next
  <2>2. ASSUME NEW t \in Threads, Unlock(t) PROVE Registry!Next
    <3>1. arg[t] \in Names /\ nameToState[arg[t]] # NoId
      BY <2>2 DEF Inv, ArgGiven, Calling, Progress, Unlock
    <3>2. Registry!Answer(t, arg[t])
      BY <2>2, <3>1 DEF Unlock, Registry!Answer, NoId, tables
    <3>3. QED
      BY <3>1, <3>2 DEF Registry!Next
  <2>3. ASSUME NEW t \in Threads, CreateState(t), ~InsertName(t), ~Unlock(t)
        PROVE  UNCHANGED <<nameToState, answer>>
    BY <2>3 DEF CreateState, Lock, LookupFound, LookupMissing, InsertState, tables
  <2>4. CASE \E t \in Threads, n \in Names : Call(t, n)
    BY <2>4 DEF Call, tables
  <2>5. CASE \E t \in Threads : FindName(t)
    BY <2>5 DEF FindName, tables
  <2>6. CASE Pack
    BY <2>6 DEF Pack, PackedSize, PackHeader, PackEntry, PackEnd, PackSent, tables
  <2>7. CASE UNCHANGED vars
    BY <2>7 DEF vars
  <2>8. QED
    BY <2>1, <2>2, <2>3, <2>4, <2>5, <2>6, <2>7 DEF Next
<1>3. QED
  BY <1>1, <1>2, Invariance, PTL DEF Spec, ImplementsRegistry, Registry!Spec

-----------------------------------------------------------------------------
(***************************************************************************)
(* What an unlocked pack sends.                                            *)
(***************************************************************************)

(* The numbers up to the count of names are all in use, and the thread that
   still has to enter its state has the last one. *)
NumbersUsed ==
  \A i \in Ids : i <= Cardinality(KnownNames) => \E n \in Names : nameToState[n] = i
LastInserted ==
  \A t \in Threads : pc[t] = "insertState" => newId[t] = Cardinality(KnownNames)

(* The buffer holds the ids 1, 2, ... in this order, it is not announced to
   hold fewer than were counted, nor more than the table has, and in the end
   as many as announced are there. *)
Filling == pc[Helper] \in {"packEntries", "packed"}
BufferFilled ==
  /\ pc[Helper] = "packHeader" => 1 .. sized \subseteq KnownIds
  /\ Filling => sized <= header /\ 1 .. header \subseteq KnownIds
  /\ ~Filling => packed = <<>>
  /\ \A k \in DOMAIN packed : packed[k] = k
  /\ pc[Helper] = "packed" => header <= Len(packed)

PackInv == Inv /\ NumbersUsed /\ LastInserted /\ BufferFilled

(* The table of states has the ids from 1 to some number: a walk that meets
   them in order and sees an id has seen all the smaller ones. *)
LEMMA KnownIdsPrefix ==
  ASSUME Inv, NumbersUsed, LastInserted
  PROVE  KnownIds = 1 .. Cardinality(KnownIds) /\ Cardinality(KnownIds) \in Nat
<1> DEFINE C == Cardinality(KnownNames)
<1>1. C \in Nat /\ Cardinality(Names) \in Nat /\ C <= Cardinality(Names)
  BY KnownNamesCounted
<1>2. ASSUME NEW i \in KnownIds PROVE i \in 1 .. C
  <2>1. PICK n \in Names : stateToName[i] = n
    BY <1>2 DEF KnownIds, Inv, TypeOK
  <2>2. nameToState[n] = i
    BY <2>1, <1>2 DEF KnownIds, Inv, StatesNamed
  <2>3. QED
    BY <2>2, <1>1 DEF KnownIds, Ids, Inv, Dense
<1>3. ASSUME NEW i \in 1 .. C, ~ \E t \in Threads : pc[t] = "insertState" /\ newId[t] = i
      PROVE  i \in KnownIds
  <2>1. i \in Ids
    BY <1>1 DEF Ids
  <2>2. PICK n \in Names : nameToState[n] = i
    BY <2>1, <1>1 DEF NumbersUsed
  <2>3. nameToState[n] # NoId
    BY <2>2, <1>1 DEF NoId
  <2>4. ASSUME NEW t \in Threads, pc[t] = "insertState", arg[t] = n PROVE FALSE
    BY <2>2, <2>4, <1>3 DEF Inv, Progress, BeforeInsertState
  <2>5. stateToName[i] = n
    BY <2>2, <2>3, <2>4 DEF Inv, NamesStated
  <2>6. QED
    BY <2>1, <2>5, FactoryAssumption DEF KnownIds
<1>4. \E k \in Nat : KnownIds = 1 .. k
  <2>1. CASE \E t \in Threads : pc[t] = "insertState"
    <3>1. PICK t \in Threads : pc[t] = "insertState"
      BY <2>1
    <3>2. newId[t] = C /\ stateToName[C] = Nobody /\ C # NoId
      BY <3>1 DEF LastInserted, Inv, Progress, BeforeInsertState
    <3>3. C - 1 \in Nat
      BY <3>2, <1>1 DEF NoId
    <3>4. \A u \in Threads : pc[u] = "insertState" => newId[u] = C
      BY DEF LastInserted
    <3>5. C \notin KnownIds
      BY <3>2 DEF KnownIds
    <3>6. \A i \in KnownIds : i \in 1 .. C - 1
      BY <1>1, <1>2, <3>5
    <3>7. ASSUME NEW i \in 1 .. C - 1 PROVE i \in KnownIds
      <4>1. i \in 1 .. C /\ i # C
        BY <1>1
      <4>2. QED
        BY <4>1, <1>3, <3>4
    <3>8. KnownIds = 1 .. C - 1
      BY <3>6, <3>7
    <3>9. QED
      BY <3>3, <3>8
  <2>2. CASE ~ \E t \in Threads : pc[t] = "insertState"
    <3>1. KnownIds = 1 .. C
      BY <2>2, <1>2, <1>3
    <3>2. QED
      BY <3>1, <1>1
  <2>3. QED
    BY <2>1, <2>2
<1>5. PICK k \in Nat : KnownIds = 1 .. k
  BY <1>4
<1>6. Cardinality(1 .. k) = k
  BY <1>5, FS_Interval
<1>7. QED
  BY <1>5, <1>6

LEMMA PackInvInit == Init => PackInv
<1> SUFFICES ASSUME Init PROVE PackInv
  OBVIOUS
<1>1. Inv
  BY InvInit
<1>2. Cardinality(KnownNames) = 0
  <2>1. KnownNames = {}
    BY DEF Init, KnownNames
  <2>2. QED
    BY <2>1, FS_EmptySet
<1>3. NumbersUsed
  BY <1>2, KnownNamesCounted DEF NumbersUsed, Ids
<1>4. LastInserted /\ BufferFilled
  BY FactoryAssumption DEF Init, LastInserted, BufferFilled, Filling
<1>5. QED
  BY <1>1, <1>3, <1>4 DEF PackInv

(* A step that leaves the tables and the buffer alone, and does not begin or
   end the insertion of a state or a walk of the table. *)
LEMMA PackInvUnchanged ==
  ASSUME PackInv, Inv', UNCHANGED <<nameToState, stateToName, packing>>,
         \A t \in Threads : pc'[t] = "insertState" => pc[t] = "insertState" /\ newId'[t] = newId[t],
         pc'[Helper] \notin {"packHeader", "packEntries", "packed"} \/ pc'[Helper] = pc[Helper],
         Filling' <=> Filling
  PROVE  PackInv'
<1>1. KnownNames' = KnownNames /\ KnownIds' = KnownIds
  BY DEF KnownNames, KnownIds
<1>2. NumbersUsed' /\ LastInserted'
  BY <1>1 DEF PackInv, NumbersUsed, LastInserted
<1>3. BufferFilled'
  BY <1>1 DEF PackInv, BufferFilled, Filling, packing
<1>4. QED
  BY <1>2, <1>3 DEF PackInv

LEMMA PackInvInsertName ==
  ASSUME PackInv, Inv', NEW t \in Threads, InsertName(t)
  PROVE  PackInv'
<1> USE DEF PackInv, InsertName, Goto, packing
<1> DEFINE n == arg[t]
           i == newId[t]
           C == Cardinality(KnownNames)
<1>1. n \in Names /\ nameToState[n] = NoId /\ i = C + 1
  BY DEF Inv, ArgGiven, Calling, Progress, BeforeInsertName
<1>2. i \in Ids /\ C \in Nat
  BY <1>1, KnownNamesCounted DEF Ids, NoId
<1>3. nameToState' = [nameToState EXCEPT ![n] = i]
  BY <1>1 DEF Inv, TypeOK
<1>4. Cardinality(KnownNames)' = i
  BY <1>1, <1>2, <1>3, OneMoreName DEF Inv
<1>5. NumbersUsed'
  <2>1. ASSUME NEW j \in Ids, j <= i PROVE \E m \in Names : nameToState'[m] = j
    <3>1. CASE j = i
      BY <3>1, <1>1, <1>3 DEF Inv, TypeOK
    <3>2. CASE j # i
      <4>1. j <= C /\ j # NoId
        BY <2>1, <3>2, <1>1, <1>2 DEF Ids, NoId
      <4>2. PICK m \in Names : nameToState[m] = j
        BY <4>1 DEF NumbersUsed
      <4>3. m # n
        BY <4>1, <4>2, <1>1
      <4>4. nameToState'[m] = j
        BY <4>2, <4>3, <1>3 DEF Inv, TypeOK
      <4>5. QED
        BY <4>4
    <3>3. QED
      BY <3>1, <3>2
  <2>2. QED
    BY <2>1, <1>4 DEF NumbersUsed
<1>6. LastInserted'
  <2>1. ASSUME NEW u \in Threads, pc'[u] = "insertState" PROVE newId'[u] = i
    <3>1. CASE u = t
      BY <3>1
    <3>2. CASE u # t
      BY <2>1, <3>2, FactoryAssumption DEF Inv, MutualExclusion, Inside, TypeOK
    <3>3. QED
      BY <3>1, <3>2
  <2>2. QED
    BY <2>1, <1>4 DEF LastInserted
<1>7. BufferFilled'
  <2>1. KnownIds' = KnownIds
    BY DEF KnownIds
  <2>2. (Filling' <=> Filling) /\ (pc'[Helper] = "packHeader" <=> pc[Helper] = "packHeader")
        /\ (pc'[Helper] = "packed" <=> pc[Helper] = "packed")
    BY FactoryAssumption DEF Inv, TypeOK, Filling
  <2>3. QED
    BY <2>1, <2>2 DEF BufferFilled
<1>8. QED
  BY <1>5, <1>6, <1>7

(* Entering a state takes none away from what the walk may see. *)
LEMMA PackInvInsertState ==
  ASSUME PackInv, Inv', NEW t \in Threads, InsertState(t)
  PROVE  PackInv'
<1> USE DEF PackInv, InsertState, Goto, packing
<1>1. KnownNames' = KnownNames
  BY DEF KnownNames
<1>2. NumbersUsed'
  BY <1>1 DEF NumbersUsed
<1>3. LastInserted'
  BY <1>1 DEF LastInserted, Inv, TypeOK
<1>4. KnownIds \subseteq KnownIds'
  BY DEF KnownIds, Inv, TypeOK
<1>5. (Filling' <=> Filling) /\ (pc'[Helper] = "packHeader" <=> pc[Helper] = "packHeader")
      /\ (pc'[Helper] = "packed" <=> pc[Helper] = "packed")
  BY FactoryAssumption DEF Inv, TypeOK, Filling
<1>6. BufferFilled'
  BY <1>4, <1>5 DEF BufferFilled
<1>7. QED
  BY <1>2, <1>3, <1>6

LEMMA PackInvPack ==
  ASSUME PackInv, Inv', Pack
  PROVE  PackInv'
<1> USE DEF PackInv
<1>1. /\ UNCHANGED <<nameToState, stateToName, newId>>
      /\ \A t \in Threads : pc'[t] = "insertState" => pc[t] = "insertState"
  BY FactoryAssumption DEF Inv, TypeOK, Pack, PackedSize, PackHeader, PackEntry, PackEnd,
     PackSent, Goto, tables, packing
<1>2. KnownNames' = KnownNames /\ KnownIds' = KnownIds
  BY <1>1 DEF KnownNames, KnownIds
<1>3. NumbersUsed' /\ LastInserted'
  BY <1>1, <1>2 DEF NumbersUsed, LastInserted
<1> DEFINE K == Cardinality(KnownIds)
<1>4. KnownIds = 1 .. K /\ K \in Nat
  BY KnownIdsPrefix
<1>5. sized \in Nat /\ header \in Nat /\ packed \in Seq(Ids) /\ Len(packed) \in Nat
      /\ DOMAIN packed = 1 .. Len(packed) /\ DOMAIN pc = Threads /\ pc = [t \in Threads |-> pc[t]]
  BY KnownNamesCounted DEF Inv, TypeOK
<1>6. BufferFilled'
  <2>1. CASE PackedSize
    BY <2>1, <1>2, <1>4, <1>5, FactoryAssumption DEF PackedSize, Goto, BufferFilled, Filling
  <2>2. CASE PackHeader
    <3>1. 1 .. sized \subseteq 1 .. K
      BY <2>2, <1>4 DEF PackHeader, BufferFilled
    <3>2. sized <= K
      BY <3>1, <1>4, <1>5
    <3>3. QED
      BY <2>2, <3>2, <1>2, <1>4, <1>5, FactoryAssumption DEF PackHeader, Goto, BufferFilled, Filling
  <2>3. CASE PackEntry
    <3>1. PICK i \in Unpacked : (\A j \in Unpacked : i <= j) /\ packed' = Append(packed, i)
      BY <2>3 DEF PackEntry
    <3>2. Unpacked = {j \in KnownIds : j > Len(packed)}
      BY <1>4, <1>5 DEF Unpacked, BufferFilled
    <3>3. i \in 1 .. K /\ i > Len(packed)
      BY <3>1, <3>2, <1>4
    <3>4. Len(packed) + 1 \in Unpacked
      BY <3>2, <3>3, <1>4, <1>5
    <3>5. i = Len(packed) + 1
      BY <3>1, <3>3, <3>4, <1>5
    <3>6. /\ DOMAIN packed' = 1 .. Len(packed) + 1
          /\ \A k \in 1 .. Len(packed) : packed'[k] = packed[k]
          /\ packed'[Len(packed) + 1] = i
      BY <3>1, <3>3, <1>4, <1>5 DEF Ids
    <3>7. \A k \in DOMAIN packed' : packed'[k] = k
      BY <3>5, <3>6, <1>5 DEF BufferFilled
    <3>8. QED
      BY <2>3, <3>7, <1>2 DEF PackEntry, BufferFilled, Filling
  <2>4. CASE PackEnd
    <3>1. Unpacked = {j \in KnownIds : j > Len(packed)}
      BY <1>4, <1>5 DEF Unpacked, BufferFilled
    <3>2. 1 .. header \subseteq KnownIds
      BY <2>4 DEF PackEnd, BufferFilled, Filling
    <3>3. header <= Len(packed)
      BY <2>4, <3>1, <3>2, <1>5 DEF PackEnd
    <3>4. QED
      BY <2>4, <3>3, <1>2, <1>5, FactoryAssumption DEF PackEnd, Goto, packing, BufferFilled, Filling
  <2>5. CASE PackSent
    BY <2>5, <1>2, <1>5, FactoryAssumption DEF PackSent, Goto, BufferFilled, Filling
  <2>6. QED
    BY <2>1, <2>2, <2>3, <2>4, <2>5 DEF Pack
<1>7. QED
  BY <1>3, <1>6

LEMMA PackInvNext == PackInv /\ Inv' /\ [Next]_vars => PackInv'
<1> SUFFICES ASSUME PackInv, Inv', [Next]_vars PROVE PackInv'
  OBVIOUS
<1>1. DOMAIN pc = Threads /\ pc = [t \in Threads |-> pc[t]] /\ newId \in [Threads -> Ids \cup {NoId}] /\ Helper \in Threads
  BY FactoryAssumption DEF PackInv, Inv, TypeOK
<1>2. ASSUME NEW t \in Threads, NEW n \in Names, Call(t, n) PROVE PackInv'
  BY <1>1, <1>2, PackInvUnchanged DEF Call, Goto, tables, Filling
<1>3. ASSUME NEW t \in Threads, Lock(t) \/ LookupFound(t) PROVE PackInv'
  BY <1>1, <1>3, PackInvUnchanged DEF Lock, LookupFound, Goto, tables, Filling
<1>4. ASSUME NEW t \in Threads, LookupMissing(t) PROVE PackInv'
  BY <1>1, <1>4, PackInvUnchanged DEF LookupMissing, Goto, tables, Filling
<1>5. ASSUME NEW t \in Threads, Unlock(t) PROVE PackInv'
  BY <1>1, <1>5, PackInvUnchanged DEF Unlock, Goto, tables, Filling
<1>6. ASSUME NEW t \in Threads, FindName(t) PROVE PackInv'
  BY <1>1, <1>6, PackInvUnchanged DEF FindName, Goto, tables, Filling
<1>7. CASE UNCHANGED vars
  BY <1>7, PackInvUnchanged DEF vars, packing, Filling
<1>8. QED
  BY <1>2, <1>3, <1>4, <1>5, <1>6, <1>7, PackInvInsertName, PackInvInsertState, PackInvPack
  DEF Next, CreateState

(* However late other threads create states, the receiver of a packed factory
   learns every state that was there when its size was computed. *)
THEOREM ReceiverKnows == Spec => []ReceiverKnowsSizedStates
<1>1. PackInv => ReceiverKnowsSizedStates
  <2> SUFFICES ASSUME PackInv, pc[Helper] = "packed", NEW i \in 1 .. sized
               PROVE  \E k \in 1 .. header : packed[k] = i
    BY DEF ReceiverKnowsSizedStates
  <2>1. sized \in Nat /\ header \in Nat /\ DOMAIN packed = 1 .. Len(packed) /\ Len(packed) \in Nat
    BY KnownNamesCounted DEF PackInv, Inv, TypeOK
  <2>2. sized <= header /\ header <= Len(packed)
    BY DEF PackInv, BufferFilled, Filling
  <2>3. i \in DOMAIN packed /\ i \in 1 .. header
    BY <2>1, <2>2
  <2>4. packed[i] = i
    BY <2>3 DEF PackInv, BufferFilled
  <2>5. QED
    BY <2>3, <2>4
<1>2. Spec => []PackInv
  BY PackInvInit, PackInvNext, Invariance, PTL DEF Spec
<1>3. QED
  BY <1>1, <1>2, PTL
==============================================================================
