----------------------------- MODULE StateFactory -----------------------------
(***************************************************************************)
(* The table of states of one process (class StateFactory): the            *)
(* application threads and the helper thread share it.  createState and    *)
(* the two lookups run under the factory's mutex, one memory access of the *)
(* tables per step; packed_size and pack, called by the helper thread when *)
(* it sends its edges to another process, read the table of states without *)
(* the mutex, one entry per step.                                          *)
(***************************************************************************)
EXTENDS Naturals, Sequences, FiniteSets

CONSTANTS Threads,   \* every thread of the process that uses the factory
          Helper,    \* the thread that runs the analysis and packs the table
          Names,     \* call paths, the names of states
          Nobody     \* "no thread" as the mutex's owner, "no name" in a table

ASSUME FactoryAssumption ==
  /\ Helper \in Threads
  /\ IsFiniteSet(Names)
  /\ Nobody \notin Threads
  /\ Nobody \notin Names

(* State ids are 1, 2, ...; State() has id 0 and is in no table. *)
Ids == 1 .. Cardinality(Names)
NoId == 0

VARIABLES
  nameToState,   \* nameToStateTable: the id of a name, NoId if it is absent
  stateToName,   \* stateToNameTable: the name of an id, Nobody if absent
  mutex,         \* the thread that holds the factory's mutex, or Nobody
  pc,            \* what each thread is doing
  arg,           \* the name a thread's call is about
  newId,         \* tmpId, the id createState is about to give to a new name
  answer,        \* the last <<name, id>> createState returned to a thread
  sized,         \* entries packed_size counted for the helper's buffer
  header,        \* number of entries pack wrote at the head of the buffer
  packed         \* the ids of the entries pack wrote after it, in order

tables == <<nameToState, stateToName>>
packing == <<sized, header, packed>>
vars == <<nameToState, stateToName, mutex, pc, arg, newId, answer, sized, header, packed>>

NoAnswer == <<>>
KnownNames == {n \in Names : nameToState[n] # NoId}
KnownIds == {i \in Ids : stateToName[i] # Nobody}

Init ==
  /\ nameToState = [n \in Names |-> NoId]
  /\ stateToName = [i \in Ids |-> Nobody]
  /\ mutex = Nobody
  /\ pc = [t \in Threads |-> "idle"]
  /\ arg = [t \in Threads |-> Nobody]
  /\ newId = [t \in Threads |-> NoId]
  /\ answer = [t \in Threads |-> NoAnswer]
  /\ sized = 0
  /\ header = 0
  /\ packed = <<>>

-----------------------------------------------------------------------------
(***************************************************************************)
(* createState(name): lock; look the name up; give it the next id and      *)
(* enter it in both tables if it is new; unlock and return the id.         *)
(***************************************************************************)
Goto(t, label) == pc' = [pc EXCEPT ![t] = label]

Call(t, n) ==
  /\ pc[t] = "idle"
  /\ arg' = [arg EXCEPT ![t] = n]
  /\ Goto(t, "lock")
  /\ UNCHANGED <<tables, mutex, newId, answer, packing>>

(* MUTANT of Lock: createState without its mutex. *)
LockOmitted(t) ==
  /\ pc[t] = "lock"
  /\ Goto(t, "lookup")
  /\ UNCHANGED <<tables, mutex, arg, newId, answer, packing>>

Lock(t) ==
  /\ pc[t] = "lock"
  /\ mutex = Nobody
  /\ mutex' = t
  /\ Goto(t, "lookup")
  /\ UNCHANGED <<tables, arg, newId, answer, packing>>

LookupFound(t) ==
  /\ pc[t] = "lookup"
  /\ nameToState[arg[t]] # NoId
  /\ Goto(t, "unlock")
  /\ UNCHANGED <<tables, mutex, arg, newId, answer, packing>>

(* MUTANT of LookupMissing: the result of find() is ignored. *)
LookupIgnored(t) ==
  /\ pc[t] = "lookup"
  /\ newId' = [newId EXCEPT ![t] = Cardinality(KnownNames) + 1]
  /\ Goto(t, "insertName")
  /\ UNCHANGED <<tables, mutex, arg, answer, packing>>

LookupMissing(t) ==
  /\ pc[t] = "lookup"
  /\ nameToState[arg[t]] = NoId
  /\ newId' = [newId EXCEPT ![t] = Cardinality(KnownNames) + 1]
  /\ Goto(t, "insertName")
  /\ UNCHANGED <<tables, mutex, arg, answer, packing>>

(* MUTANT of InsertName: the second table is forgotten. *)
InsertNameOnly(t) ==
  /\ pc[t] = "insertName"
  /\ nameToState' = [nameToState EXCEPT ![arg[t]] = IF @ = NoId THEN newId[t] ELSE @]
  /\ Goto(t, "unlock")
  /\ UNCHANGED <<stateToName, mutex, arg, newId, answer, packing>>

(* std::map::insert leaves an entry that is already there alone. *)
InsertName(t) ==
  /\ pc[t] = "insertName"
  /\ nameToState' = [nameToState EXCEPT ![arg[t]] = IF @ = NoId THEN newId[t] ELSE @]
  /\ Goto(t, "insertState")
  /\ UNCHANGED <<stateToName, mutex, arg, newId, answer, packing>>

InsertState(t) ==
  /\ pc[t] = "insertState"
  /\ stateToName' = [stateToName EXCEPT ![newId[t]] = IF @ = Nobody THEN arg[t] ELSE @]
  /\ Goto(t, "unlock")
  /\ UNCHANGED <<nameToState, mutex, arg, newId, answer, packing>>

Unlock(t) ==
  /\ pc[t] = "unlock"
  /\ mutex' = Nobody
  /\ answer' = [answer EXCEPT ![t] = <<arg[t], nameToState[arg[t]]>>]
  /\ arg' = [arg EXCEPT ![t] = Nobody]
  /\ newId' = [newId EXCEPT ![t] = NoId]
  /\ Goto(t, "idle")
  /\ UNCHANGED <<tables, packing>>

-----------------------------------------------------------------------------
(***************************************************************************)
(* findAndGetName(s), for the state s the thread last got: the lookup      *)
(* happens under the mutex.  Callers call handleError when it fails.       *)
(***************************************************************************)
FindName(t) ==
  /\ pc[t] = "idle"
  /\ answer[t] # NoAnswer
  /\ mutex = Nobody
  /\ Goto(t, IF stateToName[answer[t][2]] = Nobody THEN "error" ELSE "idle")
  /\ UNCHANGED <<tables, mutex, arg, newId, answer, packing>>

-----------------------------------------------------------------------------
(***************************************************************************)
(* EdgeReduction::send on the helper thread: packed_size walks the table   *)
(* to size the buffer, pack writes the number of entries and then walks    *)
(* the table again.  Neither takes the mutex.                              *)
(***************************************************************************)
PackedSize ==
  /\ pc[Helper] = "idle"
  /\ sized' = Cardinality(KnownIds)
  /\ Goto(Helper, "packHeader")
  /\ UNCHANGED <<tables, mutex, arg, newId, answer, header, packed>>

(* MUTANT of PackHeader: the last entry is not announced. *)
PackHeaderShort ==
  /\ pc[Helper] = "packHeader"
  /\ header' = IF KnownIds = {} THEN 0 ELSE Cardinality(KnownIds) - 1
  /\ Goto(Helper, "packEntries")
  /\ UNCHANGED <<tables, mutex, arg, newId, answer, sized, packed>>

PackHeader ==
  /\ pc[Helper] = "packHeader"
  /\ header' = Cardinality(KnownIds)
  /\ Goto(Helper, "packEntries")
  /\ UNCHANGED <<tables, mutex, arg, newId, answer, sized, packed>>

Unpacked == {i \in KnownIds : \A k \in DOMAIN packed : packed[k] < i}

PackEntry ==
  /\ pc[Helper] = "packEntries"
  /\ \E i \in Unpacked :
       /\ \A j \in Unpacked : i <= j
       /\ packed' = Append(packed, i)
  /\ UNCHANGED <<tables, mutex, pc, arg, newId, answer, sized, header>>

PackEnd ==
  /\ pc[Helper] = "packEntries"
  /\ Unpacked = {}
  /\ Goto(Helper, "packed")
  /\ UNCHANGED <<tables, mutex, arg, newId, answer, packing>>

(* The buffer is sent, the helper thread goes on. *)
PackSent ==
  /\ pc[Helper] = "packed"
  /\ sized' = 0
  /\ header' = 0
  /\ packed' = <<>>
  /\ Goto(Helper, "idle")
  /\ UNCHANGED <<tables, mutex, arg, newId, answer>>

Pack == PackedSize \/ PackHeader \/ PackEntry \/ PackEnd \/ PackSent

CreateState(t) ==
  \/ Lock(t)
  \/ LookupFound(t)
  \/ LookupMissing(t)
  \/ InsertName(t)
  \/ InsertState(t)
  \/ Unlock(t)

Next ==
  \/ \E t \in Threads, n \in Names : Call(t, n)
  \/ \E t \in Threads : CreateState(t) \/ FindName(t)
  \/ Pack

Spec == Init /\ [][Next]_vars

-----------------------------------------------------------------------------
(* Types of the variables. *)
TypeOK ==
  /\ nameToState \in [Names -> Ids \cup {NoId}]
  /\ stateToName \in [Ids -> Names \cup {Nobody}]
  /\ mutex \in Threads \cup {Nobody}
  /\ pc \in [Threads -> {"idle", "lock", "lookup", "insertName", "insertState",
                         "unlock", "packHeader", "packEntries", "packed", "error"}]
  /\ arg \in [Threads -> Names \cup {Nobody}]
  /\ newId \in [Threads -> Ids \cup {NoId}]
  /\ answer \in [Threads -> (Names \X Ids) \cup {NoAnswer}]
  /\ sized \in 0 .. Cardinality(Names)
  /\ header \in 0 .. Cardinality(Names)
  /\ packed \in Seq(Ids)

(* Whenever no thread is inside createState, the two tables are inverse to
   each other: name -> id -> name and id -> name -> id lead back to the start,
   so a state printed by its id is the state that was recorded. *)
TablesAreInverse ==
  mutex = Nobody =>
    \A n \in Names, i \in Ids : nameToState[n] = i <=> stateToName[i] = n

(* A state that createState returned to any thread can be looked up by every
   later findAndGetName: the handleError calls "state is not in the factory"
   of the reductions are never reached with such a state. *)
LookupNeverFails == \A t \in Threads : pc[t] # "error"

(* A walk of the table without the mutex still sends every state that was in
   the table when the walk began: the receiver, which reads as many entries as
   the header says, can translate every edge the sender recorded before it
   started to pack. *)
ReceiverKnowsSizedStates ==
  pc[Helper] = "packed" =>
    1 .. sized \subseteq {packed[k] : k \in 1 .. header}

(* The factory implements the registry its callers rely on: ids are handed
   out densely, once, and every createState tells the id of its name. *)
Registry == INSTANCE StateRegistry WITH ids <- nameToState
ImplementsRegistry == Registry!Spec

(* model_components.h:88 calls every public function of the factory thread
   safe: what pack wrote fits the size packed_size computed for the buffer. *)
PackedFitsBuffer == Len(packed) <= sized
==============================================================================
