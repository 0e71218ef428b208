----------------------------- MODULE CApi_proofs -----------------------------
(***************************************************************************)
(* Proofs about the C interface.  The invariant says, for each place in a  *)
(* call, exactly which blocks are on the heap and by which of the client's *)
(* pointers they are held.                                                 *)
(***************************************************************************)
EXTENDS CApi, TLAPS

\* The blocks that the call has allocated for the client so far.
OfWitness == IF ret = 0 THEN {wtns} ELSE {}
OfStatus == IF passed THEN {status.error_msg} ELSE {}

Held ==
    /\ pc \in {"client", "calculate", "copy"} => heap = {}
    /\ pc = "copy" => ret = 0
    /\ pc = "tell" => heap = OfWitness
    /\ pc = "returned" => heap = OfWitness \cup OfStatus /\ OfWitness \cap OfStatus = {}
    /\ pc = "save" => ret = 0 /\ heap = {wtns}

IInv == TypeOK /\ Held /\ ~fault

\* No call has been made at the start.
LEMMA InitHolds == Init => IInv
  BY BlocksAssumption DEF Init, IInv, TypeOK, Held, Pointers, Null, Garbage

\* Every step of the library and of its callers keeps the invariant.
LEMMA NextHolds == IInv /\ [Next]_vars => IInv'
<1> SUFFICES ASSUME IInv, [Next]_vars PROVE IInv'
  OBVIOUS
<1> USE BlocksAssumption DEF IInv, TypeOK, Held, Pointers, Null, Garbage
<1>1. CASE Call
  <2>1. TypeOK' /\ ~fault'
    BY <1>1 DEF Call
  <2>2. Held'
    <3>1. heap' = {} /\ (pc' = "calculate" \/ (pc' = "tell" /\ ret' = 1))
      BY <1>1 DEF Call
    <3> QED
      BY <3>1 DEF OfWitness
  <2> QED
    BY <2>1, <2>2
<1>2. CASE Calculate
  <2>1. CASE Die
    BY <2>1 DEF Die
  <2>2. CASE ~Die
    <3>1. /\ UNCHANGED <<heap, status, wtns, passed, fault>>
          /\ heap = {}
          /\ (pc' = "copy" /\ ret' = 0) \/ (pc' = "tell" /\ ret' = 1)
      BY <1>2, <2>2 DEF Calculate
    <3>2. TypeOK' /\ ~fault'
      BY <3>1
    <3>3. Held'
      BY <3>1 DEF OfWitness
    <3> QED
      BY <3>2, <3>3
  <2> QED
    BY <2>1, <2>2
<1>3. CASE CopyWitness
  <2>1. CASE Die
    BY <2>1 DEF Die
  <2>2. CASE ~Die
    <3>1. PICK b \in Fresh : /\ heap' = heap \cup {b} /\ wtns' = b
                             /\ pc' = "tell" /\ UNCHANGED <<status, passed, ret, fault>>
      BY <1>3, <2>2 DEF CopyWitness
    <3>2. heap = {} /\ ret = 0
      BY <1>3 DEF CopyWitness
    <3>3. heap' = OfWitness'
      BY <3>1, <3>2 DEF OfWitness
    <3> QED
      BY <3>1, <3>2, <3>3 DEF Fresh
  <2> QED
    BY <2>1, <2>2
<1>4. CASE PrepareStatus
  <2>1. CASE Tells /\ pc' = "returned"
    <3>1. PICK b \in Fresh : /\ heap' = heap \cup {b}
                             /\ status' = [code |-> "ERROR", error_msg |-> b]
                             /\ UNCHANGED <<wtns, passed, ret, fault>>
      BY <1>4, <2>1 DEF PrepareStatus, Die
    <3>2. OfStatus' = {b} /\ OfWitness' = OfWitness /\ b \notin heap /\ b \in Blocks
      BY <3>1, <2>1 DEF OfStatus, OfWitness, Tells, Fresh
    <3>3. heap = OfWitness
      BY <1>4 DEF PrepareStatus
    <3> QED
      BY <3>1, <3>2, <3>3, <2>1
  <2>2. CASE ~Tells /\ pc' = "returned"
    BY <1>4, <2>2 DEF PrepareStatus, Die, OfWitness, OfStatus, Tells
  <2>3. CASE pc' # "returned"
    BY <1>4, <2>3 DEF PrepareStatus, Die
  <2> QED
    BY <2>1, <2>2, <2>3
<1>5. CASE FreeStatus
  <2>1. pc = "returned" /\ heap = OfWitness \cup OfStatus /\ OfWitness \cap OfStatus = {}
    BY <1>5 DEF FreeStatus
  <2>2. (IF passed THEN Freed(status) ELSE {}) = OfStatus
    BY <2>1 DEF Freed, OfStatus, OfWitness
  <2>3. heap' = OfWitness /\ ~fault'
    BY <1>5, <2>1, <2>2 DEF FreeStatus
  <2> QED
    BY <1>5, <2>3 DEF FreeStatus, OfWitness
<1>6. CASE SaveWitness
  BY <1>6 DEF SaveWitness
<1>7. CASE UNCHANGED vars
  BY <1>7 DEF vars, OfWitness, OfStatus
<1> QED
  BY <1>1, <1>2, <1>3, <1>4, <1>5, <1>6, <1>7 DEF Next

\* Every reachable state satisfies the inductive invariant.
LEMMA Invariance == Spec => []IInv
  BY InitHolds, NextHolds, PTL DEF Spec

\* The variables keep their types, however many blocks there are.
THEOREM TypeCorrect == Spec => []TypeOK
<1>1. IInv => TypeOK
  BY DEF IInv
<1> QED
  BY <1>1, Invariance, PTL

\* In every sequence of calls each block the client frees or reads is one it
\* was given by the call that has just returned.
THEOREM ClientsAreSafe == Spec => []OnlyOwnBlocksAreUsed
<1>1. IInv => OnlyOwnBlocksAreUsed
  BY DEF IInv, OnlyOwnBlocksAreUsed
<1> QED
  BY <1>1, Invariance, PTL

\* No call leaves a block behind.
THEOREM CallsDoNotLeak == Spec => []NothingIsLost
<1>1. IInv => NothingIsLost
  BY DEF IInv, Held, NothingIsLost
<1> QED
  BY <1>1, Invariance, PTL
=============================================================================
