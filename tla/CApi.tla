-------------------------------- MODULE CApi --------------------------------
(***************************************************************************)
(* The C interface: gw_calc_witness and prepare_status (src/src/lib.rs),   *)
(* gw_free_status (src/include/graph_witness.h), and a client that makes   *)
(* one call after another, each as the example does                        *)
(* (src/examples/calc_witness.c): its status is a variable that nothing    *)
(* has initialized, and the memory it is given is its own to free.         *)
(*                                                                         *)
(* What is tracked is who has which block of the heap.  A malloc that      *)
(* fails is not noticed, the copy that follows it ends the process; so     *)
(* does a panic of calc_witness, which may not leave a C function.         *)
(***************************************************************************)
EXTENDS Integers

CONSTANT Blocks          \* the blocks malloc can return
ASSUME BlocksAssumption == Blocks \subseteq Nat \ {0}

VARIABLES pc,
          heap,          \* the blocks that are allocated
          status, wtns,  \* the client's gw_status_t and wtns_data
          passed,        \* does the call have a status to fill
          ret,           \* what the call returns
          fault          \* the client has used a block it does not have
vars == <<pc, heap, status, wtns, passed, ret, fault>>

Null == 0
Garbage == -1            \* what an uninitialized variable holds
Pointers == Blocks \cup {Null, Garbage}

\* A variant for the mutation runs: a null pointer is taken for a block.
FreshOrNull == (Blocks \cup {Null}) \ heap
Fresh == Blocks \ heap
Die == pc' = "dead" /\ UNCHANGED <<heap, status, wtns, passed, ret, fault>>

-----------------------------------------------------------------------------
\* gw_calc_witness

\* The tests of the arguments; their order decides only what is said.
Call ==
    /\ pc = "client"
    /\ passed' \in BOOLEAN
    /\ \/ pc' = "calculate" /\ ret' = ret
       \/ pc' = "tell" /\ ret' = 1
    /\ UNCHANGED <<heap, status, wtns, fault>>

Calculate ==
    /\ pc = "calculate"
    /\ \/ pc' = "copy" /\ ret' = 0 /\ UNCHANGED <<heap, status, wtns, passed, fault>>
       \/ pc' = "tell" /\ ret' = 1 /\ UNCHANGED <<heap, status, wtns, passed, fault>>
       \/ Die

CopyWitness ==
    /\ pc = "copy"
    /\ \/ \E b \in Fresh : /\ heap' = heap \cup {b} /\ wtns' = b
                           /\ pc' = "tell" /\ UNCHANGED <<status, passed, ret, fault>>
       \/ Die

\* prepare_status, with an error on every path, that of success too.
\* A variant for the mutation runs: success leaves the status alone.
TellsErrors == passed /\ ret # 0
Tells == passed
PrepareStatus ==
    /\ pc = "tell"
    /\ IF Tells
       THEN \/ \E b \in Fresh : /\ heap' = heap \cup {b}
                                /\ status' = [code |-> "ERROR", error_msg |-> b]
                                /\ pc' = "returned" /\ UNCHANGED <<wtns, passed, ret, fault>>
            \/ Die
       ELSE pc' = "returned" /\ UNCHANGED <<heap, status, wtns, passed, ret, fault>>

-----------------------------------------------------------------------------
\* The client

\* The block that gw_free_status, or main after an error, hands to free.  The
\* pointer stays in the status.
\* A variant for the mutation runs: the test is the wrong way round.
FreedIfNull(s) == IF s.error_msg = Null THEN {s.error_msg} ELSE {}
Freed(s) == IF s.error_msg = Null THEN {} ELSE {s.error_msg}
FreeStatus ==
    /\ pc = "returned"
    /\ LET used == IF passed THEN Freed(status) ELSE {}
       IN  heap' = heap \ used /\ fault' = (fault \/ ~(used \subseteq heap))
    /\ pc' = IF ret = 0 THEN "save" ELSE "client"
    /\ UNCHANGED <<status, wtns, passed, ret>>

\* The client writes the witness to a file.  The example then ends; a client
\* that goes on has to free it.
SaveWitness ==
    /\ pc = "save"
    /\ heap' = heap \ {wtns} /\ fault' = (fault \/ wtns \notin heap)
    /\ pc' = "client"
    /\ UNCHANGED <<status, wtns, passed, ret>>

Init ==
    /\ pc = "client" /\ heap = {} /\ fault = FALSE
    /\ status \in [code : {"OK", "ERROR"}, error_msg : {Garbage, Null}]
    /\ wtns = Null /\ passed = FALSE /\ ret = 0

Next == \/ Call \/ Calculate \/ CopyWitness \/ PrepareStatus
        \/ FreeStatus \/ SaveWitness
Spec == Init /\ [][Next]_vars

-----------------------------------------------------------------------------
TypeOK ==
    /\ pc \in {"client", "calculate", "copy", "tell", "returned", "save", "dead"}
    /\ heap \subseteq Blocks
    /\ status \in [code : {"OK", "ERROR"}, error_msg : Pointers]
    /\ wtns \in Blocks \cup {Null}
    /\ passed \in BOOLEAN /\ ret \in {0, 1} /\ fault \in BOOLEAN

\* Whatever a sequence of calls returns, the client never frees or reads a
\* block it does not have: the status it did not initialize has been filled
\* on every path by which a call returns (lib.rs:98 is there for this), and a
\* status or a witness of an earlier call is not taken for one of this call.
OnlyOwnBlocksAreUsed == ~fault

\* Between two calls nothing is left on the heap: a call that fails halfway
\* has not allocated what the client does not hear of.
NothingIsLost == pc = "client" => heap = {}
=============================================================================
