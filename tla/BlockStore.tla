------------------------------ MODULE BlockStore ------------------------------
(***************************************************************************)
(* What the SD card and its driver promise software together: blocks that  *)
(* are read as they were last written.  A call may be cut short by a reset *)
(* of the CPU; a write that was cut short has happened or has not, and     *)
(* nothing else changes.                                                   *)
(***************************************************************************)
EXTENDS Naturals

CONSTANTS
    Blocks,         \* the blocks there are
    Contents,       \* what a block can hold
    Addresses,      \* what software asks for: blocks, and addresses beyond
    Faulty          \* the medium may refuse to give a block

VARIABLES
    store,          \* [block -> contents]
    usable,         \* an initialisation has made the store usable
    call,           \* the call in progress
    answer          \* of the last call, once it has returned

vars == <<store, usable, call, answer>>

NoCall == [op |-> "none"]
Read(address) == [op |-> "read", address |-> address]
Write(address, contents) == [op |-> "write", address |-> address, contents |-> contents]
Calls == {[op |-> "initialize"]}
         \cup {Read(address) : address \in Addresses}
         \cup {Write(address, contents) : address \in Addresses, contents \in Contents}

NoAnswer == [result |-> "none"]
Success == [result |-> "ok"]
Found(contents) == [result |-> "ok", contents |-> contents]
Failure == [result |-> "error"]

\* The computer starts by initialising the store.
Init ==
    /\ store \in [Blocks -> Contents]
    /\ usable = FALSE
    /\ call = NoCall
    /\ answer = NoAnswer

Start ==
    /\ call = NoCall
    /\ call' \in IF answer = NoAnswer THEN {[op |-> "initialize"]} ELSE Calls
    /\ answer' = NoAnswer
    /\ UNCHANGED <<store, usable>>

\* While it initialises, the store may become usable or cease to be.
Initialize ==
    /\ call.op = "initialize"
    /\ usable' \in BOOLEAN
    /\ UNCHANGED <<store, call, answer>>

\* A write takes effect at once, for the whole block and for no other.
Commit ==
    /\ call.op = "write"
    /\ usable /\ call.address \in Blocks
    /\ store' = [store EXCEPT ![call.address] = call.contents]
    /\ UNCHANGED <<usable, call, answer>>

Returns(result) ==
    /\ call' = NoCall
    /\ answer' = result
    /\ UNCHANGED <<store, usable>>

\* Success is only reported of what has been done, and a usable store only
\* fails for an address it does not have, or a fault.
Return ==
    \/ call.op = "initialize" /\ usable /\ Returns(Success)
    \/ call.op = "initialize" /\ Returns(Failure)
    \/ /\ call.op = "read"
       /\ IF usable /\ call.address \in Blocks
            THEN \/ Returns(Found(store[call.address]))
                 \/ Faulty /\ Returns(Failure)
            ELSE Returns(Failure)
    \/ /\ call.op = "write"
       /\ IF usable /\ call.address \in Blocks
            THEN store[call.address] = call.contents /\ Returns(Success)
            ELSE Returns(Failure)

Reset ==
    /\ call' = NoCall
    /\ answer' = NoAnswer
    /\ UNCHANGED <<store, usable>>

Next == Start \/ Initialize \/ Commit \/ Return \/ Reset

Spec == Init /\ [][Next]_vars
=============================================================================
