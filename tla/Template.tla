------------------------------ MODULE Template ------------------------------
(***************************************************************************)
(* pallet-template: its one storage item, Something, and its two            *)
(* dispatchables.  A dispatchable is an operator from the origin and the    *)
(* stored value to a DispatchResult: the value it leaves, or the error.     *)
(***************************************************************************)
EXTENDS Integers

CONSTANT MaxU32      \* largest u32

ASSUME MaxU32Assumption == MaxU32 \in Nat

Root == "Root"       \* the origin that is no account

NoValue == <<>>      \* Something::get() is None, or the one-element sequence

Ok(value)  == [ok |-> TRUE, value |-> value]
Err(error) == [ok |-> FALSE, error |-> error]

do_something(origin, something) ==
    IF origin = Root THEN Err("BadOrigin") ELSE Ok(<<something>>)

\* Mutant: the addition is not checked.
cause_error_wrapping(origin, stored) ==
    IF origin = Root THEN Err("BadOrigin")
    ELSE IF stored = NoValue THEN Err("NoneValue")
    ELSE Ok(<<(stored[1] + 1) % (MaxU32 + 1)>>)

cause_error(origin, stored) ==
    IF origin = Root THEN Err("BadOrigin")
    ELSE IF stored = NoValue THEN Err("NoneValue")
    ELSE IF stored[1] = MaxU32 THEN Err("StorageOverflow")
    ELSE Ok(<<stored[1] + 1>>)
=============================================================================
