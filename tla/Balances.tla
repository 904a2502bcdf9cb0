------------------------------ MODULE Balances ------------------------------
(***************************************************************************)
(* The part of Substrate's pallet_balances that the Ghost pallet calls,     *)
(* modelled from those calls and from the values runtime and mock configure *)
(* (external code).  A ledger is a function from accounts to free balances; *)
(* a balance of 0 means that the account does not exist.                    *)
(*                                                                          *)
(* A balance that a transfer leaves below the existential deposit is        *)
(* reaped: the account disappears and the dust is burned (DustRemoval = ()).*)
(***************************************************************************)
EXTENDS Integers

CONSTANT ExistentialDeposit

ASSUME ExistentialDepositAssumption == ExistentialDeposit \in Nat \ {0}

Reaped(balance) == IF balance < ExistentialDeposit THEN 0 ELSE balance

(* The conditions under which Currency::transfer returns Ok.                *)
CanTransfer(ledger, src, dst, value, keep_alive) ==
    \/ value = 0
    \/ src = dst
    \/ /\ ledger[src] >= value
       /\ ledger[dst] + value >= ExistentialDeposit
       /\ keep_alive => ledger[src] - value >= ExistentialDeposit

AfterTransfer(ledger, src, dst, value) ==
    IF value = 0 \/ src = dst THEN ledger
    ELSE [ledger EXCEPT ![dst] = @ + value, ![src] = Reaped(@ - value)]

(* deposit_creating credits a balance and mints the amount.  It does nothing *)
(* when the account does not exist and the amount would not keep it alive.  *)
deposit_creating(balance, value) ==
    IF balance = 0 /\ value < ExistentialDeposit THEN 0 ELSE balance + value
=============================================================================
