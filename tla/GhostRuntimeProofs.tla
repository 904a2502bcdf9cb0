------------------------- MODULE GhostRuntimeProofs -------------------------
(***************************************************************************)
(* The runtime's chains, for any number of nodes, users and blocks: an era  *)
(* is served, extrinsics stay on the fork and in the era they were signed   *)
(* for, nonces protect against replay, Something is what the calls explain, *)
(* and fees are paid.                                                       *)
(*                                                                          *)
(* Three recursive functions have to be unfolded: the doubling of           *)
(* next_power_of_two, the sum of the balances and the walk along a branch.  *)
(* For each there is a predicate that says "satisfies the recursion up to   *)
(* k", an existence lemma by induction on k, and the equations that follow. *)
(***************************************************************************)
EXTENDS GhostRuntime, TLAPS, WellFoundedInduction, FiniteSetTheorems,
        SequenceTheorems

(* Induction up to n, for a set in place of a predicate.                    *)
LEMMA PrefixInduction ==
    ASSUME NEW n \in Nat, NEW S, 0 \in S, \A k \in 1..n : k - 1 \in S => k \in S
    PROVE  n \in S /\ \A k \in 0..n : k \in S
<1> DEFINE Missing == {k \in 0..n : k \notin S}
<1>1. ASSUME Missing # {} PROVE FALSE
  <2>1. IsWellFoundedOn(OpToRel(<, Nat), Nat)
    BY NatLessThanWellFounded
  <2>2. Missing \subseteq Nat
    OBVIOUS
  <2> HIDE DEF Missing
  <2>3. PICK x \in Missing : \A y \in Missing : ~(<<y, x>> \in OpToRel(<, Nat))
    BY <1>1, <2>1, <2>2, WFMin, Zenon
  <2>4. \A y \in Missing : ~(y < x)
    BY <2>2, <2>3 DEF OpToRel
  <2> USE DEF Missing
  <2>5. x \in 1..n /\ x - 1 \in 0..n
    OBVIOUS
  <2>6. x - 1 \notin Missing
    BY <2>4, <2>5
  <2> QED
    BY <2>5, <2>6
<1> QED
  BY <1>1

-----------------------------------------------------------------------------
(* The era *)

(* p doubles up to index k until it reaches n.                              *)
Doubles(p, n, k) ==
    /\ p \in [0..k -> Nat]
    /\ p[0] = 1
    /\ \A i \in 1..k : p[i] = IF p[i - 1] >= n THEN p[i - 1] ELSE 2 * p[i - 1]

(* The recursion of next_power_of_two has a solution.                       *)
LEMMA DoublesExists ==
    ASSUME NEW n \in Nat
    PROVE  \E p : Doubles(p, n, n)
<1> DEFINE S == {k \in 0..n : \E p : Doubles(p, n, k)}
<1>1. 0 \in S
  <2>1. Doubles([i \in 0..0 |-> 1], n, 0)
    BY DEF Doubles
  <2> QED
    BY <2>1
<1>2. ASSUME NEW k \in 1..n, k - 1 \in S PROVE k \in S
  <2>1. PICK p : Doubles(p, n, k - 1)
    BY <1>2
  <2> DEFINE x == IF p[k - 1] >= n THEN p[k - 1] ELSE 2 * p[k - 1]
             q == [i \in 0..k |-> IF i = k THEN x ELSE p[i]]
  <2>2. /\ p \in [0..(k - 1) -> Nat] /\ p[0] = 1
        /\ \A i \in 1..(k - 1) : p[i] = IF p[i - 1] >= n THEN p[i - 1] ELSE 2 * p[i - 1]
    BY <2>1 DEF Doubles
  <2>3. x \in Nat
    BY <2>2
  <2>4. q \in [0..k -> Nat] /\ q[0] = 1
    <3> HIDE DEF x
    <3> QED
      BY <2>2, <2>3
  <2>5. \A i \in 1..k : q[i] = IF q[i - 1] >= n THEN q[i - 1] ELSE 2 * q[i - 1]
    BY <2>2
  <2>6. Doubles(q, n, k)
    BY <2>4, <2>5 DEF Doubles
  <2> QED
    BY <2>6
<1> HIDE DEF S
<1>3. n \in S
  BY <1>1, <1>2, PrefixInduction
<1> QED
  BY <1>3 DEF S

(* next_power_of_two is at least 2 and less than twice its argument, so     *)
(* that half of it is neither zero nor more than the argument.              *)
LEMMA NextPowerBounds ==
    ASSUME NEW n \in Nat, n >= 2
    PROVE  next_power_of_two(n) \in 2..(2 * n - 1)
<1> DEFINE P(p) == p = [k \in 0..n |-> IF k = 0 THEN 1
                                       ELSE IF p[k - 1] >= n THEN p[k - 1]
                                       ELSE 2 * p[k - 1]]
           d == CHOOSE p : P(p)
<1>1. next_power_of_two(n) = d[n]
  BY DEF next_power_of_two
<1>2. PICK p : Doubles(p, n, n)
  BY DoublesExists
<1>3. P(p)
  BY <1>2 DEF Doubles
<1>4. P(d)
  <2> HIDE DEF P
  <2> QED
    BY <1>3, Zenon
<1> HIDE DEF d
<1>5. d[0] = 1 /\ \A k \in 1..n : d[k] = IF d[k - 1] >= n THEN d[k - 1] ELSE 2 * d[k - 1]
  BY <1>4
<1> HIDE DEF P
<1> DEFINE S == {k \in 0..n : d[k] \in 1..(2 * n - 1) /\ (k > 0 => d[k] >= 2)}
<1>6. 0 \in S
  BY <1>5
<1>7. ASSUME NEW k \in 1..n, k - 1 \in S PROVE k \in S
  BY <1>5, <1>7
<1>8. n \in S
  <2> HIDE DEF S
  <2> QED
    BY <1>6, <1>7, PrefixInduction
<1> QED
  BY <1>1, <1>8

(* The period is positive and fits into the stored hashes.                  *)
LEMMA PeriodBounds == period \in 1..BlockHashCount
<1>1. BlockHashCount \in Nat /\ BlockHashCount >= 2
  BY RuntimeAssumption
<1>2. next_power_of_two(BlockHashCount) \in 2..(2 * BlockHashCount - 1)
  BY <1>1, NextPowerBounds
<1> DEFINE x == next_power_of_two(BlockHashCount)
<1>3. period = x \div 2
  BY DEF period
<1> HIDE DEF x
<1> QED
  BY <1>1, <1>2, <1>3 DEF x

(* Era::birth, of any block of the era, is the block the era was signed on, *)
(* and its hash is still stored.                                            *)
LEMMA EraServed ==
    ASSUME NEW first \in Nat, NEW n \in (first + 1)..(first + period - 1)
    PROVE  birth(first % period, n) = first /\ first \in StoredHashes(n)
<1>1. period \in Nat /\ period >= 1 /\ period <= BlockHashCount /\ BlockHashCount \in Nat
  BY PeriodBounds, RuntimeAssumption
<1> DEFINE q == first \div period
           r == first % period
<1>2. q \in Nat /\ r \in 0..(period - 1) /\ first = q * period + r
  <2> HIDE DEF period
  <2> QED
    BY <1>1
<1>3. q * period \in Nat
  BY <1>1, <1>2
<1>4. (n - r) \div period = q
  <2>1. n - r = period * q + (n - first) /\ n - first \in 0..(period - 1)
    BY <1>1, <1>2, <1>3
  <2>2. \A x \in 0..(period - 1) : (period * q + x) \div period = q
    BY <1>1, <1>2
  <2> QED
    BY <2>1, <2>2
<1>5. ~(n < r)
  BY <1>1, <1>2, <1>3
<1>6. birth(r, n) = r + q * period
  BY <1>4, <1>5 DEF birth
<1>7. birth(r, n) = first
  BY <1>1, <1>2, <1>3, <1>6
<1>8. first \in StoredHashes(n)
  BY <1>1 DEF StoredHashes
<1> QED
  BY <1>7, <1>8

(* The block that CheckEra looks up lies before the block under way, less   *)
(* than a period.                                                           *)
LEMMA EraAnchors ==
    ASSUME NEW phase \in Nat, NEW n \in Nat, birth(phase, n) \in StoredHashes(n)
    PROVE  birth(phase, n) \in 0..(n - 1) /\ n - birth(phase, n) \in 1..(period - 1)
<1> DEFINE b == birth(phase, n)
           q == (n - phase) \div period
<1>1. period \in Nat /\ period >= 1
  BY PeriodBounds, RuntimeAssumption
<1>2. b \in 0..(n - 1)
  BY DEF StoredHashes
<1>3. ~(n < phase)
  BY <1>2 DEF birth
<1>4. b = phase + q * period
  BY <1>3 DEF birth
<1>5. n - phase \in Nat
  BY <1>3
<1>6. n - phase - q * period \in 0..(period - 1)
  <2> HIDE DEF period
  <2> QED
    BY <1>1, <1>5
<1>7. q * period \in Int
  <2>1. q \in Int
    <3> HIDE DEF period
    <3> QED
      BY <1>1, <1>5
  <2> HIDE DEF q
  <2> QED
    BY <1>1, <2>1
<1> HIDE DEF b, q
<1> QED
  BY <1>1, <1>2, <1>4, <1>6, <1>7 DEF b

-----------------------------------------------------------------------------
(* What one extrinsic does to a state *)

States ==
    [number : Nat, nonce : [Users -> Nat], free : [Users -> Nat],
     something : {NoValue} \cup {<<v>> : v \in 0..MaxU32}]

IsExtrinsic(xt) ==
    /\ xt.signer \in Users
    /\ xt.nonce \in Nat
    /\ IsCall(xt.call) \/ (xt.call.call = "sudo" /\ IsCall(xt.call.inner))

(* An account without funds has no nonce: it has been removed.              *)
Funded(state) == \A u \in Users : state.free[u] = 0 => state.nonce[u] = 0

(* Something after a call of a signed origin.                               *)
SomethingAfter(call, v) ==
    IF call.call = "do_something" THEN <<call.something>>
    ELSE IF call.call = "cause_error" /\ v # NoValue /\ v[1] # MaxU32
         THEN <<v[1] + 1>> ELSE v

(* A transfer empties at most the sender, and only when it may.             *)
LEMMA TransferFacts ==
    ASSUME NEW ledger \in [Users -> Nat], NEW src \in Users, NEW dst \in Users,
           NEW value \in Nat, NEW keep \in BOOLEAN, ledger[src] > 0,
           CanTransfer(ledger, src, dst, value, keep)
    PROVE  LET left == AfterTransfer(ledger, src, dst, value)
           IN  /\ left \in [Users -> Nat]
               /\ \A u \in Users \ {src} : left[u] >= ledger[u]
               /\ keep => left[src] > 0
<1> DEFINE left == AfterTransfer(ledger, src, dst, value)
<1>1. CASE value = 0 \/ src = dst
  BY <1>1 DEF AfterTransfer
<1>2. CASE ~(value = 0 \/ src = dst)
  <2>1. left = [ledger EXCEPT ![dst] = ledger[dst] + value,
                              ![src] = Reaped(ledger[src] - value)]
    BY <1>2 DEF AfterTransfer
  <2>2. /\ ledger[src] >= value
        /\ keep => ledger[src] - value >= ExistentialDeposit
    BY <1>2 DEF CanTransfer
  <2>3. /\ Reaped(ledger[src] - value) \in Nat
        /\ keep => Reaped(ledger[src] - value) > 0
    BY <2>2, ExistentialDepositAssumption DEF Reaped
  <2>4. /\ left[src] = Reaped(ledger[src] - value)
        /\ left[dst] = ledger[dst] + value
        /\ \A u \in Users \ {src, dst} : left[u] = ledger[u]
        /\ DOMAIN left = Users /\ left = [u \in Users |-> left[u]]
    BY <1>2, <2>1
  <2> HIDE DEF left
  <2>5. \A u \in Users \ {src} : left[u] \in Nat /\ left[u] >= ledger[u]
    BY <2>4
  <2>6. left \in [Users -> Nat]
    BY <2>3, <2>4, <2>5
  <2> QED
    BY <2>3, <2>4, <2>5, <2>6 DEF left
<1> QED
  BY <1>1, <1>2

(* A call of a signed origin that has funds.                                *)
LEMMA DispatchFacts ==
    ASSUME NEW c \in States, Funded(c), NEW a \in Users, c.free[a] > 0,
           NEW call, IsCall(call)
    PROVE  LET t == dispatch(c, a, call).state
           IN  /\ t \in States /\ Funded(t) /\ t.number = c.number
               /\ \A u \in Users \ {a} : t.nonce[u] = c.nonce[u]
               /\ t.nonce[a] = c.nonce[a] \/ t.free[a] = 0
               /\ t.something = SomethingAfter(call, c.something)
<1> DEFINE t == dispatch(c, a, call).state
<1>1. a # Root /\ MaxU32 \in Nat
  BY RequestAssumption, MaxU32Assumption
<1>2. c.something = NoValue \/ \E v \in 0..MaxU32 : c.something = <<v>>
  BY DEF States
<1>3. CASE call.call = "do_something"
  <2>1. t = [c EXCEPT !.something = <<call.something>>]
    BY <1>1, <1>3 DEF dispatch, Result, do_something, Ok
  <2>2. call.something \in 0..MaxU32
    BY <1>3 DEF IsCall
  <2>3. SomethingAfter(call, c.something) = <<call.something>>
    BY <1>3 DEF SomethingAfter
  <2> HIDE DEF t
  <2>4. /\ t.number = c.number /\ t.free = c.free /\ t.nonce = c.nonce
        /\ t.something = <<call.something>>
    BY <2>1 DEF States
  <2>5. t \in States
    BY <2>1, <2>2 DEF States
  <2> QED
    BY <2>3, <2>4, <2>5 DEF Funded, t
<1>4. CASE call.call = "cause_error"
  <2>1. CASE c.something # NoValue /\ c.something[1] # MaxU32
    <3>1. t = [c EXCEPT !.something = <<c.something[1] + 1>>]
      BY <1>1, <1>4, <2>1 DEF dispatch, Result, cause_error, Ok
    <3>2. c.something[1] + 1 \in 0..MaxU32
      BY <1>1, <1>2, <2>1 DEF NoValue
    <3>3. SomethingAfter(call, c.something) = <<c.something[1] + 1>>
      BY <1>4, <2>1 DEF SomethingAfter
    <3> HIDE DEF t
    <3>4. /\ t.number = c.number /\ t.free = c.free /\ t.nonce = c.nonce
          /\ t.something = <<c.something[1] + 1>>
      BY <3>1 DEF States
    <3>5. t \in States
      BY <3>1, <3>2 DEF States
    <3> QED
      BY <3>3, <3>4, <3>5 DEF Funded, t
  <2>2. CASE ~(c.something # NoValue /\ c.something[1] # MaxU32)
    <3>1. t = c
      BY <1>1, <1>4, <2>2 DEF dispatch, Result, cause_error, Err
    <3>2. SomethingAfter(call, c.something) = c.something
      BY <1>4, <2>2 DEF SomethingAfter
    <3> QED
      BY <3>1, <3>2
  <2> QED
    BY <2>1, <2>2
<1>5. CASE call.call \in {"transfer_allow_death", "transfer_keep_alive"}
  <2> DEFINE keep == call.call = "transfer_keep_alive"
             left == AfterTransfer(c.free, a, call.dest, call.value)
  <2>1. call.dest \in Users /\ call.value \in Nat
    BY <1>5 DEF IsCall
  <2>2. SomethingAfter(call, c.something) = c.something
    BY <1>5 DEF SomethingAfter
  <2>3. t = transfer(c, a, call).state
    BY <1>5 DEF dispatch
  <2>4. c.free \in [Users -> Nat] /\ c.nonce \in [Users -> Nat] /\ keep \in BOOLEAN
    BY DEF States
  <2>5. CASE CanTransfer(c.free, a, call.dest, call.value, keep)
    <3>1. t = [c EXCEPT !.free = left,
                        !.nonce = [u \in Users |-> IF left[u] = 0 THEN 0 ELSE c.nonce[u]]]
      BY <1>1, <2>3, <2>5 DEF transfer
    <3>2. /\ left \in [Users -> Nat]
          /\ \A u \in Users \ {a} : left[u] >= c.free[u]
          /\ keep => left[a] > 0
      BY <2>1, <2>4, <2>5, TransferFacts
    <3> HIDE DEF t, left, keep
    <3>3. /\ t.number = c.number /\ t.something = c.something /\ t.free = left
          /\ t.nonce = [u \in Users |-> IF left[u] = 0 THEN 0 ELSE c.nonce[u]]
      BY <3>1 DEF States
    <3>4. t \in States
      BY <2>4, <3>1, <3>2 DEF States
    <3>5. Funded(t)
      BY <3>3 DEF Funded
    <3>6. \A u \in Users \ {a} : t.nonce[u] = c.nonce[u]
      <4> SUFFICES ASSUME NEW u \in Users \ {a} PROVE t.nonce[u] = c.nonce[u]
        OBVIOUS
      <4>1. left[u] = 0 => c.free[u] = 0
        BY <2>4, <3>2
      <4>2. left[u] = 0 => c.nonce[u] = 0
        BY <4>1 DEF Funded
      <4> QED
        BY <3>3, <4>2
    <3>7. t.nonce[a] = c.nonce[a] \/ t.free[a] = 0
      BY <3>3
    <3> QED
      BY <1>5, <2>2, <3>3, <3>4, <3>5, <3>6, <3>7 DEF t, keep
  <2>6. CASE ~CanTransfer(c.free, a, call.dest, call.value, keep)
    <3>1. t = c
      BY <2>3, <2>6 DEF transfer
    <3> QED
      BY <2>2, <3>1
  <2> QED
    BY <2>5, <2>6
<1> QED
  BY <1>3, <1>4, <1>5 DEF IsCall

(* None of the calls does anything for the root origin.                     *)
LEMMA DispatchRoot ==
    ASSUME NEW c, NEW call, IsCall(call)
    PROVE  dispatch(c, Root, call).state = c
<1>1. CASE call.call = "do_something"
  BY <1>1 DEF dispatch, Result, do_something, Err
<1>2. CASE call.call = "cause_error"
  BY <1>2 DEF dispatch, Result, cause_error, Err
<1>3. CASE call.call \in {"transfer_allow_death", "transfer_keep_alive"}
  BY <1>3 DEF dispatch, transfer
<1> QED
  BY <1>1, <1>2, <1>3 DEF IsCall

(* The extensions leave the signer alive, with the next nonce.              *)
LEMMA ChargedFacts ==
    ASSUME NEW s \in States, Funded(s), NEW xt, xt.signer \in Users,
           s.free[xt.signer] - Fee >= ExistentialDeposit
    PROVE  LET c == charged(s, xt)
           IN  /\ c \in States /\ Funded(c) /\ c.number = s.number
               /\ c.free[xt.signer] > 0
               /\ c.nonce[xt.signer] = s.nonce[xt.signer] + 1
               /\ \A u \in Users \ {xt.signer} : c.nonce[u] = s.nonce[u]
               /\ c.something = s.something
<1> DEFINE c == charged(s, xt)
           a == xt.signer
<1>1. /\ s.free \in [Users -> Nat] /\ s.nonce \in [Users -> Nat]
      /\ s.free[a] - Fee \in Nat /\ s.free[a] - Fee > 0
  BY RuntimeAssumption, ExistentialDepositAssumption DEF States
<1>2. /\ c.nonce = [s.nonce EXCEPT ![a] = s.nonce[a] + 1]
      /\ c.free = [s.free EXCEPT ![a] = s.free[a] - Fee]
      /\ c.number = s.number /\ c.something = s.something
  BY DEF charged, States
<1>3. c.nonce \in [Users -> Nat] /\ c.free \in [Users -> Nat]
  BY <1>1, <1>2
<1>4. c \in States
  <2>1. c = [s EXCEPT !.nonce = c.nonce, !.free = c.free]
    BY <1>2 DEF charged, States
  <2> HIDE DEF c
  <2> QED
    BY <1>3, <2>1 DEF States
<1> HIDE DEF c
<1>5. /\ c.free[a] > 0 /\ c.nonce[a] = s.nonce[a] + 1
      /\ \A u \in Users \ {a} : c.nonce[u] = s.nonce[u] /\ c.free[u] = s.free[u]
  BY <1>1, <1>2
<1>6. Funded(c)
  BY <1>3, <1>5 DEF Funded
<1> QED
  BY <1>2, <1>4, <1>5, <1>6 DEF c

(* An extrinsic that the extensions let through: the nonce of its signer    *)
(* goes up by one, unless the signer has emptied its account; no other      *)
(* nonce moves.                                                             *)
LEMMA ApplyFacts ==
    ASSUME NEW s \in States, Funded(s), NEW ancestors, NEW index, NEW xt,
           IsExtrinsic(xt), TxExtension(s, ancestors, index, xt)
    PROVE  LET t == applied(s, xt)
           IN  /\ t \in States /\ Funded(t) /\ t.number = s.number
               /\ xt.nonce = s.nonce[xt.signer]
               /\ \A u \in Users \ {xt.signer} : t.nonce[u] = s.nonce[u]
               /\ \/ t.nonce[xt.signer] = s.nonce[xt.signer] + 1
                  \/ t.free[xt.signer] = 0
               /\ t.something = SomethingAfter(xt.call, s.something)
<1> DEFINE a == xt.signer
           c == charged(s, xt)
           t == applied(s, xt)
<1>1. a \in Users /\ xt.nonce = s.nonce[a] /\ s.free[a] - Fee >= ExistentialDeposit
  BY DEF IsExtrinsic, TxExtension
<1>2. /\ c \in States /\ Funded(c) /\ c.number = s.number
      /\ c.free[a] > 0 /\ c.nonce[a] = s.nonce[a] + 1
      /\ \A u \in Users \ {a} : c.nonce[u] = s.nonce[u]
      /\ c.something = s.something
  BY <1>1, ChargedFacts
<1>3. CASE BySudo(xt)
  <2>1. xt.call.call = "sudo" /\ IsCall(xt.call.inner)
    BY <1>3 DEF BySudo, IsExtrinsic, IsCall
  <2>2. RuntimeDispatch(c, xt).state = c
    <3> HIDE DEF c
    <3>1. RuntimeDispatch(c, xt).state = dispatch(c, Root, xt.call.inner).state
      BY <1>3, <2>1 DEF RuntimeDispatch, BySudo
    <3> QED
      BY <2>1, <3>1, DispatchRoot
  <2>3. t = [c EXCEPT !.free[a] = c.free[a] + Fee]
    BY <1>3, <2>2 DEF applied
  <2>4. SomethingAfter(xt.call, s.something) = s.something
    BY <2>1 DEF SomethingAfter
  <2> HIDE DEF c, t
  <2>5. /\ t.free = [c.free EXCEPT ![a] = c.free[a] + Fee]
        /\ t.nonce = c.nonce /\ t.number = c.number /\ t.something = c.something
    BY <1>2, <2>3 DEF States
  <2>6. c.free[a] \in Nat /\ c.free[a] + Fee \in Nat /\ c.free[a] + Fee > 0
    BY <1>1, <1>2, RuntimeAssumption DEF States
  <2>7. t \in States
    <3>1. t.free \in [Users -> Nat]
      BY <1>2, <2>5, <2>6 DEF States
    <3>2. t = [c EXCEPT !.free = t.free]
      BY <1>2, <2>3, <2>5 DEF States
    <3> QED
      BY <1>2, <3>1, <3>2 DEF States
  <2>8. Funded(t)
    BY <1>1, <1>2, <2>5, <2>6 DEF Funded, States
  <2> QED
    BY <1>1, <1>2, <2>4, <2>5, <2>7, <2>8 DEF t
<1>4. CASE ~BySudo(xt) /\ xt.call.call = "sudo"
  <2>1. t = c
    BY <1>4 DEF applied, RuntimeDispatch
  <2>2. SomethingAfter(xt.call, s.something) = s.something
    BY <1>4 DEF SomethingAfter
  <2> HIDE DEF c, t
  <2> QED
    BY <1>1, <1>2, <2>1, <2>2 DEF t
<1>5. CASE xt.call.call # "sudo"
  <2>1. t = dispatch(c, a, xt.call).state
    BY <1>5 DEF applied, RuntimeDispatch, BySudo
  <2>2. IsCall(xt.call)
    BY <1>5 DEF IsExtrinsic
  <2> HIDE DEF c, t
  <2>3. /\ t \in States /\ Funded(t) /\ t.number = c.number
        /\ \A u \in Users \ {a} : t.nonce[u] = c.nonce[u]
        /\ t.nonce[a] = c.nonce[a] \/ t.free[a] = 0
        /\ t.something = SomethingAfter(xt.call, c.something)
    BY <1>1, <1>2, <2>1, <2>2, DispatchFacts
  <2> QED
    BY <1>1, <1>2, <2>3 DEF t
<1> QED
  BY <1>3, <1>4, <1>5

-----------------------------------------------------------------------------
(* What one more extrinsic does to a chain *)

Ledgers == [Users -> Nat]

(* The part of the invariant that AppliedOnce needs: a nonce that has been  *)
(* used is below the account's nonce, or the account has been emptied       *)
(* since.                                                                   *)
Spent(h, frees, nonce) ==
    /\ frees \in Seq(Ledgers) /\ Len(frees) = Len(h)
    /\ \A j \in DOMAIN h, i \in DOMAIN h :
          i < j /\ h[i].signer = h[j].signer /\ h[i].nonce = h[j].nonce
          => Emptied(frees, h[i].signer, i, j - 1)
    /\ \A i \in DOMAIN h :
          h[i].nonce < nonce[h[i].signer] \/ Emptied(frees, h[i].signer, i, Len(h))

(* What has been emptied stays so when more balances are recorded.          *)
LEMMA EmptiedAppend ==
    ASSUME NEW frees \in Seq(Ledgers), NEW free \in Ledgers, NEW a,
           NEW i \in Nat \ {0}, NEW j \in 0..Len(frees), NEW l \in Nat, j <= l,
           Emptied(frees, a, i, j)
    PROVE  Emptied(Append(frees, free), a, i, l)
<1>1. PICK k \in i..j : frees[k][a] = 0
  BY DEF Emptied
<1>2. k \in 1..Len(frees) /\ k \in i..l
  BY <1>1
<1>3. Append(frees, free)[k] = frees[k]
  BY <1>2
<1> QED
  BY <1>1, <1>2, <1>3 DEF Emptied

(* It is kept by every extrinsic with the nonce its signer has.             *)
LEMMA SpentAppend ==
    ASSUME NEW X, \A x \in X : IsExtrinsic(x), NEW h \in Seq(X), NEW xt \in X,
           NEW before \in [Users -> Nat], NEW after \in [Users -> Nat],
           NEW frees, NEW free \in Ledgers,
           Spent(h, frees, before), xt.nonce = before[xt.signer],
           \A u \in Users \ {xt.signer} : after[u] = before[u],
           after[xt.signer] = before[xt.signer] + 1 \/ free[xt.signer] = 0
    PROVE  Spent(Append(h, xt), Append(frees, free), after)
<1> DEFINE g == Append(h, xt)
           e == Append(frees, free)
           m == Len(h)
<1>1. /\ m \in Nat /\ DOMAIN h = 1..m /\ DOMAIN g = 1..(m + 1) /\ Len(g) = m + 1
      /\ g[m + 1] = xt /\ \A i \in 1..m : g[i] = h[i] /\ h[i] \in X
  OBVIOUS
<1>2. \A i \in 1..m : h[i].signer \in Users /\ h[i].nonce \in Nat
  BY <1>1 DEF IsExtrinsic
<1>3. xt.signer \in Users
  BY DEF IsExtrinsic
<1>4. frees \in Seq(Ledgers) /\ Len(frees) = m
  BY DEF Spent
<1>5. e \in Seq(Ledgers) /\ Len(e) = m + 1 /\ e[m + 1] = free
  BY <1>1, <1>4
<1>6. ASSUME NEW a, NEW i \in 1..m, NEW j \in 0..m, NEW l \in Nat, j <= l,
             Emptied(frees, a, i, j)
      PROVE  Emptied(e, a, i, l)
  BY <1>1, <1>4, <1>6, EmptiedAppend
<1> HIDE DEF g, e, m
<1>7. ASSUME NEW j \in 1..(m + 1), NEW i \in 1..(m + 1),
             i < j, g[i].signer = g[j].signer, g[i].nonce = g[j].nonce
      PROVE  Emptied(e, g[i].signer, i, j - 1)
  <2>1. i \in 1..m /\ g[i] = h[i] /\ j - 1 \in 0..m /\ j - 1 \in Nat
    BY <1>1, <1>7
  <2>2. Emptied(frees, h[i].signer, i, j - 1)
    <3>1. CASE j \in 1..m
      BY <1>1, <1>7, <2>1, <3>1 DEF Spent
    <3>2. CASE j = m + 1
      <4>1. h[i].signer = xt.signer /\ h[i].nonce = before[h[i].signer]
        BY <1>1, <1>7, <2>1, <3>2
      <4>2. ~(h[i].nonce < before[h[i].signer])
        BY <1>2, <2>1, <4>1
      <4>3. Emptied(frees, h[i].signer, i, Len(h))
        BY <1>1, <2>1, <4>2 DEF Spent
      <4>4. j - 1 = Len(h)
        BY <1>1, <3>2 DEF m
      <4> QED
        BY <4>3, <4>4
    <3> QED
      BY <1>1, <3>1, <3>2
  <2> QED
    BY <1>6, <2>1, <2>2
<1>8. ASSUME NEW i \in 1..(m + 1)
      PROVE  g[i].nonce < after[g[i].signer] \/ Emptied(e, g[i].signer, i, m + 1)
  <2>1. ASSUME free[xt.signer] = 0 PROVE Emptied(e, xt.signer, i, m + 1)
    <3>1. m + 1 \in i..(m + 1)
      BY <1>1
    <3> QED
      BY <1>5, <2>1, <3>1 DEF Emptied
  <2>2. CASE i = m + 1
    <3>1. g[i] = xt
      BY <1>1, <2>2
    <3>2. ASSUME after[xt.signer] = before[xt.signer] + 1 PROVE xt.nonce < after[xt.signer]
      BY <1>3, <3>2
    <3> QED
      BY <2>1, <3>1, <3>2
  <2>3. CASE i \in 1..m
    <3>1. g[i] = h[i] /\ h[i].signer \in Users /\ h[i].nonce \in Nat
      BY <1>1, <1>2, <2>3
    <3>2. CASE Emptied(frees, h[i].signer, i, Len(h))
      <4>1. Len(h) \in 0..m /\ m + 1 \in Nat /\ Len(h) <= m + 1
        BY <1>1 DEF m
      <4> QED
        BY <1>6, <2>3, <3>1, <3>2, <4>1
    <3>3. CASE h[i].nonce < before[h[i].signer]
      <4>1. CASE h[i].signer # xt.signer
        BY <3>1, <3>3, <4>1
      <4>2. CASE h[i].signer = xt.signer /\ after[xt.signer] = before[xt.signer] + 1
        <5>1. h[i].nonce < after[h[i].signer]
          BY <3>1, <3>3, <4>2
        <5> QED
          BY <3>1, <5>1
      <4>3. CASE h[i].signer = xt.signer /\ free[xt.signer] = 0
        BY <2>1, <3>1, <4>3
      <4> QED
        BY <4>1, <4>2, <4>3
    <3> QED
      BY <1>1, <2>3, <3>2, <3>3 DEF Spent
  <2> QED
    BY <1>1, <2>2, <2>3
<1> QED
  BY <1>1, <1>5, <1>7, <1>8 DEF Spent, g, e

(* A set of indices has a largest one.                                      *)
LEMMA LargestIndex ==
    ASSUME NEW m \in Nat, NEW T, T \subseteq 1..m, T # {}
    PROVE  \E i \in T : \A j \in T : j <= i
<1> DEFINE S == {k \in 0..m : \/ \A j \in T : j > k
                              \/ \E i \in T : i <= k /\ \A j \in T : j <= k => j <= i}
<1>1. 0 \in S
  OBVIOUS
<1>2. ASSUME NEW k \in 1..m, k - 1 \in S PROVE k \in S
  <2>1. CASE k \in T
    <3>1. \A j \in T : j <= k => j <= k
      OBVIOUS
    <3> QED
      BY <2>1, <3>1
  <2>2. CASE k \notin T
    <3>1. \A j \in T : (j > k - 1 => j > k) /\ (j <= k => j <= k - 1)
      BY <2>2
    <3>2. CASE \A j \in T : j > k - 1
      BY <3>1, <3>2
    <3>3. CASE \E i \in T : i <= k - 1 /\ \A j \in T : j <= k - 1 => j <= i
      <4>1. PICK i \in T : i <= k - 1 /\ \A j \in T : j <= k - 1 => j <= i
        BY <3>3
      <4>2. i <= k /\ \A j \in T : j <= k => j <= i
        BY <3>1, <4>1
      <4> QED
        BY <4>2
    <3> QED
      BY <1>2, <3>2, <3>3
  <2> QED
    BY <2>1, <2>2
<1>3. m \in S
  <2> HIDE DEF S
  <2> QED
    BY <1>1, <1>2, PrefixInduction
<1>4. PICK x \in T : x \in 1..m
  OBVIOUS
<1>5. ~(x > m)
  BY <1>4
<1> QED
  BY <1>3, <1>5

(* The parts of Explained.                                                  *)
Sets(h) == {i \in DOMAIN h : h[i].call.call = "do_something"}
LastOf(T) == CHOOSE i \in T : \A j \in T : j <= i
Adds(h, last) == {i \in DOMAIN h : i > last /\ h[i].call.call = "cause_error"}
Capped(sum) == IF sum > MaxU32 THEN MaxU32 ELSE sum

(* Explained, put together from its parts.                                  *)
LEMMA ExplainedParts ==
    ASSUME NEW h
    PROVE  /\ Sets(h) = {} => Explained(h) = NoValue
           /\ Sets(h) # {} =>
                 LET last == LastOf(Sets(h))
                 IN  Explained(h) = <<Capped(h[last].call.something
                                             + Cardinality(Adds(h, last)))>>
  BY DEF Explained, Sets, LastOf, Adds, Capped

(* One more extrinsic: Something is set, counted up or left, as the pallet  *)
(* does it.                                                                 *)
LEMMA ExplainedAppend ==
    ASSUME NEW X, \A x \in X : IsExtrinsic(x), NEW h \in Seq(X), NEW xt \in X
    PROVE  Explained(Append(h, xt)) = SomethingAfter(xt.call, Explained(h))
<1> DEFINE g == Append(h, xt)
           m == Len(h)
           sets == Sets(h)
           last == LastOf(sets)
           adds == Adds(h, last)
<1>1. /\ m \in Nat /\ DOMAIN h = 1..m /\ DOMAIN g = 1..(m + 1)
      /\ g[m + 1] = xt /\ \A i \in 1..m : g[i] = h[i] /\ h[i] \in X
  OBVIOUS
<1>2. \A x \in X : x.call.call = "do_something" => x.call.something \in 0..MaxU32
  BY DEF IsExtrinsic, IsCall
<1>3. MaxU32 \in Nat
  BY MaxU32Assumption
<1> HIDE DEF g, m
<1>4. sets \subseteq 1..m
  BY <1>1 DEF Sets
<1>5. CASE xt.call.call = "do_something"
  <2>1. m + 1 \in Sets(g) /\ \A j \in Sets(g) : j <= m + 1
    BY <1>1, <1>5 DEF Sets
  <2>2. LastOf(Sets(g)) = m + 1
    <3>1. \A i \in Sets(g) : (\A j \in Sets(g) : j <= i) => i = m + 1
      BY <1>1, <2>1 DEF Sets
    <3>2. /\ LastOf(Sets(g)) \in Sets(g)
          /\ \A j \in Sets(g) : j <= LastOf(Sets(g))
      BY <2>1 DEF LastOf
    <3> QED
      BY <3>1, <3>2
  <2>3. Adds(g, m + 1) = {}
    BY <1>1 DEF Adds
  <2>4. Cardinality(Adds(g, m + 1)) = 0
    BY <2>3, FS_EmptySet
  <2>5. Explained(g) = <<Capped(xt.call.something + 0)>>
    BY <1>1, <2>1, <2>2, <2>4, ExplainedParts
  <2>6. Capped(xt.call.something + 0) = xt.call.something
    BY <1>2, <1>3, <1>5 DEF Capped
  <2> QED
    BY <1>5, <2>5, <2>6 DEF SomethingAfter, g
<1>6. CASE xt.call.call # "do_something"
  <2>1. Sets(g) = sets
    BY <1>1, <1>6 DEF Sets
  <2>2. CASE sets = {}
    <3>1. Explained(h) = NoValue /\ Explained(g) = NoValue
      BY <2>1, <2>2, ExplainedParts
    <3> QED
      BY <1>6, <3>1 DEF SomethingAfter, g
  <2>3. CASE sets # {}
    <3>1. last \in sets
      <4>1. \E i \in sets : \A j \in sets : j <= i
        BY <1>1, <1>4, <2>3, LargestIndex
      <4> QED
        BY <4>1 DEF LastOf
    <3> DEFINE v == h[last].call.something
               n == Cardinality(adds)
    <3>2. last \in 1..m /\ g[last] = h[last] /\ v \in 0..MaxU32
      BY <1>1, <1>2, <1>4, <3>1 DEF Sets
    <3> HIDE DEF last, sets
    <3>3. adds \subseteq 1..m /\ IsFiniteSet(adds) /\ n \in Nat
      <4>1. adds \subseteq 1..m
        BY <1>1 DEF Adds
      <4>2. IsFiniteSet(1..m)
        BY <1>1, FS_Interval
      <4> QED
        BY <4>1, <4>2, FS_Subset, FS_CardinalityType
    <3>4. Explained(h) = <<Capped(v + n)>>
      BY <2>3, ExplainedParts DEF last, sets
    <3>5. Explained(g) = <<Capped(v + Cardinality(Adds(g, last)))>>
      BY <2>1, <2>3, <3>2, ExplainedParts DEF last
    <3>6. CASE xt.call.call = "cause_error"
      <4>1. Adds(g, last) = adds \cup {m + 1} /\ m + 1 \notin adds
        BY <1>1, <3>2, <3>3, <3>6 DEF Adds
      <4>2. Cardinality(Adds(g, last)) = n + 1
        BY <3>3, <4>1, FS_AddElement
      <4> HIDE DEF v, n
      <4>3. Explained(h) # NoValue /\ Explained(h)[1] = Capped(v + n)
        BY <3>4 DEF NoValue
      <4>4. Capped(v + (n + 1)) = IF Capped(v + n) # MaxU32 THEN Capped(v + n) + 1
                                  ELSE Capped(v + n)
        BY <1>3, <3>2, <3>3 DEF Capped
      <4>5. SomethingAfter(xt.call, Explained(h))
              = IF Capped(v + n) # MaxU32 THEN <<Capped(v + n) + 1>> ELSE <<Capped(v + n)>>
        BY <3>4, <3>6, <4>3 DEF SomethingAfter
      <4> QED
        BY <3>5, <4>2, <4>4, <4>5 DEF g
    <3>7. CASE xt.call.call # "cause_error"
      <4>1. Adds(g, last) = adds
        BY <1>1, <3>7 DEF Adds
      <4>2. SomethingAfter(xt.call, Explained(h)) = Explained(h)
        BY <1>6, <3>7 DEF SomethingAfter
      <4> QED
        BY <3>4, <3>5, <4>1, <4>2 DEF g
    <3> QED
      BY <3>6, <3>7
  <2> QED
    BY <2>2, <2>3
<1> QED
  BY <1>5, <1>6
-----------------------------------------------------------------------------
(* The sum of all balances *)

(* The order in which Issuance adds the balances of a set of users up.      *)
Chosen(s) == CHOOSE x \in s : TRUE

(* Taking the chosen user away makes a set smaller by one.                  *)
LEMMA ChosenFacts ==
    ASSUME NEW s \in SUBSET Users
    PROVE  /\ Cardinality(s) \in 0..Cardinality(Users) /\ Cardinality(Users) \in Nat
           /\ Cardinality(s) = 0 <=> s = {}
           /\ s # {} => /\ Chosen(s) \in s /\ s \ {Chosen(s)} \in SUBSET Users
                        /\ Cardinality(s \ {Chosen(s)}) = Cardinality(s) - 1
<1>1. IsFiniteSet(Users) /\ Cardinality(Users) \in Nat
  BY RuntimeAssumption, FS_CardinalityType
<1>2. IsFiniteSet(s) /\ Cardinality(s) \in Nat /\ Cardinality(s) <= Cardinality(Users)
  BY <1>1, FS_Subset, FS_CardinalityType
<1>3. Cardinality(s) = 0 <=> s = {}
  BY <1>2, FS_EmptySet
<1>4. ASSUME s # {} PROVE Chosen(s) \in s
  BY <1>4 DEF Chosen
<1>5. ASSUME s # {} PROVE Cardinality(s \ {Chosen(s)}) = Cardinality(s) - 1
  BY <1>2, <1>4, <1>5, FS_RemoveElement
<1> QED
  BY <1>1, <1>2, <1>3, <1>4, <1>5

(* f adds up the sets of at most k users.                                   *)
Small(k) == {s \in SUBSET Users : Cardinality(s) <= k}

AddsUp(f, free, k) ==
    /\ f \in [Small(k) -> Nat]
    /\ \A s \in Small(k) :
          f[s] = IF s = {} THEN 0 ELSE free[Chosen(s)] + f[s \ {Chosen(s)}]

(* The recursion of FoldFunctionOnSet has a solution.                       *)
LEMMA AddsUpExists ==
    ASSUME NEW free \in [Users -> Nat]
    PROVE  \E f : AddsUp(f, free, Cardinality(Users))
<1> DEFINE n == Cardinality(Users)
           S == {k \in 0..n : \E f : AddsUp(f, free, k)}
<1>1. n \in Nat
  BY ChosenFacts
<1> HIDE DEF n
<1>2. 0 \in S
  <2>1. ASSUME NEW s \in SUBSET Users, Cardinality(s) <= 0 PROVE s = {}
    <3>1. Cardinality(s) \in 0..Cardinality(Users) /\ Cardinality(Users) \in Nat
      BY ChosenFacts
    <3>2. Cardinality(s) = 0
      BY <2>1, <3>1
    <3> QED
      BY <3>2, ChosenFacts
  <2>2. AddsUp([s \in Small(0) |-> 0], free, 0)
    BY <2>1 DEF AddsUp, Small
  <2> QED
    BY <1>1, <2>2
<1>3. ASSUME NEW k \in 1..n, k - 1 \in S PROVE k \in S
  <2>1. PICK p : AddsUp(p, free, k - 1)
    BY <1>3
  <2> DEFINE add(s) == IF s = {} THEN 0 ELSE free[Chosen(s)] + p[s \ {Chosen(s)}]
             q == [s \in Small(k) |-> add(s)]
  <2>2. p \in [Small(k - 1) -> Nat] /\ \A s \in Small(k - 1) : p[s] = add(s)
    BY <2>1 DEF AddsUp
  <2>3. \A s \in Small(k) \ {{}} : /\ s \ {Chosen(s)} \in Small(k - 1)
                                   /\ s \ {Chosen(s)} \in Small(k)
                                   /\ Chosen(s) \in Users
    BY <1>1, ChosenFacts DEF Small
  <2>4. \A s \in Small(k) : add(s) \in Nat
    BY <2>2, <2>3
  <2>5. \A s \in Small(k) : s = {} \/ q[s \ {Chosen(s)}] = p[s \ {Chosen(s)}]
    BY <2>2, <2>3
  <2>6. q \in [Small(k) -> Nat]
    BY <2>4
  <2>7. \A s \in Small(k) :
           q[s] = IF s = {} THEN 0 ELSE free[Chosen(s)] + q[s \ {Chosen(s)}]
    BY <2>5
  <2>8. AddsUp(q, free, k)
    BY <2>6, <2>7 DEF AddsUp
  <2> QED
    BY <2>8
<1> HIDE DEF S
<1>4. n \in S
  BY <1>1, <1>2, <1>3, PrefixInduction
<1> QED
  BY <1>4 DEF S, n

(* What Issuance computes.                                                  *)
LEMMA IssuanceUnfolds ==
    ASSUME NEW free \in [Users -> Nat]
    PROVE  \E f : /\ Issuance(free) = f[Users]
                  /\ \A s \in SUBSET Users :
                        f[s] = IF s = {} THEN 0
                               ELSE free[Chosen(s)] + f[s \ {Chosen(s)}]
<1> DEFINE P(f) == f = [s \in SUBSET Users |->
                          IF s = {} THEN 0 ELSE free[Chosen(s)] + f[s \ {Chosen(s)}]]
           d == CHOOSE f : P(f)
<1>1. Issuance(free) = d[Users]
  BY DEF Issuance, FoldFunctionOnSet, MapThenFoldSet, Chosen
<1>2. PICK f : AddsUp(f, free, Cardinality(Users))
  BY AddsUpExists
<1>3. Small(Cardinality(Users)) = SUBSET Users
  <2>1. ASSUME NEW s \in SUBSET Users PROVE Cardinality(s) <= Cardinality(Users)
    <3>1. Cardinality(s) \in 0..Cardinality(Users) /\ Cardinality(Users) \in Nat
      BY ChosenFacts
    <3> QED
      BY <3>1
  <2> QED
    BY <2>1 DEF Small
<1>4. P(f)
  BY <1>2, <1>3 DEF AddsUp
<1>5. P(d)
  <2> HIDE DEF P
  <2> QED
    BY <1>4, Zenon
<1> HIDE DEF d
<1>6. \A s \in SUBSET Users :
         d[s] = IF s = {} THEN 0 ELSE free[Chosen(s)] + d[s \ {Chosen(s)}]
  BY <1>5
<1> QED
  BY <1>1, <1>6

(* When one balance changes, the sum changes by as much.                    *)
LEMMA IssuanceUpdate ==
    ASSUME NEW free \in [Users -> Nat], NEW other \in [Users -> Nat], NEW a \in Users,
           \A u \in Users \ {a} : other[u] = free[u]
    PROVE  /\ Issuance(free) \in Nat /\ Issuance(other) \in Nat
           /\ Issuance(other) + free[a] = Issuance(free) + other[a]
<1>1. PICK f : /\ Issuance(free) = f[Users]
               /\ \A s \in SUBSET Users :
                     f[s] = IF s = {} THEN 0 ELSE free[Chosen(s)] + f[s \ {Chosen(s)}]
  BY IssuanceUnfolds
<1>2. PICK g : /\ Issuance(other) = g[Users]
               /\ \A s \in SUBSET Users :
                     g[s] = IF s = {} THEN 0 ELSE other[Chosen(s)] + g[s \ {Chosen(s)}]
  BY IssuanceUnfolds
<1> DEFINE n == Cardinality(Users)
           Fits(s) == /\ f[s] \in Nat /\ g[s] \in Nat
                      /\ a \in s => g[s] + free[a] = f[s] + other[a]
                      /\ a \notin s => g[s] = f[s]
           S == {k \in 0..n : \A s \in SUBSET Users : Cardinality(s) = k => Fits(s)}
<1>3. n \in Nat
  BY ChosenFacts
<1> HIDE DEF n
<1>4. 0 \in S
  <2>1. f[{}] = 0 /\ g[{}] = 0
    <3>1. {} \in SUBSET Users
      OBVIOUS
    <3> QED
      BY <1>1, <1>2, <3>1, Zenon
  <2>2. Fits({})
    BY <2>1
  <2> HIDE DEF Fits
  <2>3. ASSUME NEW s \in SUBSET Users, Cardinality(s) = 0 PROVE Fits(s)
    <3>1. s = {}
      BY <2>3, ChosenFacts
    <3> QED
      BY <2>2, <3>1
  <2> QED
    BY <1>3, <2>3
<1>5. ASSUME NEW k \in 1..n, k - 1 \in S PROVE k \in S
  <2> SUFFICES ASSUME NEW s \in SUBSET Users, Cardinality(s) = k PROVE Fits(s)
    BY <1>5
  <2> DEFINE x == Chosen(s)
             r == s \ {x}
  <2>1. s # {} /\ x \in s /\ x \in Users /\ r \in SUBSET Users /\ Cardinality(r) = k - 1
    BY <1>3, ChosenFacts
  <2>2. f[s] = free[x] + f[r] /\ g[s] = other[x] + g[r]
    BY <1>1, <1>2, <2>1
  <2> HIDE DEF x
  <2>3. Fits(r)
    <3> HIDE DEF Fits
    <3> QED
      BY <1>5, <2>1
  <2>4. free[x] \in Nat /\ other[x] \in Nat /\ x # a => other[x] = free[x]
    BY <2>1
  <2>5. free[a] \in Nat /\ other[a] \in Nat
    OBVIOUS
  <2>6. CASE x = a
    <3>1. a \in s /\ a \notin r
      BY <2>1, <2>6
    <3> QED
      BY <2>2, <2>3, <2>4, <2>5, <2>6, <3>1
  <2>7. CASE x # a
    <3>1. (a \in s <=> a \in r) /\ other[x] = free[x] /\ free[x] \in Nat
      BY <2>1, <2>7
    <3> QED
      BY <2>2, <2>3, <2>5, <3>1
  <2> QED
    BY <2>6, <2>7
<1>6. n \in S
  <2> HIDE DEF S
  <2> QED
    BY <1>3, <1>4, <1>5, PrefixInduction
<1>7. Fits(Users)
  <2> HIDE DEF Fits
  <2> QED
    BY <1>6 DEF n
<1> QED
  BY <1>1, <1>2, <1>7

(* From one ledger to the other the amount is burned, and dust if any.      *)
Burns(free, left, amount) ==
    /\ Issuance(free) \in Nat /\ Issuance(left) \in Nat
    /\ Issuance(left) + amount <= Issuance(free)
    /\ ExistentialDeposit = 1 => Issuance(left) + amount = Issuance(free)

(* A ledger that stays the same.                                            *)
LEMMA NothingBurns ==
    ASSUME NEW free \in [Users -> Nat]
    PROVE  Burns(free, free, 0)
<1>1. CASE Users = {}
  <2>1. Issuance(free) = 0
    BY <1>1, IssuanceUnfolds
  <2> QED
    BY <2>1 DEF Burns
<1>2. CASE Users # {}
  <2>1. Issuance(free) \in Nat
    BY <1>2, IssuanceUpdate
  <2> QED
    BY <2>1 DEF Burns
<1> QED
  BY <1>1, <1>2

(* A transfer moves its value; it burns what it reaps.                      *)
LEMMA TransferBurns ==
    ASSUME NEW ledger \in [Users -> Nat], NEW src \in Users, NEW dst \in Users,
           NEW value \in Nat, NEW keep \in BOOLEAN,
           CanTransfer(ledger, src, dst, value, keep)
    PROVE  Burns(ledger, AfterTransfer(ledger, src, dst, value), 0)
<1>1. CASE value = 0 \/ src = dst
  BY <1>1, NothingBurns DEF AfterTransfer
<1>2. CASE ~(value = 0 \/ src = dst)
  <2> DEFINE mid  == [ledger EXCEPT ![dst] = ledger[dst] + value]
             kept == Reaped(ledger[src] - value)
             left == [mid EXCEPT ![src] = kept]
  <2>1. AfterTransfer(ledger, src, dst, value) = left
    BY <1>2 DEF AfterTransfer
  <2>2. ledger[src] >= value /\ ledger[src] \in Nat /\ ledger[dst] \in Nat
    BY <1>2 DEF CanTransfer
  <2>3. /\ kept \in Nat /\ kept <= ledger[src] - value
        /\ ExistentialDeposit = 1 => kept = ledger[src] - value
    BY <2>2, ExistentialDepositAssumption DEF Reaped
  <2> HIDE DEF kept
  <2>4. /\ mid \in [Users -> Nat] /\ mid[dst] = ledger[dst] + value
        /\ mid[src] = ledger[src] /\ \A u \in Users \ {dst} : mid[u] = ledger[u]
    BY <1>2, <2>2
  <2> HIDE DEF mid
  <2>5. /\ left \in [Users -> Nat] /\ left[src] = kept
        /\ \A u \in Users \ {src} : left[u] = mid[u]
    BY <2>3, <2>4
  <2> HIDE DEF left
  <2>6. /\ Issuance(ledger) \in Nat /\ Issuance(mid) \in Nat
        /\ Issuance(mid) + ledger[dst] = Issuance(ledger) + mid[dst]
    BY <2>4, IssuanceUpdate
  <2>7. /\ Issuance(left) \in Nat
        /\ Issuance(left) + mid[src] = Issuance(mid) + left[src]
    BY <2>4, <2>5, IssuanceUpdate
  <2>8. Issuance(left) + ledger[src] = Issuance(ledger) + value + kept
    BY <2>2, <2>3, <2>4, <2>5, <2>6, <2>7
  <2> QED
    BY <2>1, <2>2, <2>3, <2>6, <2>7, <2>8 DEF Burns
<1> QED
  BY <1>1, <1>2

(* The other calls move no funds.                                           *)
LEMMA DispatchBurns ==
    ASSUME NEW c \in States, NEW a \in Users, NEW call, IsCall(call)
    PROVE  Burns(c.free, dispatch(c, a, call).state.free, 0)
<1> DEFINE t == dispatch(c, a, call).state
<1>1. c.free \in [Users -> Nat] /\ a # Root
  BY RequestAssumption DEF States
<1>2. Burns(c.free, c.free, 0)
  BY <1>1, NothingBurns
<1>3. CASE call.call = "do_something"
  <2>1. t.free = c.free
    BY <1>3 DEF dispatch, Result, do_something, Ok, Err, States
  <2> QED
    BY <1>2, <2>1
<1>4. CASE call.call = "cause_error"
  <2>1. t.free = c.free
    BY <1>4 DEF dispatch, Result, cause_error, Ok, Err, States
  <2> QED
    BY <1>2, <2>1
<1>5. CASE call.call \in {"transfer_allow_death", "transfer_keep_alive"}
  <2> DEFINE keep == call.call = "transfer_keep_alive"
             left == AfterTransfer(c.free, a, call.dest, call.value)
  <2>1. call.dest \in Users /\ call.value \in Nat /\ keep \in BOOLEAN
    BY <1>5 DEF IsCall
  <2>2. t = transfer(c, a, call).state
    BY <1>5 DEF dispatch
  <2>3. CASE CanTransfer(c.free, a, call.dest, call.value, keep)
    <3>1. t = [c EXCEPT !.free = left,
                        !.nonce = [u \in Users |-> IF left[u] = 0 THEN 0 ELSE c.nonce[u]]]
      BY <1>1, <2>2, <2>3 DEF transfer
    <3>2. t.free = left
      BY <3>1 DEF States
    <3>3. Burns(c.free, left, 0)
      <4> HIDE DEF keep
      <4> QED
        BY <1>1, <2>1, <2>3, TransferBurns
    <3> QED
      BY <3>2, <3>3
  <2>4. CASE ~CanTransfer(c.free, a, call.dest, call.value, keep)
    <3>1. t = c
      BY <2>2, <2>4 DEF transfer
    <3> QED
      BY <1>2, <3>1
  <2> QED
    BY <2>3, <2>4
<1> QED
  BY <1>3, <1>4, <1>5 DEF IsCall

(* An extrinsic burns its fee, unless Sudo's key holder gets it back.       *)
LEMMA ApplyBurns ==
    ASSUME NEW s \in States, Funded(s), NEW ancestors, NEW index, NEW xt,
           IsExtrinsic(xt), TxExtension(s, ancestors, index, xt)
    PROVE  Burns(s.free, applied(s, xt).free, IF BySudo(xt) THEN 0 ELSE Fee)
<1> DEFINE a == xt.signer
           c == charged(s, xt)
           t == applied(s, xt)
<1>1. /\ a \in Users /\ s.free[a] - Fee >= ExistentialDeposit
      /\ s.free \in [Users -> Nat] /\ s.free[a] \in Nat /\ Fee \in Nat
  BY RuntimeAssumption DEF IsExtrinsic, TxExtension, States
<1>2. c \in States
  BY <1>1, ChargedFacts
<1>3. c.free = [s.free EXCEPT ![a] = s.free[a] - Fee]
  BY DEF charged, States
<1>4. s.free[a] - Fee \in Nat
  BY <1>1, ExistentialDepositAssumption
<1> HIDE DEF c
<1>5. /\ c.free \in [Users -> Nat] /\ c.free[a] = s.free[a] - Fee
      /\ \A u \in Users \ {a} : c.free[u] = s.free[u]
  BY <1>1, <1>3, <1>4
<1>6. /\ Issuance(s.free) \in Nat /\ Issuance(c.free) \in Nat
      /\ Issuance(c.free) + s.free[a] = Issuance(s.free) + c.free[a]
  BY <1>1, <1>5, IssuanceUpdate
<1>7. Issuance(c.free) + Fee = Issuance(s.free)
  BY <1>1, <1>5, <1>6
<1>8. CASE BySudo(xt)
  <2>1. xt.call.call = "sudo" /\ IsCall(xt.call.inner)
    BY <1>8 DEF BySudo, IsExtrinsic, IsCall
  <2>2. RuntimeDispatch(c, xt).state = c
    <3>1. RuntimeDispatch(c, xt).state = dispatch(c, Root, xt.call.inner).state
      BY <1>8, <2>1 DEF RuntimeDispatch, BySudo
    <3> QED
      BY <2>1, <3>1, DispatchRoot
  <2>3. t = [c EXCEPT !.free[a] = c.free[a] + Fee]
    BY <1>8, <2>2 DEF applied, c
  <2>4. t.free = [c.free EXCEPT ![a] = c.free[a] + Fee]
    BY <1>2, <2>3 DEF States
  <2> HIDE DEF t
  <2>5. t.free = s.free
    <3>1. DOMAIN t.free = Users /\ \A u \in Users : t.free[u] = s.free[u]
      BY <1>1, <1>5, <2>4
    <3>2. t.free = [u \in Users |-> t.free[u]] /\ s.free = [u \in Users |-> s.free[u]]
      BY <1>1, <1>5, <2>4
    <3> QED
      BY <3>1, <3>2
  <2>6. Burns(s.free, t.free, 0)
    BY <1>1, <2>5, NothingBurns
  <2> QED
    BY <1>8, <2>6 DEF t
<1>9. CASE ~BySudo(xt) /\ xt.call.call = "sudo"
  <2>1. t = c
    BY <1>9 DEF applied, RuntimeDispatch, c
  <2> QED
    BY <1>6, <1>7, <1>9, <2>1 DEF Burns
<1>10. CASE ~BySudo(xt) /\ xt.call.call # "sudo"
  <2>1. t = dispatch(c, a, xt.call).state
    BY <1>10 DEF applied, RuntimeDispatch, c
  <2>2. IsCall(xt.call)
    BY <1>10 DEF IsExtrinsic
  <2> HIDE DEF t
  <2>3. Burns(c.free, t.free, 0)
    BY <1>1, <1>2, <2>1, <2>2, DispatchBurns
  <2>4. Burns(s.free, t.free, Fee)
    BY <1>1, <1>6, <1>7, <2>3 DEF Burns
  <2> QED
    BY <1>10, <2>4 DEF t
<1> QED
  BY <1>8, <1>9, <1>10 DEF BySudo

(* The genesis presets.                                                     *)
LEMMA GenesisFacts ==
    /\ Genesis \in States /\ Genesis.something = NoValue /\ Funded(Genesis)
    /\ Issuance(Genesis.free) \in Nat
<1>1. \E endowed : Genesis = testnet_genesis(endowed)
  BY DEF Genesis, get_preset, load_spec, development_chain_spec, local_chain_spec,
         development_config_genesis, local_config_genesis
<1>2. PICK endowed : Genesis = testnet_genesis(endowed)
  BY <1>1
<1>3. Genesis \in States /\ Genesis.something = NoValue /\ Funded(Genesis)
  BY <1>2, RuntimeAssumption DEF testnet_genesis, States, Funded
<1>4. Genesis.free \in [Users -> Nat]
  BY <1>3 DEF States
<1>5. Burns(Genesis.free, Genesis.free, 0)
  BY <1>4, NothingBurns
<1> QED
  BY <1>3, <1>5 DEF Burns

(* The account of a chain stays balanced.                                   *)
LEMMA AccountedAppend ==
    ASSUME NEW X, NEW h \in Seq(X), NEW xt \in X, NEW free, NEW left,
           Accounted(h, free), Burns(free, left, IF BySudo(xt) THEN 0 ELSE Fee)
    PROVE  Accounted(Append(h, xt), left)
<1> DEFINE g == Append(h, xt)
           m == Len(h)
           old == {i \in DOMAIN h : ~BySudo(h[i])}
           new == {i \in DOMAIN g : ~BySudo(g[i])}
           k == Cardinality(old)
<1>1. /\ m \in Nat /\ DOMAIN h = 1..m /\ DOMAIN g = 1..(m + 1)
      /\ g[m + 1] = xt /\ \A i \in 1..m : g[i] = h[i]
  OBVIOUS
<1>2. /\ Issuance(free) + Fee * k <= Issuance(Genesis.free)
      /\ ExistentialDeposit = 1 => Issuance(free) + Fee * k = Issuance(Genesis.free)
  BY DEF Accounted
<1> SUFFICES /\ Issuance(left) + Fee * Cardinality(new) <= Issuance(Genesis.free)
             /\ ExistentialDeposit = 1 =>
                   Issuance(left) + Fee * Cardinality(new) = Issuance(Genesis.free)
  BY DEF Accounted
<1> HIDE DEF g, m
<1>3. IsFiniteSet(old) /\ k \in Nat /\ m + 1 \notin old
  <2>1. old \subseteq 1..m /\ IsFiniteSet(1..m)
    BY <1>1, FS_Interval
  <2>2. m + 1 \notin old
    BY <1>1
  <2> QED
    BY <2>1, <2>2, FS_Subset, FS_CardinalityType
<1>4. Fee \in Nat
  BY RuntimeAssumption
<1>5. CASE BySudo(xt)
  <2>1. new = old
    BY <1>1, <1>5
  <2>2. Burns(free, left, 0)
    BY <1>5
  <2> HIDE DEF k, new, old
  <2>3. Fee * k \in Nat
    BY <1>3, <1>4
  <2>4. Cardinality(new) = k
    BY <2>1 DEF k
  <2> QED
    BY <1>2, <2>2, <2>3, <2>4, GenesisFacts DEF Burns
<1>6. CASE ~BySudo(xt)
  <2>1. new = old \cup {m + 1}
    BY <1>1, <1>6
  <2>2. Cardinality(new) = k + 1
    BY <1>3, <2>1, FS_AddElement
  <2>3. Burns(free, left, Fee)
    BY <1>6
  <2> HIDE DEF k, new, old
  <2>4. Fee * k \in Nat /\ Fee * (k + 1) = Fee * k + Fee
    BY <1>3, <1>4
  <2> QED
    BY <1>2, <1>4, <2>2, <2>3, <2>4, GenesisFacts DEF Burns
<1> QED
  BY <1>5, <1>6

-----------------------------------------------------------------------------
(* The walk along a branch *)

(* Every block but the first one has a parent before it.                    *)
Rooted(tree) ==
    /\ Len(tree) \in Nat \ {0} /\ DOMAIN tree = 1..Len(tree)
    /\ \A i \in 2..Len(tree) : tree[i].parent \in 1..(i - 1)

IsWalk(f, tree, part, k) ==
    f = [i \in 1..k |-> IF i = 1 THEN part[1] ELSE f[tree[i].parent] \o part[i]]

(* A walk exists.                                                           *)
LEMMA WalkExists ==
    ASSUME NEW tree, NEW part, Rooted(tree)
    PROVE  \E f : IsWalk(f, tree, part, Len(tree))
<1> DEFINE n == Len(tree)
           S == {k \in 0..n : \E f : IsWalk(f, tree, part, k)}
<1>1. n \in Nat /\ \A i \in 2..n : tree[i].parent \in 1..(i - 1)
  BY DEF Rooted
<1> HIDE DEF n
<1>2. 0 \in S
  <2>1. IsWalk([i \in {} |-> 0], tree, part, 0)
    BY DEF IsWalk
  <2> QED
    BY <1>1, <2>1
<1>3. ASSUME NEW k \in 1..n, k - 1 \in S PROVE k \in S
  <2>1. PICK f : IsWalk(f, tree, part, k - 1)
    BY <1>3
  <2> DEFINE x == IF k = 1 THEN part[1] ELSE f[tree[k].parent] \o part[k]
             g == [i \in 1..k |-> IF i = k THEN x ELSE f[i]]
  <2>2. g[k] = x /\ \A i \in 1..(k - 1) : g[i] = f[i]
    <3> HIDE DEF x
    <3> QED
      BY <1>1
  <2>3. \A i \in 1..(k - 1) : f[i] = IF i = 1 THEN part[1] ELSE f[tree[i].parent] \o part[i]
    BY <2>1 DEF IsWalk
  <2>4. ASSUME NEW i \in 1..k
        PROVE  g[i] = IF i = 1 THEN part[1] ELSE g[tree[i].parent] \o part[i]
    <3>1. i # 1 => tree[i].parent \in 1..(k - 1)
      BY <1>1
    <3>2. i # 1 => g[tree[i].parent] = f[tree[i].parent]
      BY <2>2, <3>1
    <3>3. CASE i = k
      BY <2>2, <3>2, <3>3
    <3>4. CASE i \in 1..(k - 1)
      BY <2>2, <2>3, <3>2, <3>4
    <3> QED
      BY <1>1, <3>3, <3>4
  <2>5. DOMAIN g = 1..k /\ g = [i \in 1..k |-> g[i]]
    OBVIOUS
  <2> HIDE DEF g
  <2>6. IsWalk(g, tree, part, k)
    BY <2>4, <2>5 DEF IsWalk
  <2> QED
    BY <2>6
<1>4. n \in S
  <2> HIDE DEF S
  <2> QED
    BY <1>1, <1>2, <1>3, PrefixInduction
<1> QED
  BY <1>4 DEF n

(* Along satisfies the recursion it is defined by.                          *)
LEMMA AlongUnfolds ==
    ASSUME NEW tree, NEW part, Rooted(tree)
    PROVE  /\ Along(tree, part, 1) = part[1]
           /\ \A i \in 2..Len(tree) :
                 Along(tree, part, i) = Along(tree, part, tree[i].parent) \o part[i]
<1> DEFINE P(f) == f = [i \in DOMAIN tree |-> IF i = 1 THEN part[1]
                                              ELSE f[tree[i].parent] \o part[i]]
           d == CHOOSE f : P(f)
<1>1. \A i : Along(tree, part, i) = d[i]
  BY DEF Along
<1>2. DOMAIN tree = 1..Len(tree) /\ Len(tree) \in Nat \ {0}
  BY DEF Rooted
<1>3. PICK f : IsWalk(f, tree, part, Len(tree))
  BY WalkExists
<1>4. P(f)
  BY <1>2, <1>3 DEF IsWalk
<1>5. P(d)
  <2> HIDE DEF P
  <2> QED
    BY <1>4, Zenon
<1> HIDE DEF d
<1>6. \A i \in 1..Len(tree) : d[i] = IF i = 1 THEN part[1] ELSE d[tree[i].parent] \o part[i]
  BY <1>2, <1>5
<1>7. d[1] = part[1]
  BY <1>2, <1>6
<1>8. ASSUME NEW i \in 2..Len(tree)
      PROVE  d[i] = d[tree[i].parent] \o part[i]
  <2>1. i \in 1..Len(tree) /\ i # 1
    BY <1>2
  <2> QED
    BY <1>6, <2>1, Zenon
<1> QED
  BY <1>1, <1>7, <1>8, Zenon

(* One block of the walk, as an equation for a given block.                 *)
LEMMA AlongStep ==
    ASSUME NEW tree, NEW part, Rooted(tree), NEW i \in 2..Len(tree)
    PROVE  Along(tree, part, i) = Along(tree, part, tree[i].parent) \o part[i]
  BY AlongUnfolds

(* A tree with more blocks, and the parts of the old ones unchanged.        *)
Grown(tree, part, bigger, more) ==
    /\ Rooted(tree) /\ Rooted(bigger) /\ Len(tree) <= Len(bigger)
    /\ \A i \in 1..Len(tree) : bigger[i].parent = tree[i].parent /\ more[i] = part[i]

(* New blocks do not change what lies along the branches there are.         *)
LEMMA AlongSame ==
    ASSUME NEW tree, NEW part, NEW bigger, NEW more, Grown(tree, part, bigger, more)
    PROVE  \A i \in 1..Len(tree) : Along(bigger, more, i) = Along(tree, part, i)
<1> USE DEF Grown
<1> DEFINE n == Len(tree)
           S == {k \in 0..n : \A i \in 1..k : Along(bigger, more, i) = Along(tree, part, i)}
<1>1. n \in Nat \ {0} /\ \A i \in 2..n : tree[i].parent \in 1..(i - 1)
  BY DEF Rooted
<1>2. Len(bigger) \in Nat
  BY DEF Rooted
<1>3. 0 \in S
  BY <1>1
<1>4. ASSUME NEW k \in 1..n, k - 1 \in S PROVE k \in S
  <2>1. \A i \in 1..(k - 1) : Along(bigger, more, i) = Along(tree, part, i)
    BY <1>4
  <2>2. CASE k = 1
    <3>1. Along(bigger, more, 1) = more[1] /\ Along(tree, part, 1) = part[1]
      BY AlongUnfolds
    <3>2. more[1] = part[1]
      BY <1>1
    <3> QED
      BY <1>1, <2>2, <3>1, <3>2
  <2>3. CASE k # 1
    <3>1. k \in 2..Len(tree) /\ k \in 2..Len(bigger)
      BY <1>1, <1>2, <2>3
    <3>2. /\ Along(tree, part, k) = Along(tree, part, tree[k].parent) \o part[k]
          /\ Along(bigger, more, k) = Along(bigger, more, bigger[k].parent) \o more[k]
      <4>1. Along(tree, part, k) = Along(tree, part, tree[k].parent) \o part[k]
        BY <3>1, AlongStep
      <4>2. Along(bigger, more, k) = Along(bigger, more, bigger[k].parent) \o more[k]
        BY <3>1, AlongStep
      <4> QED
        BY <4>1, <4>2
    <3>3. bigger[k].parent = tree[k].parent /\ more[k] = part[k]
      BY <3>1
    <3>4. Along(bigger, more, k) = Along(tree, part, k)
      BY <1>1, <2>1, <3>1, <3>2, <3>3
    <3>5. \A i \in 1..k : i = k \/ i \in 1..(k - 1)
      BY <1>1
    <3> QED
      BY <2>1, <3>4, <3>5
  <2> QED
    BY <2>2, <2>3
<1>5. n \in S
  <2> HIDE DEF S
  <2> QED
    BY <1>1, <1>3, <1>4, PrefixInduction
<1> QED
  BY <1>5

(* What lies along a branch is a sequence.                                  *)
LEMMA AlongType ==
    ASSUME NEW tree, NEW part, Rooted(tree), NEW X,
           \A i \in 1..Len(tree) : part[i] \in Seq(X)
    PROVE  \A i \in 1..Len(tree) : Along(tree, part, i) \in Seq(X)
<1> DEFINE n == Len(tree)
           S == {k \in 0..n : \A i \in 1..k : Along(tree, part, i) \in Seq(X)}
<1>1. n \in Nat \ {0} /\ \A i \in 2..n : tree[i].parent \in 1..(i - 1)
  BY DEF Rooted
<1>2. 0 \in S
  BY <1>1
<1>3. ASSUME NEW k \in 1..n, k - 1 \in S PROVE k \in S
  <2>1. \A i \in 1..(k - 1) : Along(tree, part, i) \in Seq(X)
    BY <1>3
  <2>2. Along(tree, part, k) \in Seq(X)
    <3>1. CASE k = 1
      BY <1>1, <3>1, AlongUnfolds
    <3>2. CASE k # 1
      <4>1. k \in 2..Len(tree)
        BY <1>1, <3>2
      <4>2. /\ Along(tree, part, k) = Along(tree, part, tree[k].parent) \o part[k]
            /\ Along(tree, part, tree[k].parent) \in Seq(X) /\ part[k] \in Seq(X)
        BY <1>1, <2>1, <4>1, AlongUnfolds
      <4> QED
        BY <4>2, ConcatProperties
    <3> QED
      BY <3>1, <3>2
  <2>3. \A i \in 1..k : i = k \/ i \in 1..(k - 1)
    BY <1>1
  <2> QED
    BY <2>1, <2>2, <2>3
<1>4. n \in S
  <2> HIDE DEF S
  <2> QED
    BY <1>1, <1>2, <1>3, PrefixInduction
<1> QED
  BY <1>4

-----------------------------------------------------------------------------
(* The invariant *)

Blocks(xts) ==
    [parent : Nat, body : Seq(xts), state : States, frees : Seq(Ledgers)]

(* A state fits the extrinsics that have led to it.                         *)
Sound(h, frees, state) ==
    /\ state \in States /\ Funded(state)
    /\ Spent(h, frees, state.nonce)
    /\ state.something = Explained(h)
    /\ Accounted(h, state.free)

(* A block on top of parent holds extrinsics of eras that have started on   *)
(* the same branch, less than a period before.                              *)
Anchored(parent, body, state) ==
    /\ state.number = blocks[parent].state.number + 1
    /\ \A k \in DOMAIN body : \E j \in DOMAIN Branch(parent) :
          /\ Branch(parent)[j] = body[k].birth_hash
          /\ state.number - (j - 1) \in 1..(period - 1)

(* The shape of the block tree and of the blocks under way.                 *)
TreeInv ==
    /\ blocks \in Seq(Blocks(signed)) /\ Rooted(blocks)
    /\ best \in [Nodes -> 1..Len(blocks)]
    /\ build \in [Nodes -> {Idle} \cup Blocks(signed)]
    /\ \A n \in Nodes : build[n] # Idle => build[n].parent \in 1..Len(blocks)
    /\ \A xt \in signed : IsExtrinsic(xt)

(* An era starts with a block that is there.                                *)
EraInv ==
    \A xt \in signed : /\ xt.birth_hash \in 1..Len(blocks)
                       /\ xt.phase = blocks[xt.birth_hash].state.number % period

(* The state of each block, and of each one under way, fits its extrinsics. *)
SoundInv ==
    /\ \A b \in 1..Len(blocks) : Sound(History(b), Frees(b), blocks[b].state)
    /\ \A n \in Nodes : build[n] # Idle =>
          Sound(History(build[n].parent) \o build[n].body,
                Frees(build[n].parent) \o build[n].frees, build[n].state)

(* A branch holds the blocks with the numbers from 0 to the one of its end. *)
NumberInv ==
    \A b \in 1..Len(blocks) :
       /\ Branch(b) \in Seq(1..Len(blocks))
       /\ Len(Branch(b)) = blocks[b].state.number + 1
       /\ \A j \in 1..Len(Branch(b)) : blocks[Branch(b)[j]].state.number = j - 1

(* Each block, and each one under way, has its extrinsics from its branch.  *)
AnchorInv ==
    /\ \A b \in 2..Len(blocks) :
          Anchored(blocks[b].parent, blocks[b].body, blocks[b].state)
    /\ \A n \in Nodes : build[n] # Idle =>
          Anchored(build[n].parent, build[n].body, build[n].state)

RuntimeInv == TreeInv /\ EraInv /\ SoundInv /\ NumberInv /\ AnchorInv

(* One more extrinsic that the extensions let through.                      *)
LEMMA SoundAppend ==
    ASSUME NEW X, \A x \in X : IsExtrinsic(x), NEW h \in Seq(X), NEW xt \in X,
           NEW s, NEW frees, Sound(h, frees, s), NEW ancestors, NEW index,
           TxExtension(s, ancestors, index, xt)
    PROVE  Sound(Append(h, xt), Append(frees, applied(s, xt).free), applied(s, xt))
<1> DEFINE t == applied(s, xt)
<1>1. /\ s \in States /\ Funded(s) /\ Spent(h, frees, s.nonce) /\ s.something = Explained(h)
      /\ Accounted(h, s.free)
  BY DEF Sound
<1>2. /\ t \in States /\ Funded(t)
      /\ xt.nonce = s.nonce[xt.signer]
      /\ \A u \in Users \ {xt.signer} : t.nonce[u] = s.nonce[u]
      /\ t.nonce[xt.signer] = s.nonce[xt.signer] + 1 \/ t.free[xt.signer] = 0
      /\ t.something = SomethingAfter(xt.call, s.something)
  BY <1>1, ApplyFacts
<1>3. Burns(s.free, t.free, IF BySudo(xt) THEN 0 ELSE Fee)
  BY <1>1, ApplyBurns
<1> HIDE DEF t
<1>4. Accounted(Append(h, xt), t.free)
  BY <1>1, <1>3, AccountedAppend
<1>5. s.nonce \in [Users -> Nat] /\ t.nonce \in [Users -> Nat] /\ t.free \in Ledgers
  BY <1>1, <1>2 DEF States, Ledgers
<1>6. Spent(Append(h, xt), Append(frees, t.free), t.nonce)
  BY <1>1, <1>2, <1>5, SpentAppend
<1>7. Explained(Append(h, xt)) = SomethingAfter(xt.call, Explained(h))
  BY ExplainedAppend
<1> QED
  BY <1>1, <1>2, <1>4, <1>6, <1>7 DEF Sound, t

(* The history of a block is a sequence of signed extrinsics, with as many  *)
(* ledgers along it.                                                        *)
LEMMA HistoryType ==
    ASSUME TreeInv
    PROVE  \A b \in 1..Len(blocks) : History(b) \in Seq(signed) /\ Frees(b) \in Seq(Ledgers)
<1> DEFINE part == [i \in DOMAIN blocks |-> blocks[i].body]
           ledger == [i \in DOMAIN blocks |-> blocks[i].frees]
<1>1. Rooted(blocks) /\ DOMAIN blocks = 1..Len(blocks)
  BY DEF TreeInv, Rooted
<1>2. ASSUME NEW i \in 1..Len(blocks)
      PROVE  part[i] \in Seq(signed) /\ ledger[i] \in Seq(Ledgers)
  <2>1. blocks[i] \in Blocks(signed)
    BY ElementOfSeq DEF TreeInv
  <2> QED
    BY <1>1, <2>1 DEF Blocks
<1> HIDE DEF part, ledger
<1>3. \A i \in 1..Len(blocks) : Along(blocks, part, i) \in Seq(signed)
  BY <1>1, <1>2, AlongType
<1>4. \A i \in 1..Len(blocks) : Along(blocks, ledger, i) \in Seq(Ledgers)
  BY <1>1, <1>2, AlongType
<1> QED
  BY <1>3, <1>4 DEF History, Frees, part, ledger

(* Steps that add no block change nothing along a branch.                   *)
LEMMA BranchesKept ==
    ASSUME blocks' = blocks
    PROVE  \A b : Branch(b)' = Branch(b) /\ History(b)' = History(b) /\ Frees(b)' = Frees(b)
  BY DEF Branch, History, Frees

GrownByOne(tree, part, bigger, more, parent) ==
    /\ Grown(tree, part, bigger, more) /\ Len(bigger) = Len(tree) + 1
    /\ parent \in 1..Len(tree) /\ bigger[Len(tree) + 1].parent = parent

Extends(tree, part, bigger, more, parent) ==
    /\ \A i \in 1..Len(tree) : Along(bigger, more, i) = Along(tree, part, i)
    /\ Along(bigger, more, Len(tree) + 1) = Along(tree, part, parent) \o more[Len(tree) + 1]

(* A part of a tree with one more block: the same along the branches there  *)
(* are, and one more element along the new one.                             *)
LEMMA AlongGrows ==
    ASSUME NEW tree, NEW part, NEW bigger, NEW more, NEW parent,
           GrownByOne(tree, part, bigger, more, parent)
    PROVE  Extends(tree, part, bigger, more, parent)
<1>1. \A i \in 1..Len(tree) : Along(bigger, more, i) = Along(tree, part, i)
  BY AlongSame DEF GrownByOne
<1>2. Len(tree) + 1 \in 2..Len(bigger) /\ Rooted(bigger)
  BY DEF GrownByOne, Grown, Rooted
<1>3. Along(bigger, more, Len(tree) + 1)
        = Along(bigger, more, bigger[Len(tree) + 1].parent) \o more[Len(tree) + 1]
  BY <1>2, AlongStep
<1> QED
  BY <1>1, <1>3 DEF GrownByOne, Extends

(* A block that is added to the tree extends the branch of its parent and   *)
(* leaves the others as they are.                                           *)
LEMMA TreeGrows ==
    ASSUME TreeInv, NEW x \in Blocks(signed), x.parent \in 1..Len(blocks),
           blocks' = Append(blocks, x)
    PROVE  /\ blocks' \in Seq(Blocks(signed)) /\ Rooted(blocks')
           /\ Len(blocks') = Len(blocks) + 1 /\ blocks'[Len(blocks) + 1] = x
           /\ \A b \in 1..Len(blocks) :
                 /\ blocks'[b] = blocks[b] /\ Branch(b)' = Branch(b)
                 /\ History(b)' = History(b) /\ Frees(b)' = Frees(b)
           /\ \A b : b = Len(blocks) + 1 =>
                 /\ Branch(b)' = Branch(x.parent) \o <<b>>
                 /\ History(b)' = History(x.parent) \o x.body
                 /\ Frees(b)' = Frees(x.parent) \o x.frees
<1> DEFINE m == Len(blocks)
<1>1. /\ m \in Nat \ {0} /\ DOMAIN blocks = 1..m
      /\ \A i \in 2..m : blocks[i].parent \in 1..(i - 1)
      /\ Rooted(blocks) /\ blocks \in Seq(Blocks(signed))
  BY DEF TreeInv, Rooted
<1>2. /\ blocks' \in Seq(Blocks(signed)) /\ Len(blocks') = m + 1
      /\ DOMAIN blocks' = 1..(m + 1)
      /\ blocks'[m + 1] = x /\ \A i \in 1..m : blocks'[i] = blocks[i]
  BY <1>1
<1>3. Rooted(blocks')
  <2>1. ASSUME NEW i \in 2..(m + 1) PROVE blocks'[i].parent \in 1..(i - 1)
    <3>1. CASE i = m + 1
      BY <1>1, <1>2, <3>1
    <3>2. CASE i \in 2..m
      BY <1>1, <1>2, <3>2
    <3> QED
      BY <1>1, <3>1, <3>2
  <2> QED
    BY <1>1, <1>2, <2>1 DEF Rooted
<1>4. ASSUME NEW part, NEW more, \A i \in 1..m : more[i] = part[i]
      PROVE  /\ \A i \in 1..m : Along(blocks', more, i) = Along(blocks, part, i)
             /\ Along(blocks', more, m + 1) = Along(blocks, part, x.parent) \o more[m + 1]
  <2>1. Grown(blocks, part, blocks', more)
    <3>1. m <= Len(blocks') /\ \A i \in 1..m : blocks'[i].parent = blocks[i].parent
      BY <1>1, <1>2
    <3> QED
      BY <1>1, <1>3, <1>4, <3>1 DEF Grown
  <2>2. GrownByOne(blocks, part, blocks', more, x.parent)
    BY <1>2, <2>1 DEF GrownByOne
  <2>3. Extends(blocks, part, blocks', more, x.parent)
    BY <2>2, AlongGrows
  <2> QED
    BY <2>3, Zenon DEF Extends
<1> DEFINE numbers  == [i \in DOMAIN blocks |-> <<i>>]
           bodies   == [i \in DOMAIN blocks |-> blocks[i].body]
           ledgers  == [i \in DOMAIN blocks |-> blocks[i].frees]
           numbers2 == [i \in DOMAIN blocks' |-> <<i>>]
           bodies2  == [i \in DOMAIN blocks' |-> blocks'[i].body]
           ledgers2 == [i \in DOMAIN blocks' |-> blocks'[i].frees]
<1>5. /\ \A b : Branch(b) = Along(blocks, numbers, b)
      /\ \A b : History(b) = Along(blocks, bodies, b)
      /\ \A b : Frees(b) = Along(blocks, ledgers, b)
      /\ \A b : Branch(b)' = Along(blocks', numbers2, b)
      /\ \A b : History(b)' = Along(blocks', bodies2, b)
      /\ \A b : Frees(b)' = Along(blocks', ledgers2, b)
  BY DEF Branch, History, Frees
<1>6. \A i \in 1..m : /\ numbers2[i] = numbers[i] /\ bodies2[i] = bodies[i]
                      /\ ledgers2[i] = ledgers[i]
  BY <1>1, <1>2
<1>7. /\ numbers2[m + 1] = <<m + 1>> /\ bodies2[m + 1] = x.body
      /\ ledgers2[m + 1] = x.frees
  BY <1>1, <1>2
<1> HIDE DEF m, numbers, numbers2, bodies, bodies2, ledgers, ledgers2
<1>8. /\ \A i \in 1..m : Along(blocks', numbers2, i) = Along(blocks, numbers, i)
      /\ Along(blocks', numbers2, m + 1) = Along(blocks, numbers, x.parent) \o <<m + 1>>
  <2>1. \A i \in 1..m : numbers2[i] = numbers[i]
    BY <1>6
  <2>2. /\ \A i \in 1..m : Along(blocks', numbers2, i) = Along(blocks, numbers, i)
        /\ Along(blocks', numbers2, m + 1) = Along(blocks, numbers, x.parent) \o numbers2[m + 1]
    BY <1>4, <2>1, Zenon
  <2> QED
    BY <1>7, <2>2
<1>9. /\ \A i \in 1..m : Along(blocks', bodies2, i) = Along(blocks, bodies, i)
      /\ Along(blocks', bodies2, m + 1) = Along(blocks, bodies, x.parent) \o x.body
  <2>1. \A i \in 1..m : bodies2[i] = bodies[i]
    BY <1>6
  <2>2. /\ \A i \in 1..m : Along(blocks', bodies2, i) = Along(blocks, bodies, i)
        /\ Along(blocks', bodies2, m + 1) = Along(blocks, bodies, x.parent) \o bodies2[m + 1]
    BY <1>4, <2>1, Zenon
  <2> QED
    BY <1>7, <2>2
<1>10. /\ \A i \in 1..m : Along(blocks', ledgers2, i) = Along(blocks, ledgers, i)
       /\ Along(blocks', ledgers2, m + 1) = Along(blocks, ledgers, x.parent) \o x.frees
  <2>1. \A i \in 1..m : ledgers2[i] = ledgers[i]
    BY <1>6
  <2>2. /\ \A i \in 1..m : Along(blocks', ledgers2, i) = Along(blocks, ledgers, i)
        /\ Along(blocks', ledgers2, m + 1) = Along(blocks, ledgers, x.parent) \o ledgers2[m + 1]
    BY <1>4, <2>1, Zenon
  <2> QED
    BY <1>7, <2>2
<1> QED
  BY <1>2, <1>3, <1>5, <1>8, <1>9, <1>10 DEF m

(* A node starts, continues or gives up a block of its own.                 *)
LEMMA OneBuild ==
    ASSUME RuntimeInv, UNCHANGED <<signed, blocks, best>>, NEW n \in Nodes, NEW x,
           build' = [build EXCEPT ![n] = x],
           \/ x = Idle
           \/ /\ x \in Blocks(signed) /\ x.parent \in 1..Len(blocks)
              /\ Sound(History(x.parent) \o x.body, Frees(x.parent) \o x.frees, x.state)
              /\ Anchored(x.parent, x.body, x.state)
    PROVE  RuntimeInv'
<1>1. build \in [Nodes -> {Idle} \cup Blocks(signed)]
  BY DEF RuntimeInv, TreeInv
<1>2. build'[n] = x /\ \A k \in Nodes \ {n} : build'[k] = build[k]
  BY <1>1
<1>3. TreeInv'
  <2>1. build' \in [Nodes -> {Idle} \cup Blocks(signed)]
    BY <1>1
  <2>2. \A k \in Nodes : build'[k] # Idle => build'[k].parent \in 1..Len(blocks)
    BY <1>2 DEF RuntimeInv, TreeInv
  <2> QED
    BY <2>1, <2>2 DEF RuntimeInv, TreeInv
<1>4. EraInv'
  BY DEF RuntimeInv, EraInv
<1>5. \A b : Branch(b)' = Branch(b) /\ History(b)' = History(b) /\ Frees(b)' = Frees(b)
  BY BranchesKept
<1>6. SoundInv'
  <2>1. ASSUME NEW b \in 1..Len(blocks) PROVE Sound(History(b)', Frees(b)', blocks[b].state)
    BY <1>5 DEF RuntimeInv, SoundInv
  <2>2. ASSUME NEW k \in Nodes, build'[k] # Idle
        PROVE  Sound(History(build'[k].parent) \o build'[k].body,
                     Frees(build'[k].parent) \o build'[k].frees, build'[k].state)
    BY <1>2, <2>2 DEF RuntimeInv, SoundInv
  <2>3. ASSUME NEW k \in Nodes, build'[k] # Idle
        PROVE  Sound((History(build[k].parent) \o build[k].body)',
                     (Frees(build[k].parent) \o build[k].frees)', build'[k].state)
    <3>1. /\ (History(build[k].parent))' = History(build'[k].parent)
          /\ (Frees(build[k].parent))' = Frees(build'[k].parent)
      BY DEF History, Frees
    <3> QED
      BY <2>2, <2>3, <3>1
  <2> QED
    BY <2>1, <2>3 DEF SoundInv
<1>7. NumberInv'
  BY <1>5 DEF RuntimeInv, NumberInv
<1>8. AnchorInv'
  <2>1. \A k \in Nodes : build'[k] # Idle =>
            Anchored(build'[k].parent, build'[k].body, build'[k].state)
    BY <1>2 DEF RuntimeInv, AnchorInv
  <2>2. \A b \in 2..Len(blocks) :
            Anchored(blocks[b].parent, blocks[b].body, blocks[b].state)
    BY DEF RuntimeInv, AnchorInv
  <2> QED
    BY <2>1, <2>2, <1>5 DEF AnchorInv, Anchored, Branch
<1> QED
  BY <1>3, <1>4, <1>6, <1>7, <1>8 DEF RuntimeInv

(* The initial states satisfy the invariant.                                *)
LEMMA RuntimeInit == Init => RuntimeInv
<1> SUFFICES ASSUME Init PROVE RuntimeInv
  OBVIOUS
<1> DEFINE genesis == [parent |-> 0, body |-> <<>>, state |-> Genesis, frees |-> <<>>]
<1>1. /\ signed = {} /\ blocks = <<genesis>>
      /\ best = [n \in Nodes |-> 1] /\ build = [n \in Nodes |-> Idle]
  BY DEF Init
<1>4. Genesis \in States /\ Genesis.something = NoValue /\ Funded(Genesis)
  BY GenesisFacts
<1>5. /\ genesis \in Blocks(signed) /\ genesis.body = <<>> /\ genesis.state = Genesis
      /\ genesis.frees = <<>>
  BY <1>4 DEF Blocks
<1> HIDE DEF genesis
<1>6. /\ blocks \in Seq(Blocks(signed)) /\ Len(blocks) = 1 /\ DOMAIN blocks = 1..1
      /\ blocks[1] = genesis
  BY <1>1, <1>5
<1>7. Rooted(blocks)
  BY <1>6 DEF Rooted
<1>8. TreeInv
  BY <1>1, <1>6, <1>7 DEF TreeInv
<1>9. EraInv
  BY <1>1 DEF EraInv
<1>10. SoundInv
  <2>1. History(1) = <<>> /\ Frees(1) = <<>>
    <3>1. Along(blocks, [i \in DOMAIN blocks |-> blocks[i].body], 1)
             = [i \in DOMAIN blocks |-> blocks[i].body][1]
      BY <1>7, AlongUnfolds
    <3>2. Along(blocks, [i \in DOMAIN blocks |-> blocks[i].frees], 1)
             = [i \in DOMAIN blocks |-> blocks[i].frees][1]
      BY <1>7, AlongUnfolds
    <3> QED
      BY <1>5, <1>6, <3>1, <3>2 DEF History, Frees
  <2>2. Explained(<<>>) = NoValue
    <3>1. Sets(<<>>) = {}
      BY DEF Sets
    <3> QED
      BY <3>1, ExplainedParts
  <2>3. Spent(<<>>, <<>>, Genesis.nonce)
    BY DEF Spent
  <2>4. Accounted(<<>>, Genesis.free)
    <3>1. {i \in DOMAIN <<>> : ~BySudo(<<>>[i])} = {}
      OBVIOUS
    <3>2. Cardinality({i \in DOMAIN <<>> : ~BySudo(<<>>[i])}) = 0
      BY <3>1, FS_EmptySet
    <3>3. Fee * 0 = 0
      BY RuntimeAssumption
    <3> QED
      BY <3>2, <3>3, GenesisFacts DEF Accounted
  <2>5. Sound(History(1), Frees(1), blocks[1].state)
    BY <1>4, <1>5, <1>6, <2>1, <2>2, <2>3, <2>4 DEF Sound
  <2> QED
    BY <1>1, <1>6, <2>5 DEF SoundInv
<1>11. NumberInv
  <2>1. Along(blocks, [i \in DOMAIN blocks |-> <<i>>], 1) = [i \in DOMAIN blocks |-> <<i>>][1]
    BY <1>7, AlongUnfolds
  <2>2. Branch(1) = <<1>>
    BY <1>6, <2>1 DEF Branch
  <2>3. Genesis.number = 0
    BY DEF Genesis, get_preset, development_config_genesis, local_config_genesis,
           testnet_genesis, load_spec, development_chain_spec, local_chain_spec
  <2>4. /\ Branch(1) \in Seq(1..1) /\ Len(Branch(1)) = 1 /\ Branch(1)[1] = 1
        /\ blocks[1].state.number = 0
    <3>1. <<1>> \in Seq(1..1) /\ Len(<<1>>) = 1 /\ <<1>>[1] = 1
      OBVIOUS
    <3>2. blocks[1].state.number = 0
      BY <1>5, <1>6, <2>3, Zenon
    <3> QED
      BY <2>2, <3>1, <3>2
  <2>5. ASSUME NEW b \in 1..Len(blocks)
        PROVE  /\ Branch(b) \in Seq(1..Len(blocks))
               /\ Len(Branch(b)) = blocks[b].state.number + 1
               /\ \A j \in 1..Len(Branch(b)) : blocks[Branch(b)[j]].state.number = j - 1
    <3>1. b = 1
      BY <1>6
    <3>2. ASSUME NEW j \in 1..Len(Branch(1)) PROVE blocks[Branch(1)[j]].state.number = j - 1
      <4>1. Len(Branch(1)) = 1
        BY <2>4
      <4>2. j \in 1..1
        BY <4>1
      <4>3. j = 1
        BY <4>2
      <4> QED
        BY <2>4, <4>3
    <3> QED
      BY <1>6, <2>4, <3>1, <3>2
  <2> QED
    BY <2>5 DEF NumberInv
<1>12. AnchorInv
  BY <1>1, <1>6 DEF AnchorInv
<1> QED
  BY <1>8, <1>9, <1>10, <1>11, <1>12 DEF RuntimeInv

(* A wallet signs for the best block of a node.                             *)
LEMMA SignStep ==
    ASSUME RuntimeInv, NEW n \in Nodes, NEW request \in Requests, NEW gap \in 0..1,
           Sign(n, request, gap)
    PROVE  RuntimeInv'
<1> DEFINE xt == create_extrinsic(n, request.sender, request.call,
                                  account_nonce(n, request.sender) + gap)
<1>1. signed' = signed \cup {xt} /\ UNCHANGED <<blocks, best, build>>
  BY DEF Sign
<1>2. best[n] \in 1..Len(blocks) /\ blocks[best[n]] \in Blocks(signed)
  BY ElementOfSeq DEF RuntimeInv, TreeInv
<1>3. blocks[best[n]].state \in States
  BY <1>2 DEF Blocks
<1>4. account_nonce(n, request.sender) + gap \in Nat
  BY <1>3, RequestAssumption DEF account_nonce, States
<1>5. /\ xt.signer = request.sender /\ xt.call = request.call
      /\ xt.nonce = account_nonce(n, request.sender) + gap
      /\ xt.birth_hash = best[n]
      /\ xt.phase = blocks[best[n]].state.number % period
  BY DEF create_extrinsic
<1> HIDE DEF xt
<1>6. IsExtrinsic(xt)
  BY <1>4, <1>5, RequestAssumption DEF IsExtrinsic
<1>7. Blocks(signed) \subseteq Blocks(signed')
  <2>1. \A q \in Seq(signed) : q \in Seq(signed')
    BY <1>1, SeqMonotonic
  <2> QED
    BY <2>1 DEF Blocks
<1>8. TreeInv'
  <2>1. blocks' \in Seq(Blocks(signed'))
    BY <1>1, <1>7, SeqMonotonic DEF RuntimeInv, TreeInv
  <2>2. build' \in [Nodes -> {Idle} \cup Blocks(signed')]
    BY <1>1, <1>7 DEF RuntimeInv, TreeInv
  <2>3. \A x \in signed' : IsExtrinsic(x)
    BY <1>1, <1>6 DEF RuntimeInv, TreeInv
  <2> QED
    BY <1>1, <2>1, <2>2, <2>3 DEF RuntimeInv, TreeInv
<1>9. EraInv'
  BY <1>1, <1>2, <1>5 DEF RuntimeInv, EraInv
<1>10. SoundInv'
  BY <1>1 DEF RuntimeInv, SoundInv, History, Frees
<1>11. NumberInv' /\ AnchorInv'
  <2>1. NumberInv'
    BY <1>1, Zenon DEF RuntimeInv, NumberInv, Branch
  <2>2. AnchorInv'
    BY <1>1, Zenon DEF RuntimeInv, AnchorInv, Anchored, Branch
  <2> QED
    BY <2>1, <2>2
<1> QED
  BY <1>8, <1>9, <1>10, <1>11 DEF RuntimeInv

(* An author starts a block on its best one.                                *)
LEMMA InitializeStep ==
    ASSUME RuntimeInv, NEW n \in Nodes, InitializeBlock(n)
    PROVE  RuntimeInv'
<1> DEFINE parent == best[n]
           old == blocks[parent].state
           state == [old EXCEPT !.number = old.number + 1]
           x == [parent |-> parent, body |-> <<>>, state |-> state, frees |-> <<>>]
<1>1. build' = [build EXCEPT ![n] = x] /\ UNCHANGED <<signed, blocks, best>>
  BY DEF InitializeBlock
<1>2. parent \in 1..Len(blocks) /\ parent \in Nat
  BY DEF RuntimeInv, TreeInv
<1> HIDE DEF parent
<1>3. Sound(History(parent), Frees(parent), old)
  BY <1>2 DEF RuntimeInv, SoundInv
<1>4. old \in States
  BY <1>3 DEF Sound
<1> HIDE DEF old
<1>5. /\ state \in States /\ state.nonce = old.nonce /\ state.free = old.free
      /\ state.something = old.something /\ state.number = old.number + 1
  BY <1>4 DEF States
<1>6. Sound(History(parent), Frees(parent), state)
  BY <1>3, <1>5 DEF Sound, Funded
<1>7. Anchored(parent, <<>>, state)
  BY <1>5 DEF Anchored, old
<1> HIDE DEF state
<1>8. /\ x.parent = parent /\ x.body = <<>> /\ x.state = state /\ x.frees = <<>>
      /\ x \in Blocks(signed)
  BY <1>2, <1>5 DEF Blocks
<1>9. /\ History(parent) \o <<>> = History(parent)
      /\ Frees(parent) \o <<>> = Frees(parent)
  <2>1. History(parent) \in Seq(signed) /\ Frees(parent) \in Seq(Ledgers)
    BY <1>2, HistoryType DEF RuntimeInv
  <2> QED
    BY <2>1, ConcatEmptySeq
<1> HIDE DEF x
<1>10. /\ x.parent \in 1..Len(blocks)
       /\ Sound(History(x.parent) \o x.body, Frees(x.parent) \o x.frees, x.state)
       /\ Anchored(x.parent, x.body, x.state)
  BY <1>2, <1>6, <1>7, <1>8, <1>9
<1> QED
  BY <1>1, <1>8, <1>10, OneBuild

AppendsLast(p, q, e) == Append(p \o q, e) = p \o Append(q, e)

(* Appending to the second of two sequences.                                *)
LEMMA AppendConcat ==
    ASSUME NEW X, NEW p \in Seq(X), NEW q \in Seq(X), NEW e \in X
    PROVE  AppendsLast(p, q, e)
<1>1. Append(p \o q, e) \in Seq(X) /\ p \o Append(q, e) \in Seq(X)
  OBVIOUS
<1>2. Len(Append(p \o q, e)) = Len(p \o Append(q, e))
  OBVIOUS
<1>3. \A i \in 1..Len(Append(p \o q, e)) :
          Append(p \o q, e)[i] = (p \o Append(q, e))[i]
  OBVIOUS
<1> QED
  BY <1>1, <1>2, <1>3, SeqEqual DEF AppendsLast

(* CheckEra lets an extrinsic through only on the branch it was signed on.  *)
LEMMA AnchoredAppend ==
    ASSUME RuntimeInv, NEW parent \in 1..Len(blocks), NEW body \in Seq(signed),
           NEW s \in States, Anchored(parent, body, s), NEW xt \in signed, NEW index,
           TxExtension(s, Branch(parent), index, xt), NEW t, t.number = s.number
    PROVE  Anchored(parent, Append(body, xt), t)
<1> DEFINE b == birth(xt.phase, s.number)
           ancestors == Branch(parent)
           g == Append(body, xt)
<1>1. xt.birth_hash \in 1..Len(blocks) /\ xt.phase = blocks[xt.birth_hash].state.number % period
  BY DEF RuntimeInv, EraInv
<1>2. blocks[xt.birth_hash].state \in States /\ blocks[parent].state \in States
  BY <1>1 DEF RuntimeInv, SoundInv, Sound
<1>3. xt.phase \in Nat /\ s.number \in Nat /\ blocks[parent].state.number \in Nat
  <2>1. period \in Nat /\ period >= 1
    BY PeriodBounds, RuntimeAssumption
  <2>2. blocks[xt.birth_hash].state.number \in Nat
    BY <1>2 DEF States
  <2>3. blocks[xt.birth_hash].state.number % period \in Nat
    <3> HIDE DEF period
    <3> QED
      BY <2>1, <2>2
  <2> QED
    BY <1>1, <1>2, <2>3 DEF States
<1>4. b \in StoredHashes(s.number) /\ ancestors[b + 1] = xt.birth_hash
  BY DEF TxExtension
<1>5. b \in 0..(s.number - 1) /\ s.number - b \in 1..(period - 1)
  BY <1>3, <1>4, EraAnchors
<1>6. /\ ancestors \in Seq(1..Len(blocks))
      /\ Len(ancestors) = blocks[parent].state.number + 1
  BY DEF RuntimeInv, NumberInv
<1>7. s.number = blocks[parent].state.number + 1
  BY DEF Anchored
<1> HIDE DEF b, ancestors
<1>8. b + 1 \in DOMAIN ancestors /\ (b + 1) - 1 = b
  <2>1. DOMAIN ancestors = 1..Len(ancestors) /\ Len(ancestors) = s.number
    BY <1>6, <1>7
  <2>2. b + 1 \in 1..s.number /\ (b + 1) - 1 = b
    BY <1>3, <1>5
  <2> QED
    BY <2>1, <2>2
<1>9. ASSUME NEW k \in DOMAIN g
      PROVE  \E j \in DOMAIN ancestors :
                ancestors[j] = g[k].birth_hash /\ t.number - (j - 1) \in 1..(period - 1)
  <2>1. CASE k = Len(body) + 1
    <3>1. g[k] = xt
      BY <2>1
    <3> QED
      BY <1>4, <1>5, <1>8, <3>1
  <2>2. CASE k \in DOMAIN body
    <3>1. g[k] = body[k]
      BY <2>2
    <3>2. \E j \in DOMAIN ancestors :
             ancestors[j] = body[k].birth_hash /\ s.number - (j - 1) \in 1..(period - 1)
      BY <2>2 DEF Anchored, ancestors
    <3> QED
      BY <3>1, <3>2
  <2> QED
    BY <2>1, <2>2
<1> QED
  BY <1>7, <1>9 DEF Anchored, ancestors

(* An author takes an extrinsic into its block.                             *)
LEMMA ApplyStep ==
    ASSUME RuntimeInv, NEW n \in Nodes, NEW xt \in signed, ApplyExtrinsic(n, xt)
    PROVE  RuntimeInv'
<1> DEFINE b == build[n]
           s == b.state
           t == applied(s, xt)
           x == [b EXCEPT !.body = Append(b.body, xt), !.state = t,
                          !.frees = Append(b.frees, t.free)]
           h == History(b.parent) \o b.body
           f == Frees(b.parent) \o b.frees
           index == Len(b.body)
<1>1. b # Idle /\ build \in [Nodes -> {Idle} \cup Blocks(signed)]
  BY DEF ApplyExtrinsic, RuntimeInv, TreeInv
<1>2. b \in Blocks(signed) /\ b.parent \in 1..Len(blocks)
  BY <1>1 DEF RuntimeInv, TreeInv
<1>3. TxExtension(s, Branch(b.parent), index, xt) /\ UNCHANGED <<signed, blocks, best>>
  BY DEF ApplyExtrinsic
<1>4. build' = [build EXCEPT ![n] = x]
  BY <1>1 DEF ApplyExtrinsic
<1>5. Sound(h, f, s) /\ Anchored(b.parent, b.body, s)
  BY <1>1 DEF RuntimeInv, SoundInv, AnchorInv
<1>6. /\ b.parent \in Nat /\ b.body \in Seq(signed) /\ History(b.parent) \in Seq(signed)
      /\ b.frees \in Seq(Ledgers) /\ Frees(b.parent) \in Seq(Ledgers)
  BY <1>2, HistoryType DEF Blocks, RuntimeInv
<1>7. \A q \in signed : IsExtrinsic(q)
  BY DEF RuntimeInv, TreeInv
<1> HIDE DEF b, s
<1>8. Append(b.body, xt) \in Seq(signed) /\ h \in Seq(signed)
  BY <1>6, ConcatProperties, AppendProperties
<1>9. Sound(Append(h, xt), Append(f, t.free), t)
  <2> HIDE DEF h, f, index
  <2> QED
    BY <1>3, <1>5, <1>7, <1>8, SoundAppend
<1>10. t \in States /\ t.free \in Ledgers
  BY <1>9 DEF Sound, States, Ledgers
<1>11. s \in States /\ Funded(s)
  BY <1>5 DEF Sound
<1>12. t.number = s.number
  <2> HIDE DEF index
  <2> QED
    BY <1>3, <1>7, <1>11, ApplyFacts
<1> HIDE DEF t
<1>13. /\ Append(h, xt) = History(b.parent) \o Append(b.body, xt)
       /\ Append(f, t.free) = Frees(b.parent) \o Append(b.frees, t.free)
  <2> DEFINE p == History(b.parent)
             q == b.body
             y == Frees(b.parent)
             z == b.frees
  <2>1. /\ p \in Seq(signed) /\ q \in Seq(signed) /\ h = p \o q
        /\ y \in Seq(Ledgers) /\ z \in Seq(Ledgers) /\ f = y \o z
    BY <1>6
  <2> HIDE DEF p, q, y, z, h, f
  <2>2. AppendsLast(p, q, xt) /\ AppendsLast(y, z, t.free)
    BY <1>10, <2>1, AppendConcat
  <2>3. /\ Append(p \o q, xt) = p \o Append(q, xt)
        /\ Append(y \o z, t.free) = y \o Append(z, t.free)
    BY <2>2, Zenon DEF AppendsLast
  <2> QED
    BY <2>1, <2>3 DEF p, q, y, z
<1>14. Anchored(b.parent, Append(b.body, xt), t)
  <2> HIDE DEF index
  <2> QED
    BY <1>2, <1>3, <1>5, <1>6, <1>11, <1>12, AnchoredAppend
<1>15. Append(b.frees, t.free) \in Seq(Ledgers)
  BY <1>6, <1>10
<1>16. /\ x.parent = b.parent /\ x.body = Append(b.body, xt) /\ x.state = t
       /\ x.frees = Append(b.frees, t.free) /\ x \in Blocks(signed)
  BY <1>2, <1>8, <1>10, <1>15 DEF Blocks
<1> HIDE DEF x
<1>17. /\ x.parent \in 1..Len(blocks)
       /\ Sound(History(x.parent) \o x.body, Frees(x.parent) \o x.frees, x.state)
       /\ Anchored(x.parent, x.body, x.state)
  BY <1>2, <1>9, <1>13, <1>14, <1>16
<1> QED
  BY <1>3, <1>4, <1>16, <1>17, OneBuild

(* A finished block joins the tree.                                         *)
LEMMA FinalizeStep ==
    ASSUME RuntimeInv, NEW n \in Nodes, FinalizeBlock(n)
    PROVE  RuntimeInv'
<1> DEFINE x == build[n]
           m == Len(blocks)
<1>1. /\ x # Idle /\ blocks' = Append(blocks, x) /\ signed' = signed
      /\ build' = [build EXCEPT ![n] = Idle]
      /\ best' = [best EXCEPT ![n] = Better(n, Len(blocks'), x.state.number)]
  BY DEF FinalizeBlock
<1>2. /\ TreeInv /\ build \in [Nodes -> {Idle} \cup Blocks(signed)]
      /\ best \in [Nodes -> 1..m]
      /\ \A k \in Nodes : build[k] # Idle => build[k].parent \in 1..m
      /\ \A xt \in signed : IsExtrinsic(xt)
  BY DEF RuntimeInv, TreeInv
<1>3. x \in Blocks(signed) /\ x.parent \in 1..m
  BY <1>1, <1>2
<1>4. /\ Sound(History(x.parent) \o x.body, Frees(x.parent) \o x.frees, x.state)
      /\ Anchored(x.parent, x.body, x.state)
  BY <1>1 DEF RuntimeInv, SoundInv, AnchorInv
<1>5. m \in Nat \ {0} /\ \A i \in 2..m : blocks[i].parent \in 1..(i - 1)
  BY <1>2 DEF TreeInv, Rooted
<1>6. \A k \in Nodes : build'[k] # Idle => k # n /\ build'[k] = build[k]
  BY <1>1, <1>2
<1> HIDE DEF x, m
<1>7. /\ blocks' \in Seq(Blocks(signed)) /\ Rooted(blocks')
      /\ Len(blocks') = m + 1 /\ blocks'[m + 1] = x
      /\ \A b \in 1..m : /\ blocks'[b] = blocks[b] /\ Branch(b)' = Branch(b)
                         /\ History(b)' = History(b) /\ Frees(b)' = Frees(b)
      /\ \A b : b = m + 1 => /\ Branch(b)' = Branch(x.parent) \o <<b>>
                             /\ History(b)' = History(x.parent) \o x.body
                             /\ Frees(b)' = Frees(x.parent) \o x.frees
  BY <1>1, <1>2, <1>3, TreeGrows DEF m
<1>8. TreeInv'
  <2>1. best' \in [Nodes -> 1..(m + 1)]
    <3>1. Better(n, Len(blocks'), x.state.number) \in 1..(m + 1)
      BY <1>2, <1>5, <1>7 DEF Better
    <3> QED
      BY <1>1, <1>2, <1>5, <3>1
  <2>2. build' \in [Nodes -> {Idle} \cup Blocks(signed)]
    BY <1>1, <1>2
  <2>3. \A k \in Nodes : build'[k] # Idle => build'[k].parent \in 1..(m + 1)
    BY <1>2, <1>5, <1>6
  <2> QED
    BY <1>1, <1>2, <1>7, <2>1, <2>2, <2>3 DEF TreeInv
<1>9. EraInv'
  <2>1. \A xt \in signed : /\ xt.birth_hash \in 1..m
                           /\ xt.phase = blocks[xt.birth_hash].state.number % period
    BY DEF RuntimeInv, EraInv, m
  <2>2. \A xt \in signed' : /\ xt.birth_hash \in 1..(m + 1)
                            /\ xt.phase = blocks'[xt.birth_hash].state.number % period
    BY <1>1, <1>5, <1>7, <2>1
  <2> QED
    BY <1>7, <2>2 DEF EraInv
<1>10. SoundInv'
  <2>1. ASSUME NEW b \in 1..(m + 1) PROVE Sound(History(b)', Frees(b)', blocks'[b].state)
    <3>1. CASE b \in 1..m
      BY <1>7, <3>1 DEF RuntimeInv, SoundInv, m
    <3>2. CASE b = m + 1
      BY <1>4, <1>7, <3>2
    <3> QED
      BY <1>5, <3>1, <3>2
  <2>2. ASSUME NEW k \in Nodes, build'[k] # Idle
        PROVE  Sound((History(build[k].parent) \o build[k].body)',
                     (Frees(build[k].parent) \o build[k].frees)', build'[k].state)
    <3>1. /\ build'[k] = build[k] /\ build[k].parent \in 1..m
          /\ Sound(History(build[k].parent) \o build[k].body,
                   Frees(build[k].parent) \o build[k].frees, build[k].state)
      BY <1>2, <1>6, <2>2 DEF RuntimeInv, SoundInv
    <3>2. PICK parent \in 1..m : parent = build[k].parent
      BY <3>1
    <3>3. /\ (History(build[k].parent))' = History(parent)'
          /\ (Frees(build[k].parent))' = Frees(parent)'
      BY <3>1, <3>2 DEF History, Frees
    <3>4. /\ (History(build[k].parent))' = History(build[k].parent)
          /\ (Frees(build[k].parent))' = Frees(build[k].parent)
      BY <1>7, <3>2, <3>3
    <3> QED
      BY <3>1, <3>4
  <2> QED
    BY <1>7, <2>1, <2>2 DEF SoundInv
<1>11. NumberInv'
  <2>1. \A b \in 1..m :
           /\ Branch(b) \in Seq(1..m) /\ Len(Branch(b)) = blocks[b].state.number + 1
           /\ \A j \in 1..Len(Branch(b)) : blocks[Branch(b)[j]].state.number = j - 1
    BY DEF RuntimeInv, NumberInv, m
  <2>2. ASSUME NEW b \in 1..m, NEW j \in 1..Len(Branch(b)) PROVE Branch(b)[j] \in 1..m
    <3>1. Branch(b) \in Seq(1..m)
      BY <2>1
    <3> QED
      BY <3>1, ElementOfSeq
  <2>3. \A b \in 1..m : Branch(b) \in Seq(1..(m + 1))
    <3>1. \A q \in Seq(1..m) : q \in Seq(1..(m + 1))
      BY <1>5, SeqMonotonic
    <3> QED
      BY <2>1, <3>1
  <2>4. ASSUME NEW b \in 1..m
        PROVE  /\ Branch(b)' \in Seq(1..(m + 1))
               /\ Len(Branch(b)') = blocks'[b].state.number + 1
               /\ \A j \in 1..Len(Branch(b)') : blocks'[(Branch(b)')[j]].state.number = j - 1
    BY <1>7, <2>1, <2>2, <2>3
  <2>5. ASSUME NEW b, b = m + 1
        PROVE  /\ Branch(b)' \in Seq(1..(m + 1))
               /\ Len(Branch(b)') = blocks'[b].state.number + 1
               /\ \A j \in 1..Len(Branch(b)') : blocks'[(Branch(b)')[j]].state.number = j - 1
    <3> DEFINE p == Branch(x.parent)
               g == p \o <<b>>
               top == blocks[x.parent].state.number
    <3>1. Branch(b)' = g /\ blocks'[b] = x
      BY <1>7, <2>5
    <3>2. x.state.number = top + 1
      BY <1>4 DEF Anchored
    <3>3. /\ p \in Seq(1..(m + 1)) /\ Len(p) = top + 1
          /\ \A j \in 1..Len(p) : p[j] \in 1..m /\ blocks[p[j]].state.number = j - 1
      BY <1>3, <2>1, <2>2, <2>3
    <3> HIDE DEF p, top
    <3>4. b \in 1..(m + 1)
      BY <1>5, <2>5
    <3>5. g \in Seq(1..(m + 1)) /\ Len(g) = Len(p) + 1 /\ g[Len(p) + 1] = b
      BY <3>3, <3>4
    <3>6. \A j \in 1..Len(p) : g[j] = p[j]
      BY <3>3
    <3> HIDE DEF g
    <3>7. ASSUME NEW j \in 1..Len(g) PROVE blocks'[g[j]].state.number = j - 1
      <4>1. CASE j \in 1..Len(p)
        <5>1. g[j] = p[j] /\ p[j] \in 1..m /\ blocks[p[j]].state.number = j - 1
          BY <3>3, <3>6, <4>1
        <5>2. blocks'[p[j]] = blocks[p[j]]
          BY <1>7, <5>1
        <5> QED
          BY <5>1, <5>2
      <4>2. CASE j = Len(p) + 1
        <5>1. j - 1 = top + 1
          BY <3>3, <4>2
        <5> QED
          BY <3>1, <3>2, <3>5, <4>2, <5>1
      <4>3. j \in 1..Len(p) \/ j = Len(p) + 1
        <5>1. Len(p) \in Nat /\ j \in Int /\ j >= 1 /\ j <= Len(p) + 1
          BY <3>3, <3>5
        <5> QED
          BY <5>1
      <4> QED
        BY <4>1, <4>2, <4>3
    <3>8. Len(g) = x.state.number + 1
      BY <3>2, <3>3, <3>5
    <3> QED
      BY <3>1, <3>5, <3>7, <3>8
  <2>6. ASSUME NEW b \in 1..(m + 1)
        PROVE  /\ Branch(b)' \in Seq(1..(m + 1))
               /\ Len(Branch(b)') = blocks'[b].state.number + 1
               /\ \A j \in 1..Len(Branch(b)') : blocks'[(Branch(b)')[j]].state.number = j - 1
    <3>1. b \in 1..m \/ b = m + 1
      BY <1>5
    <3> QED
      BY <2>4, <2>5, <3>1
  <2> QED
    BY <1>7, <2>6 DEF NumberInv
<1>12. AnchorInv'
  <2>1. ASSUME NEW parent \in 1..m, NEW body, NEW state, Anchored(parent, body, state)
        PROVE  Anchored(parent, body, state)'
    <3>1. Branch(parent)' = Branch(parent) /\ blocks'[parent] = blocks[parent]
      BY <1>7
    <3> QED
      BY <2>1, <3>1 DEF Anchored
  <2>2. ASSUME NEW b \in 2..(m + 1)
        PROVE  \E parent, body, state :
                  /\ parent \in 1..m
                  /\ parent = blocks'[b].parent /\ body = blocks'[b].body
                  /\ state = blocks'[b].state /\ Anchored(parent, body, state)
    <3>1. CASE b \in 2..m
      <4>1. blocks'[b] = blocks[b] /\ blocks[b].parent \in 1..m
        BY <1>5, <1>7, <3>1
      <4>2. Anchored(blocks[b].parent, blocks[b].body, blocks[b].state)
        BY <3>1 DEF RuntimeInv, AnchorInv, m
      <4> QED
        BY <4>1, <4>2
    <3>2. CASE b = m + 1
      BY <1>3, <1>4, <1>7, <3>2 DEF m
    <3> QED
      BY <1>5, <3>1, <3>2
  <2>3. ASSUME NEW b \in 2..(m + 1)
        PROVE  Anchored(blocks[b].parent, blocks[b].body, blocks[b].state)'
    <3>1. PICK parent, body, state :
                  /\ parent \in 1..m
                  /\ parent = blocks'[b].parent /\ body = blocks'[b].body
                  /\ state = blocks'[b].state /\ Anchored(parent, body, state)
      BY <2>2
    <3>2. Anchored(parent, body, state)'
      BY <2>1, <3>1
    <3> QED
      BY <3>1, <3>2 DEF Anchored, Branch
  <2>4. ASSUME NEW k \in Nodes, build'[k] # Idle
        PROVE  Anchored(build[k].parent, build[k].body, build[k].state)'
    <3>1. /\ build'[k] = build[k] /\ build[k].parent \in 1..m
          /\ Anchored(build[k].parent, build[k].body, build[k].state)
      BY <1>2, <1>6, <2>4 DEF RuntimeInv, AnchorInv
    <3>2. PICK parent, body, state :
                  /\ parent \in 1..m
                  /\ parent = build[k].parent /\ body = build[k].body
                  /\ state = build[k].state
      BY <3>1
    <3>3. Anchored(parent, body, state)'
      BY <2>1, <3>1, <3>2
    <3> QED
      BY <3>1, <3>2, <3>3 DEF Anchored, Branch
  <2> QED
    BY <1>7, <2>3, <2>4 DEF AnchorInv
<1> QED
  BY <1>8, <1>9, <1>10, <1>11, <1>12 DEF RuntimeInv

(* An import only moves the node's best block.                              *)
LEMMA ImportStep ==
    ASSUME RuntimeInv, NEW n \in Nodes, NEW b \in DOMAIN blocks, ImportBlock(n, b)
    PROVE  RuntimeInv'
<1>1. /\ best' = [best EXCEPT ![n] = Better(n, b, blocks[b].state.number)]
      /\ UNCHANGED <<signed, blocks, build>>
  BY DEF ImportBlock
<1>2. DOMAIN blocks = 1..Len(blocks) /\ best \in [Nodes -> 1..Len(blocks)]
  BY DEF RuntimeInv, TreeInv, Rooted
<1>3. best' \in [Nodes -> 1..Len(blocks)]
  BY <1>1, <1>2 DEF Better
<1>4. TreeInv' /\ EraInv'
  BY <1>1, <1>3 DEF RuntimeInv, TreeInv, EraInv
<1>5. SoundInv'
  BY <1>1 DEF RuntimeInv, SoundInv, History, Frees
<1>6. NumberInv'
  BY <1>1 DEF RuntimeInv, NumberInv, Branch
<1>7. AnchorInv'
  BY <1>1 DEF RuntimeInv, AnchorInv, Anchored, Branch
<1> QED
  BY <1>4, <1>5, <1>6, <1>7 DEF RuntimeInv

(* The invariant is inductive.                                              *)
LEMMA RuntimeStep == RuntimeInv /\ [Next]_vars => RuntimeInv'
<1> SUFFICES ASSUME RuntimeInv, [Next]_vars PROVE RuntimeInv'
  OBVIOUS
<1>1. ASSUME NEW n \in Nodes, Restart(n) PROVE RuntimeInv'
  <2>1. build' = [build EXCEPT ![n] = Idle] /\ UNCHANGED <<signed, blocks, best>>
    BY <1>1 DEF Restart
  <2> QED
    BY <2>1, OneBuild
<1>2. CASE UNCHANGED vars
  <2>1. UNCHANGED <<signed, blocks, best, build>>
    BY <1>2 DEF vars
  <2>2. TreeInv' /\ EraInv'
    BY <2>1 DEF RuntimeInv, TreeInv, EraInv
  <2>3. SoundInv'
    BY <2>1 DEF RuntimeInv, SoundInv, History, Frees
  <2>4. NumberInv' /\ AnchorInv'
    <3>1. NumberInv'
      BY <2>1, Zenon DEF RuntimeInv, NumberInv, Branch
    <3>2. AnchorInv'
      BY <2>1, Zenon DEF RuntimeInv, AnchorInv, Anchored, Branch
    <3> QED
      BY <3>1, <3>2
  <2> QED
    BY <2>2, <2>3, <2>4 DEF RuntimeInv
<1>3. CASE Next
  BY <1>1, <1>3, SignStep, InitializeStep, ApplyStep, FinalizeStep, ImportStep DEF Next
<1> QED
  BY <1>2, <1>3

(* RuntimeInv holds in every reachable state.                               *)
LEMMA RuntimeInvariant == Spec => []RuntimeInv
  BY RuntimeInit, RuntimeStep, PTL DEF Spec

-----------------------------------------------------------------------------
(* What follows from it *)

(* A nonce protects against replay on every chain: through forks, repeated  *)
(* and reordered extrinsics, restarts and imports, an extrinsic (a transfer *)
(* too) is applied again only after its signer's account has been emptied.  *)
THEOREM OnceTheorem == Spec => []AppliedOnce
<1>1. RuntimeInv => AppliedOnce
  <2> SUFFICES ASSUME RuntimeInv PROVE AppliedOnce
    OBVIOUS
  <2>1. DOMAIN blocks = 1..Len(blocks)
    BY DEF RuntimeInv, TreeInv, Rooted
  <2>2. \A b \in DOMAIN blocks : Spent(History(b), Frees(b), blocks[b].state.nonce)
    BY <2>1 DEF RuntimeInv, SoundInv, Sound
  <2> QED
    BY <2>2 DEF AppliedOnce, Spent
<1> QED
  BY <1>1, RuntimeInvariant, PTL

(* No extrinsic is applied on a fork it was not signed on, or after its era *)
(* (CheckEra with the hash of the era's first block), for every             *)
(* BlockHashCount that Era::mortal does not clamp.                          *)
THEOREM AncestorTheorem == Spec => []SignedOnAncestor
<1>1. RuntimeInv => SignedOnAncestor
  <2> SUFFICES ASSUME RuntimeInv, NEW b \in 2..Len(blocks),
                      NEW xt \in Range(blocks[b].body)
               PROVE  /\ xt.birth_hash \in Range(Branch(blocks[b].parent))
                      /\ blocks[b].state.number - blocks[xt.birth_hash].state.number
                            \in 1..(period - 1)
    BY DEF SignedOnAncestor
  <2> DEFINE parent == blocks[b].parent
             p == Branch(parent)
  <2>1. PICK k \in DOMAIN blocks[b].body : xt = blocks[b].body[k]
    BY DEF Range
  <2>2. Anchored(parent, blocks[b].body, blocks[b].state)
    BY DEF RuntimeInv, AnchorInv
  <2>3. PICK j \in DOMAIN p :
           p[j] = xt.birth_hash /\ blocks[b].state.number - (j - 1) \in 1..(period - 1)
    BY <2>1, <2>2 DEF Anchored
  <2>4. parent \in 1..Len(blocks)
    <3>1. Len(blocks) \in Nat /\ parent \in 1..(b - 1)
      BY DEF RuntimeInv, TreeInv, Rooted
    <3> QED
      BY <3>1
  <2>5. p \in Seq(1..Len(blocks)) /\ \A i \in 1..Len(p) : blocks[p[i]].state.number = i - 1
    BY <2>4 DEF RuntimeInv, NumberInv
  <2> HIDE DEF p
  <2>6. blocks[xt.birth_hash].state.number = j - 1
    <3>1. DOMAIN p = 1..Len(p)
      BY <2>5
    <3> QED
      BY <2>3, <2>5, <3>1
  <2>7. xt.birth_hash \in Range(p)
    BY <2>3 DEF Range
  <2> QED
    BY <2>3, <2>6, <2>7 DEF p
<1> QED
  BY <1>1, RuntimeInvariant, PTL

(* Something is what the calls of the chain explain.                        *)
THEOREM SomethingTheorem == Spec => []SomethingExplained
<1>1. RuntimeInv => SomethingExplained
  BY DEF RuntimeInv, TreeInv, Rooted, SoundInv, Sound, SomethingExplained
<1> QED
  BY <1>1, RuntimeInvariant, PTL

(* Every extrinsic of a chain has been paid for, and nothing but the fees,  *)
(* and dust where there is any, is burned.                                  *)
THEOREM FeesTheorem == Spec => []FeesPaid
<1>1. RuntimeInv => FeesPaid
  BY DEF RuntimeInv, TreeInv, Rooted, SoundInv, Sound, FeesPaid
<1> QED
  BY <1>1, RuntimeInvariant, PTL

(* The era of an extrinsic ends before its first block's hash is forgotten, *)
(* for every BlockHashCount that Era::mortal does not clamp.                *)
THEOREM EraTheorem == Spec => []EraIsServed
<1>1. RuntimeInv => EraIsServed
  <2> SUFFICES ASSUME RuntimeInv, NEW xt \in signed PROVE
                 LET first == blocks[xt.birth_hash].state.number
                 IN  \A n \in (first + 1)..(first + period - 1) :
                        birth(xt.phase, n) = first /\ first \in StoredHashes(n)
    BY DEF EraIsServed
  <2> DEFINE first == blocks[xt.birth_hash].state.number
  <2>1. xt.birth_hash \in 1..Len(blocks) /\ xt.phase = first % period
    BY DEF RuntimeInv, EraInv
  <2>2. blocks[xt.birth_hash].state \in States
    BY <2>1 DEF RuntimeInv, SoundInv, Sound
  <2>3. first \in Nat
    BY <2>2 DEF States
  <2> HIDE DEF first
  <2>4. \A n \in (first + 1)..(first + period - 1) :
            birth(xt.phase, n) = first /\ first \in StoredHashes(n)
    BY <2>1, <2>3, EraServed
  <2> QED
    BY <2>4 DEF first
<1> QED
  BY <1>1, RuntimeInvariant, PTL
=============================================================================
