--------------------------- MODULE Bn128GasProofs ---------------------------
(***************************************************************************)
(* Facts about the gas schedule of bn128.rs (module Bn128Gas).             *)
(***************************************************************************)
EXTENDS Bn128Gas, TLAPS

(* Largest value of usize on the wasm32 target the engine is built for    *)
(* (2^32 - 1), and the modulus of u64 (2^64).                              *)
UsizeMax == 4294967295
U64 == 18446744073709551616

(* The pair costs of each fork, as numbers.                              *)
LEMMA PairCosts ==
    /\ Costs["Byzantium"].pairPerPoint = 80000
    /\ Costs["Byzantium"].pairBase = 100000
    /\ Costs["Istanbul"].pairPerPoint = 34000
    /\ Costs["Istanbul"].pairBase = 45000
BY DEF Costs

(* required_gas of BN128Pair never wraps: for every length a wasm32 usize  *)
(* can hold, per_point * len and the sum with the base stay below 2^64,   *)
(* so the u64 arithmetic of the code equals the unbounded arithmetic of   *)
(* the model and no long input is under-charged.                          *)
THEOREM PairGasNoWrap ==
    \A f \in Forks, len \in Nat :
      len <= UsizeMax =>
        /\ Costs[f].pairPerPoint * len < U64
        /\ PairRequiredGas(f, len) < U64
<1> SUFFICES ASSUME NEW f \in Forks, NEW len \in Nat, len <= UsizeMax
             PROVE  /\ Costs[f].pairPerPoint * len < U64
                    /\ PairRequiredGas(f, len) < U64
  OBVIOUS
<1>1. len <= 4294967295  BY DEF UsizeMax
<1>2. CASE f = "Byzantium"
  <2>1. 80000 * len < 18446744073709551616  BY <1>1, Z3
  <2>2. (80000 * len) \div 192 + 100000 < 18446744073709551616  BY <1>1, Z3
  <2>3. QED  BY <1>2, <2>1, <2>2, PairCosts DEF PairRequiredGas, PAIR_ELEMENT_LEN, U64
<1>3. CASE f = "Istanbul"
  <2>1. 34000 * len < 18446744073709551616  BY <1>1, Z3
  <2>2. (34000 * len) \div 192 + 45000 < 18446744073709551616  BY <1>1, Z3
  <2>3. QED  BY <1>3, <2>1, <2>2, PairCosts DEF PairRequiredGas, PAIR_ELEMENT_LEN, U64
<1>4. QED  BY <1>2, <1>3 DEF Forks

(* Spec section 8, property 3, for whole elements: an input of n elements *)
(* costs per_point * n + base, so each element adds exactly per_point.    *)
THEOREM PairGasPerElement ==
    \A f \in Forks, n \in Nat :
        PairRequiredGas(f, PAIR_ELEMENT_LEN * n)
            = Costs[f].pairPerPoint * n + Costs[f].pairBase
<1> SUFFICES ASSUME NEW f \in Forks, NEW n \in Nat
             PROVE  PairRequiredGas(f, 192 * n)
                        = Costs[f].pairPerPoint * n + Costs[f].pairBase
  BY DEF PAIR_ELEMENT_LEN
<1>1. CASE f = "Byzantium"
  <2>1. (80000 * (192 * n)) \div 192 = 80000 * n  BY Z3
  <2>2. QED  BY <1>1, <2>1, PairCosts DEF PairRequiredGas, PAIR_ELEMENT_LEN
<1>2. CASE f = "Istanbul"
  <2>1. (34000 * (192 * n)) \div 192 = 34000 * n  BY Z3
  <2>2. QED  BY <1>2, <2>1, PairCosts DEF PairRequiredGas, PAIR_ELEMENT_LEN
<1>3. QED  BY <1>1, <1>2 DEF Forks

(* The code never charges less than the spec's per_point * (len / 192) +  *)
(* base, and charges strictly more for the 66-byte input of scenario S7:   *)
(* the fraction of an element in a ragged input is paid for before the    *)
(* framing check rejects it.                                               *)
THEOREM PairGasRaggedSurcharge ==
    \A f \in Forks :
        /\ \A len \in Nat :
              PairRequiredGas(f, len)
                >= Costs[f].pairPerPoint * (len \div PAIR_ELEMENT_LEN) + Costs[f].pairBase
        /\ PairRequiredGas(f, 66)
              > Costs[f].pairPerPoint * (66 \div PAIR_ELEMENT_LEN) + Costs[f].pairBase
<1> SUFFICES ASSUME NEW f \in Forks
             PROVE  /\ \A len \in Nat :
                          PairRequiredGas(f, len)
                            >= Costs[f].pairPerPoint * (len \div 192) + Costs[f].pairBase
                    /\ PairRequiredGas(f, 66)
                          > Costs[f].pairPerPoint * (66 \div 192) + Costs[f].pairBase
  BY Zenon DEF PAIR_ELEMENT_LEN
<1>1. CASE f = "Byzantium"
  <2>1. \A len \in Nat : (80000 * len) \div 192 >= 80000 * (len \div 192)  BY Z3
  <2>2. (80000 * 66) \div 192 > 80000 * (66 \div 192)  BY Z3
  <2>3. QED  BY <1>1, <2>1, <2>2, PairCosts DEF PairRequiredGas, PAIR_ELEMENT_LEN
<1>2. CASE f = "Istanbul"
  <2>1. \A len \in Nat : (34000 * len) \div 192 >= 34000 * (len \div 192)  BY Z3
  <2>2. (34000 * 66) \div 192 > 34000 * (66 \div 192)  BY Z3
  <2>3. QED  BY <1>2, <2>1, <2>2, PairCosts DEF PairRequiredGas, PAIR_ELEMENT_LEN
<1>3. QED  BY <1>1, <1>2 DEF Forks


(* Spec section 8, property 3: appending b to an input a adds              *)
(* per_point * len(b) / 192 to the gas.  The code's per_point * len / 192   *)
(* makes that exact for every a when b is whole elements, and only then:   *)
(* for a = b = one byte, Byzantium charges 833 for both together but 416   *)
(* for b on its own, the floor of the division being taken once, not per  *)
(* part.                                                                   *)
THEOREM PairGasConcat ==
    /\ \A f \in Forks, la \in Nat, n \in Nat :
          PairRequiredGas(f, la + PAIR_ELEMENT_LEN * n)
            = PairRequiredGas(f, la) + (Costs[f].pairPerPoint * (PAIR_ELEMENT_LEN * n)) \div PAIR_ELEMENT_LEN
    /\ PairRequiredGas("Byzantium", 1 + 1)
         # PairRequiredGas("Byzantium", 1) + (Costs["Byzantium"].pairPerPoint * 1) \div PAIR_ELEMENT_LEN
<1>1. ASSUME NEW f \in Forks, NEW la \in Nat, NEW n \in Nat
      PROVE  PairRequiredGas(f, la + 192 * n)
               = PairRequiredGas(f, la) + (Costs[f].pairPerPoint * (192 * n)) \div 192
  <2>1. CASE f = "Byzantium"
    <3>1. (80000 * (la + 192 * n)) \div 192 = (80000 * la) \div 192 + (80000 * (192 * n)) \div 192
      BY Z3
    <3>2. QED  BY <2>1, <3>1, PairCosts DEF PairRequiredGas, PAIR_ELEMENT_LEN
  <2>2. CASE f = "Istanbul"
    <3>1. (34000 * (la + 192 * n)) \div 192 = (34000 * la) \div 192 + (34000 * (192 * n)) \div 192
      BY Z3
    <3>2. QED  BY <2>2, <3>1, PairCosts DEF PairRequiredGas, PAIR_ELEMENT_LEN
  <2>3. QED  BY <2>1, <2>2 DEF Forks
<1>2. PairRequiredGas("Byzantium", 1 + 1)
        # PairRequiredGas("Byzantium", 1) + (Costs["Byzantium"].pairPerPoint * 1) \div 192
  <2>1. (80000 * 2) \div 192 = 833 /\ (80000 * 1) \div 192 = 416  BY Z3
  <2>2. QED  BY <2>1, PairCosts DEF PairRequiredGas, PAIR_ELEMENT_LEN
<1>3. QED  BY <1>1, <1>2 DEF PAIR_ELEMENT_LEN

=============================================================================
