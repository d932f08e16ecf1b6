------------------------------ MODULE Bn128Gas ------------------------------
(***************************************************************************)
(* Gas schedule of the alt_bn128 precompiles (mod costs, mod consts and    *)
(* the required_gas of each Precompile impl in bn128.rs).  The hard fork   *)
(* selects only these constants.                                           *)
(***************************************************************************)
EXTENDS Integers

Forks == {"Byzantium", "Istanbul"}

(* mod costs *)
Costs ==
    [Byzantium |-> [add |-> 500, mul |-> 40000,
                    pairPerPoint |-> 80000, pairBase |-> 100000],
     Istanbul  |-> [add |-> 150, mul |-> 6000,
                    pairPerPoint |-> 34000, pairBase |-> 45000]]

(* mod consts *)
ADD_INPUT_LEN == 128
MUL_INPUT_LEN == 128
PAIR_ELEMENT_LEN == 192

(* required_gas of BN128Add<HF> and BN128Mul<HF>: constant.               *)
AddRequiredGas(fork) == Costs[fork].add
MulRequiredGas(fork) == Costs[fork].mul

(* required_gas of BN128Pair<HF>: the per-point cost is multiplied by the  *)
(* byte length BEFORE the division by 192, in u64.  The products stay      *)
(* below 2^64 for every length a 32-bit usize can hold (PairGasNoWrap in  *)
(* Bn128GasProofs), so unbounded integers compute the same value.          *)
PairRequiredGas(fork, len) ==
    (Costs[fork].pairPerPoint * len) \div PAIR_ELEMENT_LEN + Costs[fork].pairBase


=============================================================================
