--------------------------- MODULE Bn128PairSpec ---------------------------
(***************************************************************************)
(* What the ECPAIRING precompile promises (EIP-197, spec section 4.4): one *)
(* call is one atomic step from (fork, input, gas) to its outcome.  The    *)
(* outcome is stated declaratively: the gas gate first, then the framing,  *)
(* then the error of the FIRST invalid element, else 1 iff the sum of the  *)
(* pairing exponents of all elements is 0 mod r, i.e. the product of the   *)
(* pairings is the identity of Gt.                                         *)
(***************************************************************************)
EXTENDS Bn128PairCodec

CONSTANTS PairInputs, Gases

VARIABLES pc, call, result

vars == <<pc, call, result>>

NoCall == [fork |-> "Byzantium", input |-> [len |-> 0, lanes |-> <<>>], gas |-> 0]

(* The element layout of EIP-197 (spec 4.4): G1.x, G1.y, then G2.x imag, *)
(* G2.x real, G2.y imag, G2.y real; all-zero coordinates are identities.  *)
SpecA(e) == IF e[1] = 0 /\ e[2] = 0 THEN G1Zero ELSE <<e[1], e[2]>>
SpecB(e) == IF \A k \in 3 .. 6 : e[k] = 0 THEN G2Zero
            ELSE << <<e[4], e[3]>>, <<e[6], e[5]>> >>

(* The error an element is rejected with (spec section 7): an Fq lane out  *)
(* of range, the first one in input order; else a not on its curve; else  *)
(* b not on its curve or outside the subgroup.                             *)
SpecElementError(e) ==
    LET bad == {k \in 1 .. 6 : ~FqInterpretOk(e[k])}
    IN  IF bad # {} THEN (IF Min(bad) = 2 THEN "AY" ELSE "AX")
        ELSE IF SpecA(e) # G1Zero /\ ~OnCurveG1(e[1], e[2]) THEN "ANotOnCurve"
        ELSE IF SpecB(e) # G2Zero /\ ~IsG2(SpecB(e)[1], SpecB(e)[2]) THEN "BNotOnCurve"
        ELSE NoError

(* The sum over all elements of the exponent of e(a_i, b_i).               *)
PairingSum(in) ==
    SumFunction([i \in 0 .. Elements(in) - 1 |->
                    DlogG1(SpecA(Element(in, i))) * DlogG2(SpecB(Element(in, i)))])

PairResult(f, in, g) ==
    LET bad == {i \in 0 .. Elements(in) - 1 : SpecElementError(Element(in, i)) # NoError}
    IN  IF PairRequiredGas(f, in.len) > g THEN Failed("OutOfGas")
        ELSE IF in.len % PAIR_ELEMENT_LEN # 0 THEN Failed("LenInvalid")
        ELSE IF bad # {} THEN Failed(SpecElementError(Element(in, Min(bad))))
        ELSE Returned(IF PairingSum(in) % FrR = 0 THEN 1 ELSE 0)

Init ==
    /\ pc = "idle"
    /\ call = NoCall
    /\ result = NoResult

Call(f, in, g) ==
    /\ pc = "idle"
    /\ call' = [fork |-> f, input |-> in, gas |-> g]
    /\ result' = PairResult(f, in, g)
    /\ pc' = "done"

Return ==
    /\ pc = "done"
    /\ pc' = "idle"
    /\ call' = NoCall
    /\ result' = NoResult

Next ==
    \/ \E f \in Forks, in \in PairInputs, g \in Gases : Call(f, in, g)
    \/ Return

Spec == Init /\ [][Next]_vars

(* The same specification with the answer of a successful call left open  *)
(* between 0 and 1: every outcome but which of the two is fixed.  Spec     *)
(* implies it; it is the part of Spec that does not depend on the values   *)
(* of the pairings.                                                        *)
CallUpToValue(f, in, g) ==
    /\ pc = "idle"
    /\ call' = [fork |-> f, input |-> in, gas |-> g]
    /\ result' \in IF PairResult(f, in, g).status = "Returned"
                   THEN {Returned(0), Returned(1)}
                   ELSE {PairResult(f, in, g)}
    /\ pc' = "done"

NextUpToValue ==
    \/ \E f \in Forks, in \in PairInputs, g \in Gases : CallUpToValue(f, in, g)
    \/ Return

SpecUpToValue == Init /\ [][NextUpToValue]_vars

=============================================================================
