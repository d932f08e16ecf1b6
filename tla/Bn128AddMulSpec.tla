-------------------------- MODULE Bn128AddMulSpec --------------------------
(***************************************************************************)
(* What ECADD (0x06) and ECMUL (0x07) promise (EIP-196, spec sections      *)
(* 4.1-4.3, 7 and 8): one call is one atomic step from (op, fork, input,  *)
(* gas) to its outcome.  The outcome is stated on the group: a point is   *)
(* named by its discrete log, the result is the multiple of the generator *)
(* whose log is the sum (ECADD) or the product with the scalar (ECMUL),    *)
(* and the identity is encoded as zeros in both directions.                *)
(***************************************************************************)
EXTENDS Integers, Sequences, Bn128Gas, Bn128Curve

CONSTANTS PointInputs, PointGases

VARIABLES pc, call, result

vars == <<pc, call, result>>

NoError == "none"
MkResult(status, out, err) == [status |-> status, out |-> out, err |-> err]
Returned(out) == MkResult("Returned", out, NoError)
Failed(err) == MkResult("Error", <<0, 0>>, err)
NoResult == MkResult("none", <<0, 0>>, NoError)
NoCall == [op |-> "Add", fork |-> "Byzantium",
           input |-> [len |-> 0, lanes |-> <<>>], gas |-> 0]

(* Lane k of the input right-padded with zeros (spec 4.1, property 8.6).  *)
SpecLane(in, k) == IF k <= Len(in.lanes) THEN in.lanes[k] ELSE 0

(* The error of decoding the G1 point (x, y) (spec 4.1 steps 1-4).        *)
SpecPointError(x, y) ==
    IF ~FqInterpretOk(x) THEN "InvalidX"
    ELSE IF ~FqInterpretOk(y) THEN "InvalidY"
    ELSE IF <<x, y>> # <<0, 0>> /\ ~OnCurveG1(x, y) THEN "InvalidCurvePoint"
    ELSE NoError

(* The discrete log of a decoded point, the identity (0, 0) having log 0, *)
(* and the 64-byte encoding of the point of log k.                         *)
Log(x, y) == IF <<x, y>> = <<0, 0>> THEN 0 ELSE DlogG1(<<x, y>>)
Enc(k) == IF k = 0 THEN <<0, 0>> ELSE G1Multiples[k]

(* ECADD: gas first (spec 4.1, property 8.4), then P1, then P2.           *)
SpecAddResult(f, in, g) ==
    LET e1 == SpecPointError(SpecLane(in, 1), SpecLane(in, 2))
        e2 == SpecPointError(SpecLane(in, 3), SpecLane(in, 4))
    IN  IF AddRequiredGas(f) > g THEN Failed("OutOfGas")
        ELSE IF e1 # NoError THEN Failed(e1)
        ELSE IF e2 # NoError THEN Failed(e2)
        ELSE Returned(Enc((Log(SpecLane(in, 1), SpecLane(in, 2))
                           + Log(SpecLane(in, 3), SpecLane(in, 4))) % FrR))

(* ECMUL: gas first, then P, then the scalar, rejected when >= r and      *)
(* never reduced (spec 4.3).                                               *)
SpecMulResult(f, in, g) ==
    LET e == SpecPointError(SpecLane(in, 1), SpecLane(in, 2))
        k == SpecLane(in, 3)
    IN  IF MulRequiredGas(f) > g THEN Failed("OutOfGas")
        ELSE IF e # NoError THEN Failed(e)
        ELSE IF k >= FrR THEN Failed("InvalidFieldElement")
        ELSE Returned(Enc((Log(SpecLane(in, 1), SpecLane(in, 2)) * k) % FrR))

Init ==
    /\ pc = "idle"
    /\ call = NoCall
    /\ result = NoResult

Call(op, f, in, g) ==
    /\ pc = "idle"
    /\ call' = [op |-> op, fork |-> f, input |-> in, gas |-> g]
    /\ result' = IF op = "Add" THEN SpecAddResult(f, in, g) ELSE SpecMulResult(f, in, g)
    /\ pc' = "done"

Return ==
    /\ pc = "done"
    /\ pc' = "idle"
    /\ call' = NoCall
    /\ result' = NoResult

Next ==
    \/ \E op \in {"Add", "Mul"}, f \in Forks, in \in PointInputs, g \in PointGases :
          Call(op, f, in, g)
    \/ Return

Spec == Init /\ [][Next]_vars

=============================================================================
