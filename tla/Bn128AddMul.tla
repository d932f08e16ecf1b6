---------------------------- MODULE Bn128AddMul ----------------------------
(***************************************************************************)
(* The ECADD (0x06) and ECMUL (0x07) precompiles of bn128.rs: read_point,  *)
(* BN128Add<HF>::run / run_inner and BN128Mul<HF>::run / run_inner.  Each  *)
(* call runs to completion without suspension, so it is one step; a host  *)
(* makes a call and takes its outcome back.                                *)
(***************************************************************************)
EXTENDS Integers, Sequences, Bn128Gas, Bn128Curve

CONSTANTS
    PointInputs,   \* the inputs the host may pass: [len, lanes]
    PointGases     \* the gas limits the host may pass

ASSUME PointInputsAssumption ==
    \A in \in PointInputs :
        /\ in.len \in Nat
        /\ in.lanes \in Seq(Nat)
        /\ Len(in.lanes) = (in.len + 31) \div 32

ASSUME PointGasesAssumption == PointGases \subseteq Nat

VARIABLES
    pc,       \* "idle" or "done"
    call,     \* the current call: op ("Add" or "Mul"), fork, input, gas
    result    \* its outcome

vars == <<pc, call, result>>

NoError == "none"
MkResult(status, out, err) == [status |-> status, out |-> out, err |-> err]
Returned(out) == MkResult("Returned", out, NoError)
Failed(err) == MkResult("Error", <<0, 0>>, err)
NoResult == MkResult("none", <<0, 0>>, NoError)
NoCall == [op |-> "Add", fork |-> "Byzantium",
           input |-> [len |-> 0, lanes |-> <<>>], gas |-> 0]

(* input.to_vec() followed by resize(n, 0), in lanes: missing lanes are    *)
(* zero, lanes past the n bytes are dropped.                               *)
Resize(lanes, n) == [k \in 1 .. n |-> IF k <= Len(lanes) THEN lanes[k] ELSE 0]

(* read_point(input, pos) with pos = 32 * lane: the point, or the error    *)
(* of the first check that fails.                                          *)
ReadPoint(lanes, lane) ==
    LET px == lanes[lane + 1]
        py == lanes[lane + 2]
    IN  IF ~FqInterpretOk(px) THEN [err |-> "InvalidX", pt |-> G1Zero]
        ELSE IF ~FqInterpretOk(py) THEN [err |-> "InvalidY", pt |-> G1Zero]
        ELSE IF px = 0 /\ py = 0 THEN [err |-> NoError, pt |-> G1Zero]
        ELSE IF ~OnCurveG1(px, py) THEN [err |-> "InvalidCurvePoint", pt |-> G1Zero]
        ELSE [err |-> NoError, pt |-> <<px, py>>]

(* The 64-byte output: AffineG1::from_jacobian is None for the identity,   *)
(* leaving the buffer zero; otherwise x then y, 32 bytes each.            *)
(* Mutation of EncodeG1: the Jacobian identity copied out unconverted.    *)
EncodeG1Raw(P) == P

EncodeG1(P) == IF P = G1Zero THEN <<0, 0>> ELSE <<P[1], P[2]>>

(* BN128Add<HF>::run: the gas gate, then run_inner.                       *)
AddResult(f, in, g) ==
    LET lanes == Resize(in.lanes, ADD_INPUT_LEN \div 32)
        p1 == ReadPoint(lanes, 0)
        p2 == ReadPoint(lanes, 2)
    IN  IF AddRequiredGas(f) > g THEN Failed("OutOfGas")
        ELSE IF p1.err # NoError THEN Failed(p1.err)
        ELSE IF p2.err # NoError THEN Failed(p2.err)
        ELSE Returned(EncodeG1(G1Add(p1.pt, p2.pt)))

(* BN128Mul<HF>::run: the gas gate, then run_inner; the scalar is lane 3, *)
(* bytes 64..96, read by Fr::interpret.                                    *)
(* Mutation of MulResult: the scalar read with the Fq range check, so     *)
(* scalars in r..p-1 are silently reduced instead of rejected.            *)
MulResultFqScalar(f, in, g) ==
    LET lanes == Resize(in.lanes, MUL_INPUT_LEN \div 32)
        p == ReadPoint(lanes, 0)
    IN  IF MulRequiredGas(f) > g THEN Failed("OutOfGas")
        ELSE IF p.err # NoError THEN Failed(p.err)
        ELSE IF ~FqInterpretOk(lanes[3]) THEN Failed("InvalidFieldElement")
        ELSE Returned(EncodeG1(G1Mul(p.pt, lanes[3])))

MulResult(f, in, g) ==
    LET lanes == Resize(in.lanes, MUL_INPUT_LEN \div 32)
        p == ReadPoint(lanes, 0)
    IN  IF MulRequiredGas(f) > g THEN Failed("OutOfGas")
        ELSE IF p.err # NoError THEN Failed(p.err)
        ELSE IF ~FrInterpretOk(lanes[3]) THEN Failed("InvalidFieldElement")
        ELSE Returned(EncodeG1(G1Mul(p.pt, lanes[3])))

Init ==
    /\ pc = "idle"
    /\ call = NoCall
    /\ result = NoResult

AddCall(f, in, g) ==
    /\ pc = "idle"
    /\ call' = [op |-> "Add", fork |-> f, input |-> in, gas |-> g]
    /\ result' = AddResult(f, in, g)
    /\ pc' = "done"

MulCall(f, in, g) ==
    /\ pc = "idle"
    /\ call' = [op |-> "Mul", fork |-> f, input |-> in, gas |-> g]
    /\ result' = MulResult(f, in, g)
    /\ pc' = "done"

Return ==
    /\ pc = "done"
    /\ pc' = "idle"
    /\ call' = NoCall
    /\ result' = NoResult

Next ==
    \/ \E f \in Forks, in \in PointInputs, g \in PointGases :
          AddCall(f, in, g) \/ MulCall(f, in, g)
    \/ Return

Spec == Init /\ [][Next]_vars

-----------------------------------------------------------------------------

Ops == {"Add", "Mul"}
Calls == [op : Ops, fork : Forks, input : PointInputs, gas : PointGases]
ErrorKinds == {"OutOfGas", "InvalidX", "InvalidY", "InvalidCurvePoint",
               "InvalidFieldElement"}

TypeOK ==
    /\ pc \in {"idle", "done"}
    /\ call \in Calls \cup {NoCall}
    /\ result \in [status : {"none", "Returned", "Error"}, out : Fq \X Fq,
                    err : ErrorKinds \cup {NoError}]

(* Refinement of EIP-196 (spec 4.1-4.3, 7, 8.4-8.6): every ECADD/ECMUL   *)
(* call ends as the specification says: OutOfGas whenever the gas is      *)
(* short, whatever the input; else the first decoding error, the points   *)
(* before the scalar; else the encoding of the group sum or of the        *)
(* product with a scalar below r, read from the zero-padded input with    *)
(* (0, 0) as the identity and the identity written as zeros.  The mapping  *)
(* is the identity: a call is one step in the code as in the spec.        *)
Abs == INSTANCE Bn128AddMulSpec

AddMulSpecRefined == Abs!Spec

(* The part of the refinement that does not depend on group arithmetic:    *)
(* each ECADD or ECMUL call ends with the status EIP-196 prescribes, and  *)
(* when it fails, with exactly the prescribed error: OutOfGas whatever the *)
(* input, then the error of P1 before P2 (ECADD) or of P before the        *)
(* scalar (ECMUL), read from the zero-padded input with the y lane checked *)
(* only once x is in range and (0, 0) accepted without the curve check.   *)
CallEndsAsSpecified ==
    (pc # "done" /\ pc' = "done") =>
        LET s == IF call'.op = "Add"
                 THEN Abs!SpecAddResult(call'.fork, call'.input, call'.gas)
                 ELSE Abs!SpecMulResult(call'.fork, call'.input, call'.gas)
        IN  /\ result'.status = s.status
            /\ result'.status = "Error" => result' = s

AddMulEndsAsSpecified == [][CallEndsAsSpecified]_vars

=============================================================================
