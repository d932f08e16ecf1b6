------------------------- MODULE Bn128AddMulProofs -------------------------
(***************************************************************************)
(* Proofs about the ECADD/ECMUL model Bn128AddMul, for every value of the  *)
(* constants that satisfies their assumptions.                             *)
(***************************************************************************)
EXTENDS Bn128AddMul, TLAPS

(* The specification decodes with the same curve and result records as    *)
(* the code: the operators of the instance Abs that name them are theirs.  *)
LEMMA SpecSharesCurve ==
    /\ \A x, y : Abs!OnCurveG1(x, y) = OnCurveG1(x, y)
    /\ \A w : Abs!FqInterpretOk(w) = FqInterpretOk(w)
    /\ \A r : Abs!Failed(r) = Failed(r)
    /\ \A o : Abs!Returned(o).status = "Returned"
    /\ \A o : Returned(o).status = "Returned"
    /\ \A f : Abs!AddRequiredGas(f) = AddRequiredGas(f)
    /\ \A f : Abs!MulRequiredGas(f) = MulRequiredGas(f)
    /\ Abs!NoError = NoError
BY DEF Abs!OnCurveG1, OnCurveG1, Abs!FqInterpretOk, FqInterpretOk,
       Abs!Failed, Failed, Abs!Returned, Returned, Abs!MkResult, MkResult,
       Abs!NoError, NoError, Abs!AddRequiredGas, AddRequiredGas,
       Abs!MulRequiredGas, MulRequiredGas, Abs!Costs, Costs

(* input.to_vec().resize(128, 0) gives, lane by lane, the zero-padded     *)
(* input of the specification, a number in every lane.                     *)
LEMMA ResizeLane ==
    ASSUME NEW in \in PointInputs, NEW n \in Nat, NEW k \in 1 .. n
    PROVE  /\ Resize(in.lanes, n)[k] = Abs!SpecLane(in, k)
           /\ Resize(in.lanes, n)[k] \in Nat
<1>1. in.lanes \in Seq(Nat)  BY PointInputsAssumption
<1>2. QED  BY <1>1 DEF Resize, Abs!SpecLane

(* read_point rejects a pair (x, y) with the error EIP-196 names: x out of *)
(* range first, then y, then a pair other than (0, 0) off the curve.      *)
LEMMA ReadPointIsSpec ==
    ASSUME NEW lanes, NEW lane
    PROVE  ReadPoint(lanes, lane).err
             = Abs!SpecPointError(lanes[lane + 1], lanes[lane + 2])
BY SpecSharesCurve DEF ReadPoint, Abs!SpecPointError

(* The lanes run_inner reads, as the specification reads them.             *)
LEMMA InputLanes ==
    ASSUME NEW in \in PointInputs
    PROVE  /\ ADD_INPUT_LEN \div 32 = 4 /\ MUL_INPUT_LEN \div 32 = 4
           /\ \A k \in 1 .. 4 : Resize(in.lanes, 4)[k] = Abs!SpecLane(in, k)
           /\ Resize(in.lanes, 4)[3] \in Nat
<1>1. ADD_INPUT_LEN \div 32 = 4 /\ MUL_INPUT_LEN \div 32 = 4
  BY DEF ADD_INPUT_LEN, MUL_INPUT_LEN
<1>2. QED  BY <1>1, ResizeLane

(* ECADD ends with the specified status, and fails as specified.          *)
LEMMA AddEndsAsSpecified ==
    ASSUME NEW f, NEW in \in PointInputs, NEW g
    PROVE  /\ AddResult(f, in, g).status = Abs!SpecAddResult(f, in, g).status
           /\ AddResult(f, in, g).status = "Error" =>
                AddResult(f, in, g) = Abs!SpecAddResult(f, in, g)
<1>1. ReadPoint(Resize(in.lanes, 4), 0).err
        = Abs!SpecPointError(Abs!SpecLane(in, 1), Abs!SpecLane(in, 2))
  BY InputLanes, ReadPointIsSpec
<1>2. ReadPoint(Resize(in.lanes, 4), 2).err
        = Abs!SpecPointError(Abs!SpecLane(in, 3), Abs!SpecLane(in, 4))
  BY InputLanes, ReadPointIsSpec
<1>3. QED
  BY <1>1, <1>2, InputLanes, SpecSharesCurve DEF AddResult, Abs!SpecAddResult

(* ECMUL ends with the specified status, and fails as specified: the      *)
(* scalar is rejected exactly when it is at least r.                       *)
LEMMA MulEndsAsSpecified ==
    ASSUME NEW f, NEW in \in PointInputs, NEW g
    PROVE  /\ MulResult(f, in, g).status = Abs!SpecMulResult(f, in, g).status
           /\ MulResult(f, in, g).status = "Error" =>
                MulResult(f, in, g) = Abs!SpecMulResult(f, in, g)
<1>1. ReadPoint(Resize(in.lanes, 4), 0).err
        = Abs!SpecPointError(Abs!SpecLane(in, 1), Abs!SpecLane(in, 2))
  BY InputLanes, ReadPointIsSpec
<1>2. ~FrInterpretOk(Resize(in.lanes, 4)[3]) <=> Abs!SpecLane(in, 3) >= FrR
  BY InputLanes, CurveAssumption DEF FrInterpretOk
<1>3. QED
  BY <1>1, <1>2, InputLanes, SpecSharesCurve DEF MulResult, Abs!SpecMulResult

(* Every step that ends a call ends it as specified.                      *)
LEMMA EndsAsSpecifiedStep == [Next]_vars => [CallEndsAsSpecified]_vars
<1> SUFFICES ASSUME [Next]_vars PROVE CallEndsAsSpecified
  OBVIOUS
<1> SUFFICES ASSUME pc # "done", pc' = "done" PROVE CallEndsAsSpecified
  BY DEF CallEndsAsSpecified
<1>1. ASSUME NEW f \in Forks, NEW in \in PointInputs, NEW g \in PointGases,
             AddCall(f, in, g)
      PROVE  CallEndsAsSpecified
  BY <1>1, AddEndsAsSpecified DEF AddCall, CallEndsAsSpecified
<1>2. ASSUME NEW f \in Forks, NEW in \in PointInputs, NEW g \in PointGases,
             MulCall(f, in, g)
      PROVE  CallEndsAsSpecified
  BY <1>2, MulEndsAsSpecified DEF MulCall, CallEndsAsSpecified
<1>3. CASE Return  BY <1>3 DEF Return
<1>4. CASE UNCHANGED vars  BY <1>4 DEF vars
<1>5. QED  BY <1>1, <1>2, <1>3, <1>4 DEF Next

(* Every ECADD and ECMUL call ends as EIP-196 prescribes                   *)
(* (AddMulEndsAsSpecified), for every curve, input set and gas set: with   *)
(* the specified status, and when it fails, with the specified error.     *)
THEOREM OutcomeAsSpecified == Spec => AddMulEndsAsSpecified
BY EndsAsSpecifiedStep, PTL DEF Spec, AddMulEndsAsSpecified

=============================================================================
