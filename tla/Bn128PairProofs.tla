-------------------------- MODULE Bn128PairProofs --------------------------
(***************************************************************************)
(* Proofs about the ECPAIRING model Bn128Pair, for every value of the      *)
(* constants that satisfies their assumptions.                             *)
(***************************************************************************)
EXTENDS Bn128Pair, SequenceTheorems, TLAPS

(* The least element of a non-empty set of lane positions is one of them.  *)
LEMMA MinOfLanes ==
    ASSUME NEW S \in SUBSET (1 .. 6), S # {}
    PROVE  /\ Min(S) \in S
           /\ \A j \in S : Min(S) <= j
<1>1. \E m \in S : \A j \in S : m <= j
  <2>1. PICK x \in S : TRUE  OBVIOUS
  <2>2. x \in 1 .. 6  OBVIOUS
  <2>3. CASE 1 \in S  BY <2>3
  <2>4. CASE 1 \notin S /\ 2 \in S  BY <2>4
  <2>5. CASE 1 \notin S /\ 2 \notin S /\ 3 \in S  BY <2>5
  <2>6. CASE 1 \notin S /\ 2 \notin S /\ 3 \notin S /\ 4 \in S  BY <2>6
  <2>7. CASE 1 \notin S /\ 2 \notin S /\ 3 \notin S /\ 4 \notin S /\ 5 \in S
    BY <2>7
  <2>8. CASE 1 \notin S /\ 2 \notin S /\ 3 \notin S /\ 4 \notin S /\ 5 \notin S
    <3>1. x = 6  BY <2>2, <2>8
    <3>2. QED  BY <3>1, <2>8
  <2>9. QED  BY <2>3, <2>4, <2>5, <2>6, <2>7, <2>8
<1>2. QED  BY <1>1 DEF Min

(* Decoding an element reports one of the error kinds, or NoError, and     *)
(* NoError only when all six lanes are in range.                          *)
LEMMA ElementErrorType ==
    ASSUME NEW e
    PROVE  /\ ElementError(e) \in ErrorKinds \cup {NoError}
           /\ ElementError(e) = NoError => \A k \in 1 .. 6 : FqInterpretOk(e[k])
<1> DEFINE bad == {k \in 1 .. 6 : ~FqInterpretOk(e[k])}
<1>1. CASE bad # {}
  <2>1. Min(bad) \in 1 .. 6  BY <1>1, MinOfLanes
  <2>2. \A m \in 1 .. 6 : LaneError[m] \in {"AX", "AY"}
    <3> SUFFICES ASSUME NEW m \in 1 .. 6 PROVE LaneError[m] \in {"AX", "AY"}
      OBVIOUS
    <3>1. m \in {1, 2, 3, 4, 5, 6}  OBVIOUS
    <3>2. QED  BY <3>1 DEF LaneError
  <2>3. ElementError(e) = LaneError[Min(bad)]  BY <1>1 DEF ElementError
  <2>4. QED  BY <2>1, <2>2, <2>3 DEF ErrorKinds, NoError
<1>2. CASE bad = {}
  BY <1>2 DEF ElementError, ErrorKinds, NoError
<1>3. QED  BY <1>1, <1>2

(* The lanes of an element the loop decodes lie inside the input.          *)
LEMMA ElementInInput ==
    ASSUME NEW in, in.len \in Nat, in.lanes \in Seq(Nat),
           Len(in.lanes) = (in.len + 31) \div 32,
           NEW i \in Nat, i < Elements(in)
    PROVE  \A k \in 1 .. 6 : Element(in, i)[k] \in Nat
<1>1. 6 * i + 6 <= Len(in.lanes)
  <2>1. i + 1 <= in.len \div 192  BY DEF Elements, PAIR_ELEMENT_LEN
  <2>2. 192 * (in.len \div 192) <= in.len
    BY Z3
  <2>3. 192 * (i + 1) <= 192 * (in.len \div 192)  BY <2>1
  <2>4. 192 * (i + 1) <= in.len  BY <2>2, <2>3
  <2>5. 32 * (6 * i + 6) <= in.len + 31  BY <2>4
  <2>6. (in.len + 31) \div 32 >= 6 * i + 6  BY <2>5, Z3
  <2>7. QED  BY <2>6
<1>2. \A j \in 1 .. Len(in.lanes) : in.lanes[j] \in Nat  OBVIOUS
<1>3. ASSUME NEW k \in 1 .. 6 PROVE Element(in, i)[k] \in Nat
  <2>1. 6 * i + k \in 1 .. Len(in.lanes)  BY <1>1
  <2>2. Element(in, i)[k] = in.lanes[6 * i + k]  BY DEF Element
  <2>3. QED  BY <1>2, <2>1, <2>2
<1>4. QED  BY <1>3

(* A valid element decodes to a G1 point and a G2 point.                   *)
LEMMA DecodeElementType ==
    ASSUME NEW e, \A k \in 1 .. 6 : e[k] \in Nat,
           ElementError(e) = NoError
    PROVE  DecodeElement(e) \in ((Fq \X Fq) \cup {G1Zero})
                                \X (((Fq \X Fq) \X (Fq \X Fq)) \cup {G2Zero})
<1>1. \A k \in 1 .. 6 : e[k] \in Fq
  BY ElementErrorType, CurveAssumption DEF FqInterpretOk, Fq
<1>2. DecodeA(e) \in (Fq \X Fq) \cup {G1Zero}  BY <1>1 DEF DecodeA, ElemA
<1>3. DecodeB(e) \in ((Fq \X Fq) \X (Fq \X Fq)) \cup {G2Zero}
  BY <1>1 DEF DecodeB, ElemB
<1>4. QED  BY <1>2, <1>3 DEF DecodeElement

(* The input of the current call, also when no call is made, is a         *)
(* well-formed input.                                                      *)
LEMMA CallInputWellFormed ==
    ASSUME NEW c \in Calls \cup {NoCall}
    PROVE  /\ c.input.len \in Nat
           /\ c.input.lanes \in Seq(Nat)
           /\ Len(c.input.lanes) = (c.input.len + 31) \div 32
<1>1. CASE c = NoCall
  <2>1. c.input = [len |-> 0, lanes |-> << >>]  BY <1>1 DEF NoCall
  <2>2. << >> \in Seq(Nat)  OBVIOUS
  <2>3. (0 + 31) \div 32 = 0  BY Z3
  <2>4. QED  BY <2>1, <2>2, <2>3
<1>2. CASE c \in Calls  BY <1>2, PairInputsAssumption DEF Calls
<1>3. QED  BY <1>1, <1>2

(* Every step of the ECPAIRING run keeps the variables in their types.    *)
LEMMA TypeOKStep == TypeOK /\ [Next]_vars => TypeOK'
<1>2. TypeOK /\ [Next]_vars => TypeOK'
  <2> SUFFICES ASSUME TypeOK, [Next]_vars PROVE TypeOK'
    OBVIOUS
  <2>1. ASSUME NEW f \in Forks, NEW in \in PairInputs, NEW g \in Gases,
               Call(f, in, g)
        PROVE  TypeOK'
    <3>1. Prologue(f, in, g) \in Results
      BY DEF Prologue, Failed, Returned, NoResult, MkResult, Results,
             ErrorKinds, NoError
    <3>2. QED  BY <2>1, <3>1 DEF Call, TypeOK, Calls
  <2>2. CASE PairElementOk
    <3>1. idx < Elements(call.input)  BY <2>2 DEF PairElementOk
    <3>2. \A k \in 1 .. 6 : CurElement[k] \in Nat
      BY <3>1, CallInputWellFormed, ElementInInput DEF TypeOK, CurElement
    <3>3. DecodeElement(CurElement)
            \in ((Fq \X Fq) \cup {G1Zero})
               \X (((Fq \X Fq) \X (Fq \X Fq)) \cup {G2Zero})
      BY <2>2, <3>2, DecodeElementType DEF PairElementOk
    <3>4. QED  BY <2>2, <3>3 DEF PairElementOk, TypeOK
  <2>3. CASE PairElementFail
    <3>1. ElementError(CurElement) \in ErrorKinds
      BY <2>3, ElementErrorType DEF PairElementFail
    <3>2. QED  BY <2>3, <3>1 DEF PairElementFail, TypeOK, Failed, MkResult,
                                 Results
  <2>4. CASE PairFold
    BY <2>4 DEF PairFold, TypeOK, Returned, MkResult, Results, NoError
  <2>5. CASE Return
    BY <2>5 DEF Return, TypeOK, NoCall, NoResult, MkResult, Results, NoError
  <2>6. CASE UNCHANGED vars
    BY <2>6 DEF vars, TypeOK
  <2>7. QED  BY <2>1, <2>2, <2>3, <2>4, <2>5, <2>6 DEF Next
<1>3. QED  BY <1>2

(* Type correctness of the ECPAIRING run: every reachable state has its    *)
(* variables in their types (TypeOK), in particular every pair pushed on  *)
(* vals by the decoding loop is a G1 point and a G2 point.                 *)
THEOREM TypeCorrect == Spec => []TypeOK
<1>1. Init => TypeOK
  BY DEF Init, TypeOK, NoCall, Calls, NoResult, MkResult, Results, NoError
<1>2. QED  BY <1>1, TypeOKStep, PTL DEF Spec


-----------------------------------------------------------------------------
(* The loop invariant.  PairLoopInv alone is not inductive: a Call starts *)
(* the loop with the idx and vals it finds, so the idle state must have    *)
(* them reset, which Return does.  The refinement needs more of the same:  *)
(* an idle run holds no call and no result, and a running loop holds the   *)
(* call it was entered with and no result yet.                             *)
IdleReset ==
    pc = "idle" => idx = 0 /\ vals = << >> /\ call = NoCall /\ result = NoResult

LoopPending == pc = "loop" => call \in Calls /\ result = NoResult

IInv == TypeOK /\ PairLoopInv /\ IdleReset /\ LoopPending

(* The decodings of the first n elements, as the loop pushes them.        *)
Decoded(in, n) == [i \in 1 .. n |-> DecodeElement(Element(in, i - 1))]

(* Pushing the decoding of element n extends the decodings of the first  *)
(* n elements to the first n + 1.                                          *)
LEMMA AppendDecoded ==
    ASSUME NEW in, NEW n \in Nat
    PROVE  Append(Decoded(in, n), DecodeElement(Element(in, n))) = Decoded(in, n + 1)
<1> DEFINE T == {DecodeElement(Element(in, i)) : i \in Nat}
           s == Decoded(in, n)
           x == DecodeElement(Element(in, n))
           t == Decoded(in, n + 1)
<1>1. s \in Seq(T) /\ Len(s) = n
  <2>1. s \in [1 .. n -> T]  BY DEF Decoded
  <2>2. QED  BY <2>1
<1>2. t \in Seq(T) /\ Len(t) = n + 1
  <2>1. t \in [1 .. n + 1 -> T]  BY DEF Decoded
  <2>2. QED  BY <2>1
<1>3. x \in T  OBVIOUS
<1>4. /\ Append(s, x) \in Seq(T)
      /\ Len(Append(s, x)) = n + 1
      /\ \A i \in 1 .. n : Append(s, x)[i] = s[i]
      /\ Append(s, x)[n + 1] = x
  BY <1>1, <1>3, AppendProperties
<1>5. \A i \in 1 .. n + 1 : Append(s, x)[i] = t[i]
  <2> SUFFICES ASSUME NEW i \in 1 .. n + 1 PROVE Append(s, x)[i] = t[i]
    OBVIOUS
  <2>1. CASE i \in 1 .. n
    <3>1. Append(s, x)[i] = s[i]  BY <1>4, <2>1
    <3>2. s[i] = t[i]  BY <2>1 DEF Decoded
    <3>3. QED  BY <3>1, <3>2
  <2>2. CASE i = n + 1
    <3>1. Append(s, x)[i] = x  BY <1>4, <2>2
    <3>2. t[i] = DecodeElement(Element(in, i - 1))  BY DEF Decoded
    <3>3. i - 1 = n  BY <2>2
    <3>4. QED  BY <3>1, <3>2, <3>3
  <2>3. i \in 1 .. n \/ i = n + 1  OBVIOUS
  <2>4. QED  BY <2>1, <2>2, <2>3, Zenon
<1>6. QED  BY <1>2, <1>4, <1>5, SeqEqual

(* Init establishes the strengthened invariant.                           *)
LEMMA IInvInit == Init => IInv
BY TypeCorrect DEF Init, IInv, TypeOK, NoCall, Calls, NoResult, MkResult, Results,
   NoError, PairLoopInv, IdleReset, LoopPending

(* Every step keeps it.                                                    *)
LEMMA IInvStep == IInv /\ [Next]_vars => IInv'
<1> SUFFICES ASSUME IInv, [Next]_vars PROVE IInv'
  OBVIOUS
<1>1. TypeOK'  BY TypeOKStep DEF IInv
<1>2. call.input.len \in Nat /\ Elements(call.input) \in Nat
  BY CallInputWellFormed DEF IInv, TypeOK, Elements, PAIR_ELEMENT_LEN
<1> SUFFICES (PairLoopInv /\ IdleReset /\ LoopPending)'  BY <1>1 DEF IInv
<1>3. ASSUME NEW f \in Forks, NEW in \in PairInputs, NEW g \in Gases,
             Call(f, in, g)
      PROVE  (PairLoopInv /\ IdleReset /\ LoopPending)'
  <2>1. idx = 0 /\ vals = << >>  BY <1>3 DEF Call, IInv, IdleReset
  <2>2. Elements(in) \in Nat
    BY PairInputsAssumption DEF Elements, PAIR_ELEMENT_LEN
  <2>3. << >> = Decoded(in, 0)  BY DEF Decoded
  <2>4. QED  BY <1>3, <2>1, <2>2, <2>3 DEF Call, PairLoopInv, IdleReset, LoopPending,
                                          Decoded, Calls
<1>4. CASE PairElementOk
  <2>1. /\ pc = "loop" /\ idx < Elements(call.input)
        /\ ElementError(Element(call.input, idx)) = NoError
        /\ vals' = Append(vals, DecodeElement(Element(call.input, idx)))
        /\ idx' = idx + 1 /\ pc' = "loop" /\ call' = call
    BY <1>4 DEF PairElementOk, CurElement
  <2>2. /\ Prologue(call.fork, call.input, call.gas) = NoResult
        /\ idx \in 0 .. Elements(call.input)
        /\ vals = Decoded(call.input, idx)
        /\ \A i \in 0 .. idx - 1 : ElementError(Element(call.input, i)) = NoError
    BY <2>1 DEF IInv, PairLoopInv, Decoded
  <2>3. idx' \in 0 .. Elements(call.input)'  BY <1>2, <2>1, <2>2
  <2>4. vals' = Decoded(call.input, idx + 1)
    <3>1. idx \in Nat  BY <1>2, <2>2
    <3>2. Append(Decoded(call.input, idx), DecodeElement(Element(call.input, idx)))
            = Decoded(call.input, idx + 1)
      BY <3>1, AppendDecoded
    <3>3. QED  BY <2>1, <2>2, <3>2
  <2>5. \A i \in 0 .. idx : ElementError(Element(call.input, i)) = NoError
    BY <2>1, <2>2
  <2>6. LoopPending'  BY <1>4, <2>1 DEF PairElementOk, IInv, LoopPending
  <2>7. QED  BY <2>1, <2>2, <2>3, <2>4, <2>5, <2>6 DEF PairLoopInv, IdleReset, Decoded
<1>5. CASE PairElementFail  BY <1>5 DEF PairElementFail, PairLoopInv, IdleReset, LoopPending
<1>6. CASE PairFold  BY <1>6 DEF PairFold, PairLoopInv, IdleReset, LoopPending
<1>7. CASE Return  BY <1>7 DEF Return, PairLoopInv, IdleReset, LoopPending
<1>8. CASE UNCHANGED vars  BY <1>8 DEF vars, IInv, PairLoopInv, IdleReset, LoopPending
<1>9. QED  BY <1>3, <1>4, <1>5, <1>6, <1>7, <1>8 DEF Next

(* Loop invariant of run_inner (PairLoopInv) for every curve and input   *)
(* set: while the loop runs, the call passed the gas gate and the framing *)
(* check, and vals holds the decodings of exactly the elements before idx, *)
(* all valid, in input order.                                              *)
THEOREM LoopInvariant == Spec => []PairLoopInv
<1>1. IInv => PairLoopInv  BY DEF IInv
<1>2. QED  BY <1>1, IInvInit, IInvStep, PTL DEF Spec

-----------------------------------------------------------------------------
(* How calls end.  The loop reports the error of the element at idx; the   *)
(* specification reports the error of the least invalid element.          *)

(* An element of a set of numbers below or equal to all of them is its Min. *)
LEMMA MinIsLeast ==
    ASSUME NEW S \in SUBSET Int, NEW m \in S, \A y \in S : m <= y
    PROVE  Min(S) = m
<1>1. \E x \in S : \A y \in S : x <= y  OBVIOUS
<1>2. Min(S) \in S /\ \A y \in S : Min(S) <= y  BY <1>1 DEF Min
<1>3. Min(S) <= m /\ m <= Min(S)  BY <1>2
<1>4. Min(S) \in Int /\ m \in Int  BY <1>2
<1>5. QED  BY <1>3, <1>4, Z3

(* The specification is stated over the same codec as the code: the       *)
(* operators of the instance Abs that it shares with Bn128Pair are theirs. *)
LEMMA SpecSharesCodec ==
    /\ \A x, y : Abs!OnCurveG1(x, y) = OnCurveG1(x, y)
    /\ \A a, b : Abs!IsG2(a, b) = IsG2(a, b)
    /\ \A w : Abs!FqInterpretOk(w) = FqInterpretOk(w)
    /\ \A r : Abs!Failed(r) = Failed(r)
    /\ \A o : Abs!Returned(o) = Returned(o)
    /\ \A f, l : Abs!PairRequiredGas(f, l) = PairRequiredGas(f, l)
    /\ \A in : Abs!Elements(in) = Elements(in)
    /\ \A in, i : Abs!Element(in, i) = Element(in, i)
    /\ \A S : Abs!Min(S) = Min(S)
    /\ Abs!G1Zero = G1Zero
    /\ Abs!G2Zero = G2Zero
    /\ Abs!NoError = NoError
    /\ Abs!PAIR_ELEMENT_LEN = PAIR_ELEMENT_LEN
    /\ Abs!NoResult = NoResult
    /\ Abs!NoCall = NoCall
    /\ Abs!Forks = Forks
BY DEF Abs!Forks, Forks, Abs!NoResult, NoResult, Abs!NoCall, NoCall, Abs!OnCurveG1, OnCurveG1, Abs!IsG2, IsG2, Abs!FqInterpretOk, FqInterpretOk,
       Abs!Failed, Failed, Abs!Returned, Returned, Abs!MkResult, MkResult,
       Abs!NoError, NoError, Abs!PairRequiredGas, PairRequiredGas, Abs!Costs,
       Costs, Abs!PAIR_ELEMENT_LEN, PAIR_ELEMENT_LEN, Abs!Elements, Elements,
       Abs!Element, Element, Abs!Min, Min, Abs!G1Zero, G1Zero, Abs!G2Zero, G2Zero

(* The decoder of run_inner and the element rule of EIP-197 reject the same *)
(* elements with the same error: the first out-of-range lane names AY only  *)
(* when it is the G1 y lane, and an all-zero half is the identity.         *)
LEMMA ElementErrorIsSpec ==
    ASSUME NEW e
    PROVE  ElementError(e) = Abs!SpecElementError(e)
<1> DEFINE bad == {k \in 1 .. 6 : ~FqInterpretOk(e[k])}
<1>1. CASE bad # {}
  <2>1. Min(bad) \in 1 .. 6  BY <1>1, MinOfLanes
  <2>2. \A m \in 1 .. 6 : LaneError[m] = IF m = 2 THEN "AY" ELSE "AX"
    <3> SUFFICES ASSUME NEW m \in 1 .. 6
                 PROVE  LaneError[m] = IF m = 2 THEN "AY" ELSE "AX"
      OBVIOUS
    <3>1. m \in {1, 2, 3, 4, 5, 6}  OBVIOUS
    <3>2. QED  BY <3>1 DEF LaneError
  <2>3. ElementError(e) = LaneError[Min(bad)]  BY <1>1 DEF ElementError
  <2>4. Abs!SpecElementError(e) = IF Min(bad) = 2 THEN "AY" ELSE "AX"
    BY <1>1, SpecSharesCodec DEF Abs!SpecElementError
  <2>5. QED  BY <2>1, <2>2, <2>3, <2>4
<1>2. CASE bad = {}
  <2>1. (ElemA(e) # ZeroA) <=> (Abs!SpecA(e) # G1Zero)
    BY SpecSharesCodec DEF ElemA, ZeroA, Abs!SpecA, G1Zero
  <2>2. (\A k \in 3 .. 6 : e[k] = 0) <=> e[3] = 0 /\ e[4] = 0 /\ e[5] = 0 /\ e[6] = 0
    <3>1. 3 .. 6 = {3, 4, 5, 6}  OBVIOUS
    <3>2. QED  BY <3>1, Zenon
  <2>3. (ElemB(e) # ZeroB) <=> (Abs!SpecB(e) # G2Zero)
    BY <2>2, SpecSharesCodec DEF ElemB, ZeroB, Abs!SpecB, G2Zero
  <2>4. ElemB(e) # ZeroB => Abs!SpecB(e) = ElemB(e)
    BY <2>2, SpecSharesCodec DEF ElemB, ZeroB, Abs!SpecB, G2Zero
  <2>5. ElementError(e) =
          IF ElemA(e) # ZeroA /\ ~OnCurveG1(e[1], e[2]) THEN "ANotOnCurve"
          ELSE IF ElemB(e) # ZeroB /\ ~IsG2(ElemB(e)[1], ElemB(e)[2])
               THEN "BNotOnCurve"
          ELSE NoError
    BY <1>2 DEF ElementError
  <2>6. Abs!SpecElementError(e) =
          IF Abs!SpecA(e) # G1Zero /\ ~OnCurveG1(e[1], e[2]) THEN "ANotOnCurve"
          ELSE IF Abs!SpecB(e) # G2Zero
                  /\ ~IsG2(Abs!SpecB(e)[1], Abs!SpecB(e)[2])
               THEN "BNotOnCurve"
          ELSE NoError
    <3>1. {k \in 1 .. 6 : ~Abs!FqInterpretOk(e[k])} = {}
      BY <1>2, SpecSharesCodec
    <3>2. QED  BY <3>1, SpecSharesCodec DEF Abs!SpecElementError
  <2>7. QED  BY <2>1, <2>3, <2>4, <2>5, <2>6
<1>3. QED  BY <1>1, <1>2

(* The elements EIP-197 rejects, by their index.                           *)
InvalidElements(in) ==
    {i \in 0 .. Elements(in) - 1 : Abs!SpecElementError(Element(in, i)) # NoError}

(* The specified outcome, unfolded with the shared codec.                  *)
LEMMA PairResultUnfolded ==
    ASSUME NEW f, NEW in, NEW g
    PROVE  Abs!PairResult(f, in, g) =
             IF PairRequiredGas(f, in.len) > g THEN Failed("OutOfGas")
             ELSE IF in.len % PAIR_ELEMENT_LEN # 0 THEN Failed("LenInvalid")
             ELSE IF InvalidElements(in) # {}
                  THEN Failed(Abs!SpecElementError(Element(in, Min(InvalidElements(in)))))
             ELSE Returned(IF Abs!PairingSum(in) % FrR = 0 THEN 1 ELSE 0)
BY SpecSharesCodec DEF Abs!PairResult, InvalidElements

(* A call that run answers before the loop (the gas gate, the framing     *)
(* check, the empty input) is answered as EIP-197 prescribes.             *)
LEMMA PrologueEndsAsSpecified ==
    ASSUME NEW f, NEW in, NEW g, in.len \in Nat,
           Prologue(f, in, g) # NoResult
    PROVE  /\ Prologue(f, in, g).status = Abs!PairResult(f, in, g).status
           /\ Prologue(f, in, g).status = "Error" =>
                Prologue(f, in, g) = Abs!PairResult(f, in, g)
<1>1. CASE PairRequiredGas(f, in.len) > g
  BY <1>1, PairResultUnfolded DEF Prologue
<1>2. CASE ~(PairRequiredGas(f, in.len) > g) /\ in.len % PAIR_ELEMENT_LEN # 0
  BY <1>2, PairResultUnfolded DEF Prologue
<1>3. CASE ~(PairRequiredGas(f, in.len) > g) /\ in.len % PAIR_ELEMENT_LEN = 0
           /\ in.len = 0
  <2>1. Elements(in) = 0  BY <1>3 DEF Elements, PAIR_ELEMENT_LEN
  <2>2. InvalidElements(in) = {}  BY <2>1 DEF InvalidElements
  <2>3. Prologue(f, in, g) = Returned(1)  BY <1>3 DEF Prologue
  <2>4. QED  BY <1>3, <2>2, <2>3, PairResultUnfolded DEF Returned, MkResult
<1>4. CASE ~(PairRequiredGas(f, in.len) > g) /\ in.len % PAIR_ELEMENT_LEN = 0
           /\ in.len # 0
  BY <1>4 DEF Prologue
<1>5. QED  BY <1>1, <1>2, <1>3, <1>4

(* A step that ends a call gives the status of the specified outcome for  *)
(* the call's arguments and, when it fails, exactly that outcome.         *)
CallEndsAsSpecified ==
    (pc # "done" /\ pc' = "done") =>
        /\ result'.status = Abs!PairResult(call'.fork, call'.input, call'.gas).status
        /\ result'.status = "Error" =>
             result' = Abs!PairResult(call'.fork, call'.input, call'.gas)

(* Every step that ends a call ends it as specified, in any state of the   *)
(* strengthened loop invariant.                                            *)
LEMMA EndsAsSpecifiedStep == IInv /\ [Next]_vars => [CallEndsAsSpecified]_vars
<1> SUFFICES ASSUME IInv, [Next]_vars, pc # "done", pc' = "done"
             PROVE  /\ result'.status
                         = Abs!PairResult(call'.fork, call'.input, call'.gas).status
                    /\ result'.status = "Error" =>
                         result' = Abs!PairResult(call'.fork, call'.input, call'.gas)
  BY DEF CallEndsAsSpecified
<1>1. CASE \E f \in Forks, in \in PairInputs, g \in Gases : Call(f, in, g)
  <2>1. PICK f \in Forks, in \in PairInputs, g \in Gases : Call(f, in, g)
    BY <1>1
  <2>2. Prologue(f, in, g) # NoResult  BY <2>1 DEF Call
  <2>3. in.len \in Nat  BY PairInputsAssumption
  <2>4. result' = Prologue(f, in, g) /\ call' = [fork |-> f, input |-> in, gas |-> g]
    BY <2>1 DEF Call
  <2>5. QED  BY <2>2, <2>3, <2>4, PrologueEndsAsSpecified
<1>2. CASE PairElementFail
  <2>1. /\ pc = "loop" /\ idx < Elements(call.input)
        /\ ElementError(Element(call.input, idx)) # NoError
        /\ result' = Failed(ElementError(Element(call.input, idx)))
        /\ call' = call
    BY <1>2 DEF PairElementFail, CurElement
  <2>2. /\ Prologue(call.fork, call.input, call.gas) = NoResult
        /\ idx \in 0 .. Elements(call.input)
        /\ \A i \in 0 .. idx - 1 : ElementError(Element(call.input, i)) = NoError
    BY <2>1 DEF IInv, PairLoopInv
  <2>3. /\ ~(PairRequiredGas(call.fork, call.input.len) > call.gas)
        /\ call.input.len % PAIR_ELEMENT_LEN = 0
    BY <2>2 DEF Prologue, Failed, Returned, MkResult, NoResult
  <2>4. Elements(call.input) \in Nat
    BY CallInputWellFormed DEF IInv, TypeOK, Elements, PAIR_ELEMENT_LEN
  <2>5. idx \in InvalidElements(call.input)
    BY <2>1, <2>2, <2>4, ElementErrorIsSpec DEF InvalidElements
  <2>6. \A y \in InvalidElements(call.input) : idx <= y
    <3> SUFFICES ASSUME NEW y \in InvalidElements(call.input), ~(idx <= y)
                 PROVE  FALSE
      OBVIOUS
    <3>1. y \in 0 .. idx - 1  BY <2>2, <2>4 DEF InvalidElements
    <3>2. ElementError(Element(call.input, y)) = NoError  BY <3>1, <2>2
    <3>3. QED  BY <3>2, ElementErrorIsSpec DEF InvalidElements
  <2>7. Min(InvalidElements(call.input)) = idx
    <3>1. InvalidElements(call.input) \in SUBSET Int  BY <2>4 DEF InvalidElements
    <3>2. QED  BY <3>1, <2>5, <2>6, MinIsLeast
  <2>8. Abs!PairResult(call.fork, call.input, call.gas)
          = Failed(Abs!SpecElementError(Element(call.input, idx)))
    BY <2>3, <2>5, <2>7, PairResultUnfolded
  <2>9. QED  BY <2>1, <2>8, ElementErrorIsSpec
<1>3. CASE PairFold
  <2>1. /\ pc = "loop" /\ idx = Elements(call.input)
        /\ result'.status = "Returned"
        /\ call' = call
    BY <1>3 DEF PairFold, Returned, MkResult
  <2>2. /\ Prologue(call.fork, call.input, call.gas) = NoResult
        /\ \A i \in 0 .. idx - 1 : ElementError(Element(call.input, i)) = NoError
    BY <2>1 DEF IInv, PairLoopInv
  <2>3. /\ ~(PairRequiredGas(call.fork, call.input.len) > call.gas)
        /\ call.input.len % PAIR_ELEMENT_LEN = 0
    BY <2>2 DEF Prologue, Failed, Returned, MkResult, NoResult
  <2>4. InvalidElements(call.input) = {}
    BY <2>1, <2>2, ElementErrorIsSpec DEF InvalidElements
  <2>5. Abs!PairResult(call.fork, call.input, call.gas).status = "Returned"
    BY <2>3, <2>4, PairResultUnfolded DEF Returned, MkResult
  <2>6. QED  BY <2>1, <2>5
<1>4. CASE PairElementOk  BY <1>4 DEF PairElementOk
<1>5. CASE Return  BY <1>5 DEF Return
<1>6. CASE UNCHANGED vars  BY <1>6 DEF vars
<1>7. QED  BY <1>1, <1>2, <1>3, <1>4, <1>5, <1>6 DEF Next

-----------------------------------------------------------------------------
(* The refinement, with the answer of a successful call left open.        *)

(* The specified outcome is a failure or an answer.                       *)
LEMMA PairResultStatus ==
    ASSUME NEW f, NEW in, NEW g
    PROVE  Abs!PairResult(f, in, g).status \in {"Returned", "Error"}
BY PairResultUnfolded DEF Failed, Returned, MkResult

(* A result with the specified status, equal to the specified outcome when *)
(* it is a failure, and 0 or 1 when it is an answer, is one the            *)
(* specification allows.                                                   *)
LEMMA AllowedResult ==
    ASSUME NEW r, NEW s, s.status \in {"Returned", "Error"},
           r.status = s.status,
           r.status = "Error" => r = s,
           r \in {Returned(0), Returned(1)} \/ r.status = "Error"
    PROVE  r \in IF s.status = "Returned" THEN {Returned(0), Returned(1)} ELSE {s}
<1>1. CASE s.status = "Returned"  BY <1>1 DEF Returned, MkResult
<1>2. CASE s.status = "Error"  BY <1>2
<1>3. QED  BY <1>1, <1>2

(* The call of the loop is one the host may make.                         *)
LEMMA CallIsRecord ==
    ASSUME NEW c \in Calls
    PROVE  /\ c = [fork |-> c.fork, input |-> c.input, gas |-> c.gas]
           /\ c.fork \in Forks /\ c.input \in PairInputs /\ c.gas \in Gases
BY DEF Calls

(* In the strengthened invariant, a step that ends a call satisfies        *)
(* CallEndsAsSpecified itself, not only up to stuttering.                  *)
LEMMA EndingStep ==
    ASSUME IInv, [Next]_vars, pc # "done", pc' = "done"
    PROVE  CallEndsAsSpecified
<1>1. [CallEndsAsSpecified]_vars  BY EndsAsSpecifiedStep
<1>2. ~UNCHANGED vars  BY DEF vars
<1>3. QED  BY <1>1, <1>2, Zenon

(* A step that ends a call from the loop (an element error or the fold)   *)
(* is the specification's call with the loop's arguments.                 *)
LEMMA LoopEndIsCall ==
    ASSUME IInv, [Next]_vars, pc = "loop", pc' = "done",
           result' \in {Returned(0), Returned(1)} \/ result'.status = "Error",
           call' = call
    PROVE  Abs!CallUpToValue(call.fork, call.input, call.gas)
<1>1. call \in Calls  BY DEF IInv, LoopPending
<1>2. /\ result'.status = Abs!PairResult(call.fork, call.input, call.gas).status
      /\ result'.status = "Error" =>
           result' = Abs!PairResult(call.fork, call.input, call.gas)
  BY EndingStep DEF CallEndsAsSpecified
<1>3. result' \in IF Abs!PairResult(call.fork, call.input, call.gas).status = "Returned"
                  THEN {Returned(0), Returned(1)}
                  ELSE {Abs!PairResult(call.fork, call.input, call.gas)}
  BY <1>2, PairResultStatus, AllowedResult
<1>4. QED  BY <1>1, <1>3, CallIsRecord, SpecSharesCodec DEF Abs!CallUpToValue

(* Every step of the loop-based run is a step of the specification with   *)
(* the answer left open, or a stutter of it.                               *)
LEMMA RefinementStep ==
    IInv /\ [Next]_vars => [Abs!NextUpToValue]_Abs!vars
<1> SUFFICES ASSUME IInv, [Next]_vars PROVE [Abs!NextUpToValue]_Abs!vars
  OBVIOUS
<1>1. ASSUME NEW f \in Forks, NEW in \in PairInputs, NEW g \in Gases,
             Call(f, in, g)
      PROVE  [Abs!NextUpToValue]_Abs!vars
  <2>1. /\ pc = "idle" /\ call = NoCall /\ result = NoResult
        /\ call' = [fork |-> f, input |-> in, gas |-> g]
        /\ result' = Prologue(f, in, g)
    BY <1>1 DEF Call, IInv, IdleReset
  <2>2. CASE Prologue(f, in, g) = NoResult
    <3>1. pc' = "loop"  BY <1>1, <2>2 DEF Call
    <3>2. UNCHANGED Abs!vars  BY <2>1, <2>2, <3>1 DEF Abs!vars
    <3>3. QED  BY <3>2
  <2>3. CASE Prologue(f, in, g) # NoResult
    <3>1. pc' = "done"  BY <1>1, <2>3 DEF Call
    <3>2. /\ result'.status = Abs!PairResult(f, in, g).status
          /\ result'.status = "Error" => result' = Abs!PairResult(f, in, g)
      BY <2>1, <3>1, EndingStep DEF CallEndsAsSpecified
    <3>3. result' \in {Returned(0), Returned(1)} \/ result'.status = "Error"
      BY <2>1, <2>3 DEF Prologue, Returned, Failed, MkResult
    <3>4. result' \in IF Abs!PairResult(f, in, g).status = "Returned"
                      THEN {Returned(0), Returned(1)}
                      ELSE {Abs!PairResult(f, in, g)}
      BY <3>2, <3>3, PairResultStatus, AllowedResult
    <3>5. Abs!CallUpToValue(f, in, g)
      BY <2>1, <3>1, <3>4, SpecSharesCodec DEF Abs!CallUpToValue
    <3>6. QED  BY <3>5, SpecSharesCodec DEF Abs!NextUpToValue
  <2>4. QED  BY <2>2, <2>3
<1>2. CASE PairElementOk
  BY <1>2 DEF PairElementOk, Abs!vars
<1>3. CASE PairElementFail
  <2>1. /\ pc = "loop" /\ pc' = "done" /\ call' = call
        /\ result'.status = "Error"
    BY <1>3 DEF PairElementFail, Failed, MkResult
  <2>2. Abs!CallUpToValue(call.fork, call.input, call.gas)  BY <2>1, LoopEndIsCall
  <2>3. call \in Calls  BY <2>1 DEF IInv, LoopPending
  <2>4. QED  BY <2>2, <2>3, CallIsRecord, SpecSharesCodec DEF Abs!NextUpToValue
<1>4. CASE PairFold
  <2>1. /\ pc = "loop" /\ pc' = "done" /\ call' = call
        /\ result' \in {Returned(0), Returned(1)}
    BY <1>4 DEF PairFold
  <2>2. Abs!CallUpToValue(call.fork, call.input, call.gas)  BY <2>1, LoopEndIsCall
  <2>3. call \in Calls  BY <2>1 DEF IInv, LoopPending
  <2>4. QED  BY <2>2, <2>3, CallIsRecord, SpecSharesCodec DEF Abs!NextUpToValue
<1>5. CASE Return
  <2>1. Abs!Return  BY <1>5, SpecSharesCodec DEF Return, Abs!Return
  <2>2. QED  BY <2>1 DEF Abs!NextUpToValue
<1>6. CASE UNCHANGED vars  BY <1>6 DEF vars, Abs!vars
<1>7. QED  BY <1>1, <1>2, <1>3, <1>4, <1>5, <1>6 DEF Next

(* Refinement of EIP-197 up to the 0/1 of a successful call               *)
(* (PairRefinesUpToValue), for every curve, input set and gas set: the    *)
(* decoding loop is invisible, and every call ends in one step with the   *)
(* specified status and, when it fails, the specified error: the gas gate *)
(* before the framing check, framing before decoding, and the error of the *)
(* first invalid element, never a later one.                               *)
THEOREM RefinesUpToValue == Spec => PairRefinesUpToValue
<1>1. Init => Abs!Init
  BY SpecSharesCodec DEF Init, Abs!Init
<1>2. Spec => []IInv  BY IInvInit, IInvStep, PTL DEF Spec
<1>3. QED
  BY <1>1, <1>2, RefinementStep, PTL DEF Spec, PairRefinesUpToValue, Abs!SpecUpToValue

=============================================================================
