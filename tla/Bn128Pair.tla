----------------------------- MODULE Bn128Pair -----------------------------
(***************************************************************************)
(* The ECPAIRING precompile as the code runs it: BN128Pair<HF>::run (the   *)
(* gas gate) and run_inner (the framing check, the loop that decodes one   *)
(* 192-byte element per iteration and pushes it on vals, and the final     *)
(* fold of the pairings).  A host calls it with a fork, an input and a gas *)
(* limit, and takes the outcome back (Return).                             *)
(***************************************************************************)
EXTENDS Bn128PairCodec

CONSTANTS
    PairInputs,   \* the inputs the host may pass
    Gases         \* the gas limits the host may pass

ASSUME PairInputsAssumption ==
    \A in \in PairInputs :
        /\ in.len \in Nat
        /\ in.lanes \in Seq(Nat)
        /\ Len(in.lanes) = (in.len + 31) \div 32

ASSUME GasesAssumption == Gases \subseteq Nat

VARIABLES
    pc,       \* "idle", "loop" (inside the element loop) or "done"
    call,     \* the arguments of the current call: fork, input, gas
    idx,      \* the loop index of run_inner
    vals,     \* the decoded (a, b) pairs pushed so far
    result    \* the outcome of the call, NoResult until it returns

vars == <<pc, call, idx, vals, result>>

NoCall == [fork |-> "Byzantium", input |-> [len |-> 0, lanes |-> <<>>], gas |-> 0]

(* vals.into_iter().fold(Gt::one(), |s, (a, b)| s * bn::pairing(a, b))     *)
FoldPairing(vs) ==
    LET f[i \in 0 .. Len(vs)] ==
            IF i = 0 THEN GtOne ELSE GtMul(f[i - 1], Pairing(vs[i][1], vs[i][2]))
    IN  f[Len(vs)]

(* What run decides before the loop: the gas gate of run, then the length  *)
(* check and the empty-input case of run_inner; NoResult means the loop    *)
(* starts.                                                                 *)
(* Mutation of Prologue: the empty input answered before the gas gate.    *)
PrologueEmptyFirst(f, in, g) ==
    IF in.len = 0 THEN Returned(1)
    ELSE IF PairRequiredGas(f, in.len) > g THEN Failed("OutOfGas")
    ELSE IF in.len % PAIR_ELEMENT_LEN # 0 THEN Failed("LenInvalid")
    ELSE NoResult

Prologue(f, in, g) ==
    IF PairRequiredGas(f, in.len) > g THEN Failed("OutOfGas")
    ELSE IF in.len % PAIR_ELEMENT_LEN # 0 THEN Failed("LenInvalid")
    ELSE IF in.len = 0 THEN Returned(1)
    ELSE NoResult

Init ==
    /\ pc = "idle"
    /\ call = NoCall
    /\ idx = 0
    /\ vals = <<>>
    /\ result = NoResult

(* BN128Pair<HF>::run up to the loop.                                      *)
Call(f, in, g) ==
    /\ pc = "idle"
    /\ call' = [fork |-> f, input |-> in, gas |-> g]
    /\ result' = Prologue(f, in, g)
    /\ pc' = IF Prologue(f, in, g) = NoResult THEN "loop" ELSE "done"
    /\ UNCHANGED <<idx, vals>>

(* Mutation of CurElement: the slice offset idx * PAIR_ELEMENT_LEN lost.  *)
CurElementNoOffset == Element(call.input, 0)

CurElement == Element(call.input, idx)

(* One iteration of the loop whose element decodes: push (a, b).           *)
PairElementOk ==
    /\ pc = "loop"
    /\ idx < Elements(call.input)
    /\ ElementError(CurElement) = NoError
    /\ vals' = Append(vals, DecodeElement(CurElement))
    /\ idx' = idx + 1
    /\ UNCHANGED <<pc, call, result>>

(* One iteration whose element fails to decode: return its error.          *)
PairElementFail ==
    /\ pc = "loop"
    /\ idx < Elements(call.input)
    /\ ElementError(CurElement) # NoError
    /\ result' = Failed(ElementError(CurElement))
    /\ pc' = "done"
    /\ UNCHANGED <<call, idx, vals>>

(* After the loop: fold the pairings and compare with Gt::one().           *)
PairFold ==
    /\ pc = "loop"
    /\ idx = Elements(call.input)
    /\ result' = Returned(IF FoldPairing(vals) = GtOne THEN 1 ELSE 0)
    /\ pc' = "done"
    /\ UNCHANGED <<call, idx, vals>>

(* The host takes the outcome and forgets the call.                        *)
Return ==
    /\ pc = "done"
    /\ pc' = "idle"
    /\ call' = NoCall
    /\ idx' = 0
    /\ vals' = <<>>
    /\ result' = NoResult

Next ==
    \/ \E f \in Forks, in \in PairInputs, g \in Gases : Call(f, in, g)
    \/ PairElementOk
    \/ PairElementFail
    \/ PairFold
    \/ Return

Spec == Init /\ [][Next]_vars

-----------------------------------------------------------------------------

Calls == [fork : Forks, input : PairInputs, gas : Gases]

TypeOK ==
    /\ pc \in {"idle", "loop", "done"}
    /\ call \in Calls \cup {NoCall}
    /\ idx \in Nat
    /\ vals \in Seq(((Fq \X Fq) \cup {G1Zero}) \X (((Fq \X Fq) \X (Fq \X Fq)) \cup {G2Zero}))
    /\ result \in Results

(* Loop invariant of run_inner: inside the loop the call has passed the    *)
(* gas gate and the framing check, and vals holds, in input order, exactly *)
(* the decodings of the elements before idx, all of which were valid.  It  *)
(* is what makes an error reported at idx the error of the FIRST invalid   *)
(* element and the fold range over every element.                        *)
PairLoopInv ==
    pc = "loop" =>
        /\ Prologue(call.fork, call.input, call.gas) = NoResult
        /\ idx \in 0 .. Elements(call.input)
        /\ vals = [i \in 1 .. idx |-> DecodeElement(Element(call.input, i - 1))]
        /\ \A i \in 0 .. idx - 1 : ElementError(Element(call.input, i)) = NoError

(* Refinement: every behaviour of the loop-based run is a behaviour of the *)
(* atomic ECPAIRING specification, under the mapping that shows a call as  *)
(* not yet made while its loop runs.                                       *)
Abs == INSTANCE Bn128PairSpec
           WITH pc <- IF pc = "loop" THEN "idle" ELSE pc,
                call <- IF pc = "loop" THEN NoCall ELSE call

PairSpecRefined == Abs!Spec

(* The refinement with the answer of a successful call left open between *)
(* 0 and 1: the loop is invisible (its steps are stutters of the atomic   *)
(* call), the call becomes visible at the step that ends it, with the     *)
(* status EIP-197 prescribes and, when it fails, exactly the prescribed   *)
(* error: OutOfGas before framing, framing before decoding, the error of  *)
(* the first invalid element.                                              *)
PairRefinesUpToValue == Abs!SpecUpToValue

(* Spec section 4.4 and scenario S7: gas is 80000 n + 100000 (Byzantium),  *)
(* 34000 n + 45000 (Istanbul) with n = len / 192, and an input whose       *)
(* length is not a multiple of 192 fails with the framing error once that *)
(* gas is supplied.  The code computes per_point * len / 192 + base, which *)
(* charges a fraction of an element for a ragged length.                   *)
SpecGasGate ==
    pc = "done" =>
        (result = Failed("OutOfGas") <=>
            call.gas < Costs[call.fork].pairPerPoint * Elements(call.input)
                       + Costs[call.fork].pairBase)

(* Spec section 7: "invalid a argument, x coordinate" is reported when the *)
(* Fq element of the G1 x lane of the failing element is out of range.    *)
(* The loop reports it for any of the four G2 lanes as well.              *)
AxErrorMeansG1XInvalid ==
    (pc = "done" /\ result = Failed("AX")) =>
        ~FqInterpretOk(Element(call.input, idx)[1])

=============================================================================
