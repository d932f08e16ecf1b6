--------------------------- MODULE Bn128PairCodec ---------------------------
(***************************************************************************)
(* Input framing, element decoding and results of the ECPAIRING precompile *)
(* (BN128Pair::run_inner in bn128.rs).                                     *)
(*                                                                         *)
(* A 32-byte lane is abstracted to the number it encodes big-endian; an    *)
(* input is its byte length and its lanes, the last one zero-padded when   *)
(* the length is not a multiple of 32.                                     *)
(***************************************************************************)
EXTENDS Integers, Sequences, FiniteSetsExt, Bn128Gas, Bn128Curve

(* The outcome of a call: ExitSucceed::Returned with the 32-byte word      *)
(* U256::one() or U256::zero(), or an ExitError.                           *)
NoError == "none"
ErrorKinds == {"OutOfGas", "LenInvalid", "AX", "AY", "ANotOnCurve", "BNotOnCurve"}
MkResult(status, out, err) == [status |-> status, out |-> out, err |-> err]
Returned(out) == MkResult("Returned", out, NoError)
Failed(err) == MkResult("Error", 0, err)
NoResult == MkResult("none", 0, NoError)
Results == [status : {"none", "Returned", "Error"}, out : {0, 1},
            err : ErrorKinds \cup {NoError}]

(* elements = input.len() / PAIR_ELEMENT_LEN, and element i (from 0) as   *)
(* its six lanes.                                                          *)
Elements(in) == in.len \div PAIR_ELEMENT_LEN
Element(in, i) == [k \in 1 .. 6 |-> in.lanes[6 * i + k]]

(* The error each of the six Fq::interpret calls of an element reports:   *)
(* ax, ay, bay, bax, bby, bbx.  All four G2 lanes report the message       *)
(* "invalid `a` argument, `x` coordinate".                                 *)
LaneError == <<"AX", "AY", "AX", "AX", "AX", "AX">>

(* The G1 half (ax, ay), and the G2 half built as Fq2::new(bax, bay) and   *)
(* Fq2::new(bbx, bby): on the wire each Fq2 has its imaginary part first.  *)
ElemA(e) == <<e[1], e[2]>>
ElemB(e) == << <<e[4], e[3]>>, <<e[6], e[5]>> >>
ZeroA == <<0, 0>>
ZeroB == << <<0, 0>>, <<0, 0>> >>

(* The first error decoding an element reports, or NoError: the six lanes  *)
(* in order, then the G1 curve check, then the G2 curve check.             *)
ElementError(e) ==
    LET bad == {k \in 1 .. 6 : ~FqInterpretOk(e[k])}
    IN  IF bad # {} THEN LaneError[Min(bad)]
        ELSE IF ElemA(e) # ZeroA /\ ~OnCurveG1(e[1], e[2]) THEN "ANotOnCurve"
        ELSE IF ElemB(e) # ZeroB /\ ~IsG2(ElemB(e)[1], ElemB(e)[2]) THEN "BNotOnCurve"
        ELSE NoError

(* The decoded pair (a, b) of a valid element.                             *)
DecodeA(e) == IF ElemA(e) = ZeroA THEN G1Zero ELSE ElemA(e)
(* Mutation of DecodeB: the four G2 lanes kept as a flat tuple instead of  *)
(* two Fq2 values.                                                         *)
DecodeBFlat(e) == IF ElemB(e) = ZeroB THEN G2Zero ELSE <<e[4], e[3], e[6], e[5]>>

DecodeB(e) == IF ElemB(e) = ZeroB THEN G2Zero ELSE ElemB(e)
DecodeElement(e) == <<DecodeA(e), DecodeB(e)>>

=============================================================================
