---------------------------- MODULE MCBn128Pair ----------------------------
(***************************************************************************)
(* Model-checking instance of Bn128Pair.  The curve is y^2 = x^3 + 3 over  *)
(* F_19, a group of prime order 13 generated by (1, 2); G2 is a copy of    *)
(* it whose Fq2 coordinates have distinct real and imaginary parts, so an  *)
(* element written real-part-first is not a G2 point.                      *)
(***************************************************************************)
EXTENDS Bn128Pair, SequencesExt

MCFqP == 19
MCFrR == 13
MCCurveB == 3
MCG1Gen == <<1, 2>>
MCG2Pts == [k \in 1 .. MCFrR - 1 |->
              << <<G1Multiples[k][1], 1>>, <<G1Multiples[k][2], 0>> >>]

(* The six lanes of an element whose a is i*G1Gen and whose b is j*H, in   *)
(* the EIP-197 layout (imaginary parts first).                             *)
LanesA(i) == IF i = 0 THEN <<0, 0>> ELSE G1Multiples[i]
LanesB(j) == IF j = 0 THEN <<0, 0, 0, 0>>
             ELSE << G2Pts[j][1][2], G2Pts[j][1][1], G2Pts[j][2][2], G2Pts[j][2][1] >>
Elem(i, j) == LanesA(i) \o LanesB(j)

(* An Fq lane value that is out of range: 19 >= p.                         *)
BadLane == 19

(* Valid elements, among them two whose pairings cancel ((1,1) and (1,12)) *)
(* and ones with an identity half; one element per out-of-range lane; an  *)
(* off-curve a; a b written in (real, imag) order; an off-curve a together *)
(* with a later out-of-range lane.                                         *)
MCElements ==
    {Elem(1, 1), Elem(1, 12), Elem(2, 3), Elem(0, 5), Elem(4, 0)}
    \cup {[Elem(1, 1) EXCEPT ![k] = BadLane] : k \in 1 .. 6}
    \cup {[Elem(1, 1) EXCEPT ![2] = 1],
          LET e == Elem(2, 3)
          IN  [e EXCEPT ![3] = e[4], ![4] = e[3], ![5] = e[6], ![6] = e[5]],
          [Elem(1, 1) EXCEPT ![2] = 1, ![5] = BadLane]}

(* Inputs of up to two elements, and two ragged lengths: 66 bytes (two    *)
(* lanes and a 2-byte tail) and 200 bytes (an element and an 8-byte tail). *)
MCPairInputs ==
    {[len |-> 192 * Len(es), lanes |-> FlattenSeq(es)] : es \in SeqOf(MCElements, 2)}
    \cup {[len |-> 66, lanes |-> <<1, 2, 0>>],
          [len |-> 200, lanes |-> Elem(1, 1) \o <<0>>]}

(* Gas limits at every threshold the inputs meet, and one below each.      *)
MCGases ==
    UNION {{PairRequiredGas(f, l) - 1, PairRequiredGas(f, l)} :
               f \in Forks, l \in {0, 66, 192, 200, 384}}

=============================================================================
