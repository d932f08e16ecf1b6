--------------------------- MODULE MCBn128AddMul ---------------------------
(***************************************************************************)
(* Model-checking instance of Bn128AddMul on y^2 = x^3 + 3 over F_19, a    *)
(* group of prime order 13 generated by (1, 2).                            *)
(***************************************************************************)
EXTENDS Bn128AddMul, SequencesExt

MCFqP == 19
MCFrR == 13
MCCurveB == 3
MCG1Gen == <<1, 2>>
MCG2Pts == [k \in 1 .. MCFrR - 1 |-> << <<0, 0>>, <<0, 0>> >>]

(* Lane values: 0; coordinates giving the points (1,2), (1,17) = -(1,2),  *)
(* (2,7), (7,2), (7,17) and off-curve pairs; 13, a valid Fq element but  *)
(* not a valid scalar; 19, out of range for both.                          *)
Words == {0, 1, 2, 7, 13, 17, 19}

(* Second points of ECADD: the identity, -(1,2), (7,2), an off-curve      *)
(* pair, and each coordinate out of range.                                 *)
SecondPoints == {<<0, 0>>, <<1, 17>>, <<7, 2>>, <<2, 2>>, <<19, 0>>, <<0, 19>>}

(* Every input of up to three lanes (all ECMUL inputs that matter, ECADD  *)
(* inputs whose second point is padded), four-lane inputs with any first *)
(* point and a second point from SecondPoints, and five-lane inputs whose *)
(* fifth lane the resize to 128 bytes must drop.                          *)
MCPointInputs ==
    {[len |-> 32 * Len(s), lanes |-> s] : s \in SeqOf(Words, 3)}
    \cup {[len |-> 128, lanes |-> <<x, y>> \o q] : x \in Words, y \in Words, q \in SecondPoints}
    \cup {[len |-> 160, lanes |-> <<1, 2, 1, 17, 19>>],
          [len |-> 160, lanes |-> <<1, 2, 2, 0, 19>>]}

MCPointGases ==
    UNION {{AddRequiredGas(f) - 1, AddRequiredGas(f),
            MulRequiredGas(f) - 1, MulRequiredGas(f)} : f \in Forks}

=============================================================================
