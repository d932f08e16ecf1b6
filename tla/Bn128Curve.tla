----------------------------- MODULE Bn128Curve -----------------------------
(***************************************************************************)
(* The curve library the alt_bn128 precompiles call (crate bn), as the     *)
(* oracle of spec section 9: Fq::interpret, Fr::interpret, AffineG1::new,  *)
(* G1 addition and scalar multiplication, AffineG2::new and the pairing    *)
(* with its identity.  The library is not part of this repository; these   *)
(* definitions are taken from the spec and from the curve equation.       *)
(*                                                                         *)
(* G1 is a genuine short Weierstrass curve y^2 = x^3 + CurveB over the     *)
(* prime field 0..FqP-1 whose group has prime order FrR (BN254 has b = 3   *)
(* and r < p; the instance used for model checking has p = 19, r = 13).    *)
(* G2 is given by the coordinates of the multiples of its generator, and   *)
(* the pairing by discrete logarithms: e(i*G1Gen, j*H) = gt^(i*j).  A Gt   *)
(* element is represented by its exponent, so Gt::one is 0.                *)
(***************************************************************************)
EXTENDS Integers

CONSTANTS
    FqP,      \* the base field modulus p
    FrR,      \* the scalar field modulus r, the order of G1 and G2
    CurveB,   \* the constant b of y^2 = x^3 + b
    G1Gen,    \* a generator of G1, as affine coordinates <<x, y>>
    G2Pts     \* G2Pts[k] = affine coordinates <<x, y>> of k*H, k \in 1..FrR-1,
              \* each coordinate an Fq2 element <<real, imag>>

ASSUME CurveAssumption ==
    /\ FqP \in Nat \ {0, 1}
    /\ FrR \in Nat \ {0, 1}
    /\ CurveB \in 1 .. FqP - 1

Fq == 0 .. FqP - 1

(* Fq::interpret / Fr::interpret: a 32-byte big-endian word is accepted    *)
(* iff its value is below the modulus; they never reduce.                  *)
FqInterpretOk(w) == w < FqP
FrInterpretOk(w) == w < FrR

(* The identity of G1 (G1::zero), in Jacobian coordinates (0 : 1 : 0).    *)
G1Zero == <<0, 1, 0>>

(* AffineG1::new(x, y) succeeds iff (x, y) is on the curve.                *)
OnCurveG1(x, y) == (y * y) % FqP = (x * x * x + CurveB) % FqP

(* The inverse in Fq of a non-zero element.                                *)
FqInv(a) == CHOOSE b \in Fq : (a * b) % FqP = 1

(* G1 addition (chord and tangent), the library's operator +.              *)
G1Add(P, Q) ==
    IF P = G1Zero THEN Q
    ELSE IF Q = G1Zero THEN P
    ELSE IF P[1] = Q[1] /\ (P[2] + Q[2]) % FqP = 0 THEN G1Zero
    ELSE   LET lam == IF P = Q
                      THEN (3 * P[1] * P[1] * FqInv((2 * P[2]) % FqP)) % FqP
                      ELSE (((Q[2] - P[2]) % FqP) * FqInv((Q[1] - P[1]) % FqP)) % FqP
               x3  == (lam * lam - P[1] - Q[1]) % FqP
           IN  <<x3, (lam * (P[1] - x3) - P[2]) % FqP>>

(* G1 scalar multiplication k * P, the library's operator * on (G1, Fr).   *)
G1Mul(P, k) ==
    LET m[n \in 0 .. k] == IF n = 0 THEN G1Zero ELSE G1Add(m[n - 1], P)
    IN  m[k]

(* The multiples of the generator, the whole group G1.                     *)
G1Multiples == [k \in 0 .. FrR - 1 |-> G1Mul(G1Gen, k)]

DlogG1(P) == CHOOSE k \in 0 .. FrR - 1 : G1Multiples[k] = P

(* G2: the identity, membership (AffineG2::new checks the curve and the    *)
(* subgroup), and the discrete logarithm of a member.                      *)
G2Zero == << <<0, 0>>, <<1, 0>>, <<0, 0>> >>
IsG2(ba, bb) == \E k \in 1 .. FrR - 1 : G2Pts[k] = <<ba, bb>>
DlogG2(B) == IF B = G2Zero THEN 0
             ELSE CHOOSE k \in 1 .. FrR - 1 : G2Pts[k] = B

(* The pairing into Gt, written as exponents: Gt::one, Gt multiplication   *)
(* and bn::pairing.                                                        *)
GtOne == 0
GtMul(s, t) == (s + t) % FrR
Pairing(A, B) == (DlogG1(A) * DlogG2(B)) % FrR

=============================================================================
