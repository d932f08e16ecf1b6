# Verification of the alt_bn128 precompiles (ECADD, ECMUL, ECPAIRING)

This directory holds TLA+ models, TLC configurations and TLAPS proofs of
`src/src/precompiles/bn128.rs`. That file holds the Ethereum precompiles at
addresses 0x06 (ECADD), 0x07 (ECMUL) and 0x08 (ECPAIRING), each for two hard
forks (Byzantium and Istanbul).

## 1. The system

| Part | Code | What it does |
|---|---|---|
| gas schedule | `mod costs`, `mod consts`, six `required_gas` impls (lines 5-41, 91-94, 110-113, 156-159, 174-177, 294-321) | constant costs for add and mul; `per_point * len / 192 + base` in u64 for pairing |
| gas gate | every `run` (lines 101-107, 120-126, 165-171, 183-189, 306-312, 327-333) | `required_gas > target_gas` gives `OutOfGas` before any decoding |
| `read_point` | lines 44-65 | two 32-byte lanes: `Fq::interpret` of x, then of y; (0,0) is the identity; else `AffineG1::new` (on-curve check) |
| ECADD `run_inner` | lines 70-88 | pad/truncate the input to 128 bytes; read two points; output the affine sum, or 64 zero bytes for the identity |
| ECMUL `run_inner` | lines 132-153 | pad/truncate to 128; read a point; `Fr::interpret` the scalar (rejects values >= r); output the affine product |
| ECPAIRING `run_inner` | lines 195-291 | framing check `len % 192`; empty input gives 1; else a loop over the elements that decodes six lanes each (G2 lanes imaginary part first), returns at the first bad one, pushes `(a, b)`; then folds `Gt::one() * pairing(a, b)` and outputs 1 iff the product is one |
| curve library | crate `bn` (not in this repository) | field interpretation, group law, subgroup check for G2, the pairing |
| host | EVM (not in this repository) | picks the precompile by address and fork, passes input and gas, takes back the result |

The precompiles are pure functions of (fork, input, gas): nothing is shared
between calls, nothing runs concurrently, nothing is persisted. What makes
the code hard to get right is therefore not interleaving but the order of the
checks:
- the gas gate runs before decoding;
- framing runs before the empty-input shortcut;
- in each lane, the range check runs before the curve check;
- the first bad element decides the error;
- the wire layout of Fq2 is imaginary part first;
- the identity is encoded as zeros in both directions.

Numeric edges matter too: u64 gas arithmetic, multiplying before dividing,
scalars at and above r, and inputs shorter or longer than 128 bytes.

## 2. Modules

| Module | Models | Kind |
|---|---|---|
| `Bn128Gas` | costs, consts, `required_gas` | operators, from the source |
| `Bn128Curve` | the `bn` crate as an oracle | operators, from the spec (crate not under `src/`) |
| `Bn128PairCodec` | the per-element decoding of ECPAIRING: lanes, lane errors, `a`, `b`, the first error | operators, from the source |
| `Bn128Pair` | ECPAIRING `run` + `run_inner` as a state machine | detailed spec |
| `Bn128PairSpec` | what EIP-197 and the spec promise of ECPAIRING, as one atomic step | abstract spec |
| `Bn128AddMul` | `read_point`, ECADD and ECMUL `run` + `run_inner`, one atomic step per call | detailed spec |
| `Bn128AddMulSpec` | what EIP-196 and the spec promise of ECADD and ECMUL, stated on the group | abstract spec |
| `MCBn128Pair`, `MCBn128AddMul` | TLC instances | model values |
| `Bn128PairProofs`, `Bn128AddMulProofs`, `Bn128GasProofs` | TLAPS theorems | proofs |

### Data abstraction

- A 32-byte lane is the natural number it encodes big-endian.
- An input is `[len |-> bytes, lanes |-> <<w1, w2, ...>>]` with
  `Len(lanes) = (len + 31) \div 32`.
- The formatting of outputs and messages is abstracted:
  - an error is a name (`"AX"` for "invalid `a` argument, `x` coordinate", and so on);
  - ECPAIRING's 32-byte output is 0 or 1;
  - ECADD/ECMUL's output is the pair of lanes.

### Curve oracle (`Bn128Curve`)

BN254 itself is out of TLC's reach. The oracle replaces it with a genuine
curve of the same shape: y^2 = x^3 + 3 over F_19, whose group has prime order
13, which stands for r. The generator is (1, 2).
- `Fq::interpret` is `w < FqP` and `Fr::interpret` is `w < FrR`.
- The group law is the chord-and-tangent law with the identity
  `G1Zero`.
- G2 is a constant table `G2Pts` of the multiples of a G2 generator, so
  `AffineG2::new` is "the pair is in the table" (that test includes the
  subgroup check).
- The pairing is written through discrete logarithms:
  e(k1 G1, k2 G2) is `k1 * k2 mod r` in an additive Gt, with `Gt::one` as 0.

This is the bilinear, non-degenerate map the code relies on, on a small group.

### ECPAIRING state machine (`Bn128Pair`)

Variables:
- `pc` is `"idle"`, `"loop"` or `"done"`.
- `call` is (fork, input, gas).
- `idx` is the loop index.
- `vals` is the `Vec` of decoded pairs.
- `result` is the `PrecompileResult`.

| Action | Code |
|---|---|
| `Call` | `run`: gas gate (307), framing (198), empty input (204), else enter the loop |
| `PairElementOk` | one iteration that decodes all six lanes and both points and pushes (210-277) |
| `PairElementFail` | one iteration that leaves through a `?` (216-275): the first failing check names the error |
| `PairFold` | the fold and the comparison with `Gt::one` (279-290) |
| `Return` | the host takes the result back (not in `src/`) |

The loop is split into one step per element so that the invariant of the loop
(`PairLoopInv`) can be stated and checked. `Bn128PairSpec` has only `Call`
and `Return`. It decodes each element independently from the published
layout, through `SpecA`, `SpecB` and `SpecElementError`, not through the
code's decoder.

`Bn128Pair` implements it through the refinement mapping:
- a `"loop"` state maps to `"idle"`;
- the steps of the loop map to stutters;
- the step that leaves the loop maps to the spec's `Call`.

### ECADD/ECMUL (`Bn128AddMul`)

Each call is one atomic action (`AddCall`, `MulCall`), because `run_inner`
has no loop and no state, followed by `Return`. `Resize` models `resize(128, 0)`
(padding and truncation) and `ReadPoint` models `read_point` with its three error
exits and the (0,0) identity. `EncodeG1` models `from_jacobian` with the
identity left as zeros.

`Bn128AddMulSpec` states the same calls from the spec, without the code's
helpers:
- it reads lane k of the zero-padded input (`SpecLane`);
- it decodes a point by spec section 4.1 (`SpecPointError`);
- it gives the result as the multiple of the generator whose discrete log is
  the sum (ECADD) or the product with the scalar (ECMUL).

The code computes with the chord-and-tangent group law instead. The mapping is
the identity, because a call is one step in both.

## 3. Runs

| Run | Config | Expect | Checks |
|---|---|---|---|
| `pair_refines_spec` | `MCBn128Pair.cfg` | pass | `TypeOK`, `PairLoopInv`, `PairSpecRefined` |
| `pair_gas_ragged_length` | `MCBn128Pair_SpecGasGate.cfg` | violation | `SpecGasGate` |
| `pair_error_names` | `MCBn128Pair_AxErrorMeansG1XInvalid.cfg` | violation | `AxErrorMeansG1XInvalid` |
| `addmul_group_results` | `MCBn128AddMul.cfg` | pass | `TypeOK`, `AddMulSpecRefined` |

What the passing runs check:
- `PairLoopInv`, the invariant of the loop. In the loop, the gas gate and
  the framing check have passed, and `idx` is within the elements. `vals`
  holds exactly the decodings of the first `idx` elements, and each of those
  decoded without error.
- `PairSpecRefined`, the abstract spec as a property. Every ECPAIRING call
  returns what EIP-197 prescribes:
  - gas first;
  - framing;
  - the error of the first invalid element;
  - lanes of Fq2 imaginary part first;
  - 1 iff the pairing product is the identity.
- `AddMulSpecRefined`, the EIP-196 spec as a property. Every ECADD/ECMUL
  call ends as `Bn128AddMulSpec` says:
  - `OutOfGas` whenever the gas is short, whatever the input;
  - otherwise the first decoding error, the points before the scalar;
  - otherwise the encoding of the group sum, or of the product with a scalar
    below r, read from the zero-padded input;
  - (0,0) is the identity on input, and the identity is written as zeros.

`PairRefinesUpToValue` (the refinement of `Bn128PairSpec!SpecUpToValue`, the
spec with the 0/1 of a successful call left open) and the action property
`AddMulEndsAsSpecified` are not run: each is implied by `PairSpecRefined` or
`AddMulSpecRefined` on the same instance, so TLC would repeat those checks.
They are the parts of the refinements that do not depend on the pairing or
group values, and they are stated so that they can be proved for every value
of the constants (section 5).

No liveness property is checked. `run_inner`'s loop is
`for idx in 0..elements`, with no await, lock or I/O, so it ends whatever its
body does: a termination property would hold by the shape of the loop.

### Bounds

**Pairing inputs.** There are 0, 1 or 2 elements, drawn from 14 elements:
- valid elements that pair to 1 and to a non-identity;
- an element with a zero `a`, and one with a zero `b`;
- each of the six lanes out of range;
- an off-curve `a`;
- a `b` whose lanes are swapped (valid only in the wrong order);
- an off-curve `a` together with a bad G2 lane.

Two ragged inputs (66 and 200 bytes) are added. Two elements are the least
that shows the first bad element winning over a later one, and a valid
element followed by a bad one (partial failure).

**Gas.** The gases are each input length's threshold and the threshold minus
one, for both forks. That is exactly the boundary of the gate.

**ECADD/ECMUL inputs.**
- Every 3-lane input over the words {0,1,2,7,13,17,19}. That covers short
  input, zero, in range, out of range (19 = p) and scalars at and above
  r (13, 17).
- 4-lane inputs with a second point drawn from the identity, valid points, an
  off-curve point, and x or y out of range.
- Two 5-lane inputs, to check truncation.

The group of order 13 holds all of its cases: P + (-P), P + P, k >= r, and
k = 0.

### Fairness

None is assumed: every property checked is a safety property.

## 4. Findings (violation runs)

- **Ragged lengths and gas** (`SpecGasGate`, bn128.rs:297). `required_gas`
  computes `per_point * len / 192 + base`. The multiplication comes first, so
  a 66-byte input costs more than the base. With the base gas it fails
  `OutOfGas`, not with the framing error the spec's scenario S7 describes.
  Theorem `PairGasRaggedSurcharge` proves that the code never charges less
  than the spec's formula, and strictly more at 66 bytes.
- **G2 lane error names** (`AxErrorMeansG1XInvalid`, bn128.rs:230-253). All
  four G2 lanes report "invalid `a` argument, `x` coordinate" when out of
  range. Because range checks come before curve checks, an element with an
  off-curve `a` and a bad G2 lane also reports that message.

## 5. Proofs (TLAPS)

**`Bn128PairProofs`: `TypeCorrect`, `Spec => []TypeOK` for ECPAIRING.** It
holds for every curve and every input set that satisfy the module's
assumptions, which are:
- `CurveAssumption`: the field and group orders are at least 2;
- `PairInputsAssumption`: lanes are naturals, and their number is
  `(len + 31) \div 32`;
- `GasesAssumption`.

The proof has one step per action. It rests on four lemmas:
- `MinOfLanes`: the first bad lane is one of 1..6;
- `ElementErrorType`: an element's error is one of the error kinds;
- `ElementInInput`: lane `6*i + k` of element `i < len \div 192` exists,
  from the division facts;
- `DecodeElementType`: a decoded element is a G1 point paired with a G2
  point.

`TypeOK` is inductive by itself, because it constrains `vals` only to a set of
pairs of points. No strengthening is needed.

**`Bn128PairProofs`: `LoopInvariant`, `Spec => []PairLoopInv`.**
`PairLoopInv` is not inductive by itself. A `Call` enters the loop with
whatever `idx` and `vals` it finds, so the proof uses the strengthening
`IInv == TypeOK /\ PairLoopInv /\ IdleReset`. `IdleReset` says an idle run has
`idx = 0` and `vals = <<>>`; `Return` establishes it. `IInv` was checked with
TLC before it was proved.

`IInvStep` has one case per action:
- `Call` starts the loop with the decodings of zero elements;
- `PairElementOk` extends them by one, by lemma `AppendDecoded` (built on
  `AppendProperties` and `SeqEqual` of SequenceTheorems). Its guard supplies
  the validity of the new element;
- the other actions leave the loop or reset.

`TypeOKStep` is shared with `TypeCorrect`.

**`Bn128PairProofs`: `RefinesUpToValue`, `Spec => PairRefinesUpToValue`.**
It is laid out as a refinement proof:
- `Init => Abs!Init`;
- `Spec => []IInv`;
- `RefinementStep`: `IInv /\ [Next]_vars => [Abs!NextUpToValue]_Abs!vars`;
- PTL combines them.

The refinement needs `IInv` stronger than the loop invariant did.
`IdleReset` also says an idle run holds `NoCall` and `NoResult`. The new
`LoopPending` says a running loop holds a call from `Calls` and no result.
Without these, `Call` would not be a stutter of the abstract spec, and the
loop's ending step would not be the abstract `Call` with the loop's
arguments. TLC checked both conjuncts on `MCBn128Pair` before the proof.

`RefinementStep` has these cases:
- `Call` that enters the loop, and `PairElementOk`: stutters under the
  mapping.
- `Return`: the abstract `Return`.
- `Call` that does not enter the loop, `PairElementFail` and `PairFold`:
  the abstract `CallUpToValue`. Lemma `EndsAsSpecifiedStep` (with
  `EndingStep`) gives the specified status and error; `AllowedResult` turns
  them into membership in the allowed results.

`EndsAsSpecifiedStep` shows that `IInv /\ [Next]_vars` implies
`[CallEndsAsSpecified]_vars`, one case per action:
- `Call` that does not enter the loop: lemma `PrologueEndsAsSpecified`. Gas,
  then framing, as in the spec; an empty input has no elements, so the spec
  also returns.
- `PairElementFail`: `PairLoopInv` says the call passed the gas and framing
  checks and every element before `idx` is valid. So `idx` is the least
  invalid element (`MinIsLeast`), and the loop's error is the spec's
  (`ElementErrorIsSpec`).
- `PairFold`: every element is valid, so the spec returns too.
- the other actions end no call.

`ElementErrorIsSpec` shows that the code's decoder and the spec's element
rule agree on every element:
- `LaneError[m]` names AY exactly at lane 2;
- an all-zero half is the identity in both forms.

`SpecSharesCodec` states once that the instance's copies of the codec
operators are the module's own.

**`Bn128AddMulProofs`: `OutcomeAsSpecified`,
`Spec => AddMulEndsAsSpecified`.** No invariant is needed: a call is one
step. The proof rests on these lemmas:
- `ResizeLane`: the resize to 128 bytes gives the spec's zero-padded lanes;
- `ReadPointIsSpec`: `read_point` and `SpecPointError` reject a pair with the
  same error;
- `MulEndsAsSpecified`: `Fr::interpret` rejects exactly the scalars `>= r`.
It uses `PointInputsAssumption` (lanes are naturals) and `CurveAssumption`.

**`Bn128GasProofs`.** These theorems cover what TLC cannot represent
(2^64):
- `PairGasNoWrap`: for every length below 2^32 (the `usize` of wasm32), the
  u64 products and sums of `required_gas` stay below 2^64. The model's
  unbounded arithmetic is therefore the code's.
- `PairGasPerElement`: an input of whole elements costs
  `per_point * n + base`.
- `PairGasRaggedSurcharge`: stated in the findings above.
- `PairGasConcat`: spec property 8.3 (appending b adds
  `per_point * len(b) / 192`). It holds for every prefix when b is whole
  elements. It fails for a ragged b: one byte after one byte costs 833 in
  Byzantium, against 416 for b alone. The floor is taken once, not per part.

**Out of TLAPS's reach, and kept for TLC:**
- the value half of the refinements, i.e. which 0/1 or which point a
  successful call returns. For ECPAIRING it needs `FoldPairing(vals)`
  related to the `SumFunction` of `PairingSum`, which is induction over
  data. For ECADD/ECMUL it needs `G1Add`/`G1Mul` related to discrete logs
  over `CHOOSE`. The status and error half is proved, as above;
- the type invariant of `Bn128AddMul`. It needs `G1Mul`'s result to be a
  point with coordinates in Fq. That is induction over the scalar for a
  recursive function. Each `G1Add` step also needs `FqInv`, a `CHOOSE` that
  has a value in Fq only for points on the curve, i.e. the group law itself;
- everything about the curve oracle that rests on `CHOOSE` over the group
  (discrete logarithms);
- `FoldPairing` is a recursive function, but a statement of what it computes
  for every input needs induction over data, which the installed provers
  cannot instantiate.

## 6. Not modelled

- The `bn` crate's internals (Jacobian arithmetic, the Miller loop, the final
  exponentiation): not in this repository, and replaced by the oracle.
- The byte-level copying (`copy_from_slice`, `to_big_endian`): abstracted to
  lanes.
- The unit tests (bn128.rs 336-611) and `engine-tests`: test harnesses.

## 7. Plan for the next sittings

Done:
- the proof of `PairLoopInv`;
- the abstract spec of ECADD/ECMUL and its refinement;
- proofs that every call of both models ends with the specified status and
  error, for ECPAIRING as a refinement up to the 0/1 answer
  (`RefinesUpToValue`, `OutcomeAsSpecified`).

Left:
1. The rest of the refinement proof `Spec => Abs!Spec` for ECPAIRING.
   Everything but the 0/1 of `PairFold` is proved (`RefinesUpToValue`). That
   value needs `FoldPairing(vals)` related to `PairingSum`, which is induction
   over data. It stays with TLC unless it is restated over a fixed bound.
2. The host registry of spec 4.5 (address and fork to an instance). Its code
   is not in this repository, and it would compose components that do not
   interact. It stays partly modelled: only the host's call and return are
   modelled.
