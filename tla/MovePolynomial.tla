--------------------------- MODULE MovePolynomial ---------------------------
(***************************************************************************)
(* Interpolation as the Move package does it on chain                      *)
(* (move/seal/sources/polynomial.move and gf256.move): the numerators of   *)
(* the Lagrange polynomials by dividing the full product, the denominators *)
(* as barycentric weights.  Coefficients are not stripped of zeros.        *)
(***************************************************************************)
EXTENDS Integers, Sequences, SequencesExt
LOCAL F == INSTANCE Gf256

g_add(x, y) == F!add(x, y)

g_mul(x, y) ==
  IF x = 0 \/ y = 0 THEN 0 ELSE F!exp(F!log(x) + F!log(y))

\* The divisor is asserted not to be 0; indices are distinct wherever it is used.
g_div(x, y) ==
  IF x = 0 THEN 0 ELSE F!exp(F!log(x) + 255 - F!log(y))

evaluate(p, x) ==
  IF p = <<>> THEN 0
  ELSE FoldRight(LAMBDA c, result : g_add(g_mul(result, x), c), Front(p), Last(p))

get_constant_term(p) == IF p = <<>> THEN 0 ELSE p[1]

degree(p) ==
  LET nonzero == {i \in DOMAIN p : p[i] # 0}
  IN  IF nonzero = {} THEN 0 ELSE Max(nonzero) - 1

\* Synthetic division by x + c, the remainder dropped.
div_by_monic_linear_NoCarry(x, c) ==
  IF Len(x) <= 1 THEN <<>>
  ELSE Reverse([i \in 1 .. Len(x) - 1 |-> x[Len(x) - i + 1]])
div_by_monic_linear(x, c) ==
  IF Len(x) <= 1 THEN <<>>
  ELSE LET n == Len(x)
           quotient[i \in 1 .. n - 1] ==
             IF i = 1 THEN x[n]
             ELSE g_add(x[n - i + 1], g_mul(quotient[i - 1], c))
       IN  Reverse(quotient)

compute_weights(x) ==
  [j \in DOMAIN x |->
     FoldLeft(LAMBDA acc, xi : IF xi = x[j] THEN acc ELSE g_div(acc, g_add(x[j], xi)), 1, x)]

scale(p, s) == [i \in DOMAIN p |-> g_mul(p[i], s)]

Coefficient(p, i) == IF i \in DOMAIN p THEN p[i] ELSE 0

padd(p, q) ==
  [i \in 1 .. Max({Len(p), Len(q)}) |-> g_add(Coefficient(p, i), Coefficient(q, i))]

pmul(p, q) ==
  IF p = <<>> \/ q = <<>> THEN <<>>
  ELSE [k \in 1 .. Len(p) + Len(q) - 1 |->
          FoldSeq(g_add, 0, [j \in 1 .. k |-> g_mul(Coefficient(p, j), Coefficient(q, k - j + 1))])]

compute_numerators(x) ==
  LET full_numerator == FoldLeft(LAMBDA product, x_j : pmul(product, <<x_j, 1>>), <<1>>, x)
  IN  [j \in DOMAIN x |-> div_by_monic_linear(full_numerator, x[j])]

\* One of the polynomials of interpolate_all: through the points (x[j], y[j]).
interpolate_with_numerators(x, y) ==
  LET numerators == compute_numerators(x)
      weights == compute_weights(x)
  IN  FoldLeft(padd, <<>>, [j \in DOMAIN x |-> scale(numerators[j], g_mul(y[j], weights[j]))])
=============================================================================
