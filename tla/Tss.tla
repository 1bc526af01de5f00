-------------------------------- MODULE Tss --------------------------------
(***************************************************************************)
(* Threshold secret sharing as the Rust crate does it, one byte at a time  *)
(* (crates/crypto/src/tss.rs and polynomial.rs).  A polynomial is the      *)
(* sequence of its coefficients, the constant term first; a share is a     *)
(* pair of an index and a byte.                                            *)
(***************************************************************************)
EXTENDS Gf256, SequencesExt

\* Horner's method, from the highest coefficient down.
evaluate(p, x) ==
  FoldRight(LAMBDA coefficient, sum : add(mul(sum, x), coefficient), p, 0)

strip_trailing_zeros(p) ==
  SubSeq(p, 1, Max({0} \cup {i \in DOMAIN p : p[i] # 0}))

Coefficient(p, i) == IF i \in DOMAIN p THEN p[i] ELSE 0

poly_add(p, q) ==
  strip_trailing_zeros(
    [i \in 1 .. Max({Len(p), Len(q)}) |-> add(Coefficient(p, i), Coefficient(q, i))])

poly_scale(p, s) ==
  strip_trailing_zeros([i \in DOMAIN p |-> mul(p[i], s)])

sum(bytes) == FoldSeq(add, 0, bytes)

product(bytes) == FoldSeq(mul, 1, bytes)

poly_mul(p, q) ==
  [k \in 1 .. Len(p) + Len(q) - 1 |->
     sum([j \in 1 .. k |-> mul(Coefficient(p, j), Coefficient(q, k - j + 1))])]

\* The sequence of the other elements of s.
Others(s, j) == SubSeq(s, 1, j - 1) \o SubSeq(s, j + 1, Len(s))

\* Lagrange: for every point the polynomial that is 1 there and 0 at the others.
interpolate(points) ==
  LET term(j) ==
        LET factors == [i \in 1 .. Len(points) - 1 |->
                          LET x_i == Others(points, j)[i][1]
                          IN  poly_scale(<<x_i, 1>>, div(1, add(points[j][1], x_i)))]
        IN  poly_scale(FoldLeft(poly_mul, <<1>>, factors), points[j][2])
  IN  FoldLeft(poly_add, <<>>, [j \in DOMAIN points |-> term(j)])

-----------------------------------------------------------------------------

\* The shares that combine and interpolate accept; InvalidInput for all others.
ValidShares(shares) ==
  /\ shares # <<>>
  /\ \A i \in DOMAIN shares : shares[i][1] # 0
  /\ \A i, j \in DOMAIN shares : shares[i][1] = shares[j][1] => i = j

combine_byte(shares) ==
  LET index(k) == shares[k][1]
      denominator(k) ==
        mul(index(k), product([j \in 1 .. Len(shares) - 1 |->
                                 add(Others(shares, k)[j][1], index(k))]))
  IN  mul(product([k \in DOMAIN shares |-> index(k)]),
          sum([k \in DOMAIN shares |-> div(shares[k][2], denominator(k))]))

\* The sharings that split accepts.
ValidSplit(threshold, number_of_shares) == threshold \in 1 .. number_of_shares

\* The polynomial has the secret as its constant term and `threshold - 1` random
\* coefficients; the shares are its values at 1 .. number_of_shares.
split_byte_FullDegree(secret, threshold, number_of_shares, random) ==
  LET coefficients == <<secret>> \o SubSeq(random, 1, threshold)
  IN  [i \in 1 .. number_of_shares |-> evaluate(coefficients, i)]
split_byte(secret, threshold, number_of_shares, random) ==
  LET coefficients == <<secret>> \o SubSeq(random, 1, threshold - 1)
  IN  [i \in 1 .. number_of_shares |-> evaluate(coefficients, i)]
=============================================================================
