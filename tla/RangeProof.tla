------------------------------ MODULE RangeProof ------------------------------
(***************************************************************************)
(* The range proof of a Pedersen commitment (crates/bulletproof): generate *)
(* and verify, down to the rounds of the weighted inner product argument.  *)
(*                                                                         *)
(* Scalars are the integers modulo a prime Q.  The generators of the code  *)
(* are independent, so a point is the vector of its coefficients.  A value *)
(* has RANGE_PROOF_SIZE bits (128 in the code, a power of two here).  The  *)
(* challenges of the transcript and the random scalars of the prover are   *)
(* parameters: t = [y, z, e], the last e being sync_points of a and b, and *)
(* rnd = [alpha, dl, dr, r, s, delta, n].                                  *)
(***************************************************************************)
EXTENDS Integers, Sequences, SequencesExt, FiniteSetsExt

CONSTANTS Q,                    \* the order of the group
          RANGE_PROOF_SIZE      \* the number of bits of a value; Q > 2 ^ RANGE_PROOF_SIZE

N == RANGE_PROOF_SIZE
Basis == {<<"G", 1>>, <<"H", 1>>} \cup ({"G_BOLD1", "H_BOLD1"} \X (1 .. N))
invert(s) == CHOOSE x \in 1 .. Q - 1 : (x * s) % Q = 1

(***************************************************************************)
(* Points, and the vector operations of vec_ops.rs.                        *)
(***************************************************************************)
Generator(b) == [c \in Basis |-> IF c = b THEN 1 ELSE 0]
G == Generator(<<"G", 1>>)
H == Generator(<<"H", 1>>)
G_BOLD1 == [i \in 1 .. N |-> Generator(<<"G_BOLD1", i>>)]
H_BOLD1 == [i \in 1 .. N |-> Generator(<<"H_BOLD1", i>>)]
IDENTITY == [c \in Basis |-> 0]

\* multiexp of a sequence of pairs of a scalar and a point
multiexp(terms) ==
  [c \in Basis |-> FoldLeft(LAMBDA acc, t : (acc + t[1] * t[2][c]) % Q, 0, terms)]
add(v, s) == [i \in 1 .. Len(v) |-> (v[i] + s) % Q]
sub(v, s) == [i \in 1 .. Len(v) |-> (v[i] - s) % Q]
mul(v, s) == [i \in 1 .. Len(v) |-> (v[i] * s) % Q]
add_all(v, w) == [i \in 1 .. Len(v) |-> (v[i] + w[i]) % Q]
mul_all(v, w) == [i \in 1 .. Len(v) |-> (v[i] * w[i]) % Q]
Total(v) == FoldLeft(LAMBDA acc, x : (acc + x) % Q, 0, v)
wip(v, w, y) == Total([i \in 1 .. Len(v) |-> v[i] * w[i] * y[i]])
new_power(v) == LET power[i \in 1 .. N] == IF i = 1 THEN 1 ELSE (power[i - 1] * v) % Q IN power
Left(v) == SubSeq(v, 1, Len(v) \div 2)
Right(v) == SubSeq(v, Len(v) \div 2 + 1, Len(v))
\* WipStmt::new: the powers of y from the first on
Powers(y) == mul(new_power(y), y)

commit(value, blinding) == multiexp(<< <<value, H>>, <<blinding, G>> >>)
calculate_a_l(value) == [i \in 1 .. N |-> (value \div 2 ^ (i - 1)) % 2]
calculate_a_terms(alpha, a_l, a_r) == Zip(a_l, H_BOLD1) \o Zip(a_r, G_BOLD1) \o << <<alpha, G>> >>

\* calculate_a_hat: the powers of two times the descending powers of y, y^(n+1) and a_hat.
calculate_a_hat(v, a, y, z) ==
  LET powers == new_power(2)
      y_vec == Powers(y)
      y_inv_mul == (y_vec[N] * y) % Q
      y_sum == Total(y_vec)
      powers_y_inv == mul_all(powers, Reverse(y_vec))
      last_term == y_sum * z - Total(powers) * y_inv_mul * z - y_sum * z * z
  IN [two_descending_y |-> powers_y_inv, y_n_plus_one |-> y_inv_mul,
      a_hat |-> multiexp(<< <<1, a>> >> \o Zip([i \in 1 .. N |-> -z], H_BOLD1) \o Zip(add(powers_y_inv, z), G_BOLD1)
                           \o << <<y_inv_mul, v>>, <<last_term, H>> >>)]

(***************************************************************************)
(* The weighted inner product argument.  A round halves the vectors.       *)
(***************************************************************************)
\* Mutant: the exponents of the two halves exchanged in every round.
NextGensSwapped(bold, first, second) ==
  [i \in 1 .. Len(bold) \div 2 |-> multiexp(<< <<second, Left(bold)[i]>>, <<first, Right(bold)[i]>> >>)]
\* next_gens
NextGens(bold, first, second) ==
  [i \in 1 .. Len(bold) \div 2 |-> multiexp(<< <<first, Left(bold)[i]>>, <<second, Right(bold)[i]>> >>)]

GenerateRound(s, y, e, dl, dr) ==
  LET y_n == y[Len(s.a_l) \div 2]
      y_n_inv == invert(y_n)
      e_inv == invert(e)
      a_1 == Left(s.a_l)   a_2 == Right(s.a_l)   b_1 == Left(s.a_r)   b_2 == Right(s.a_r)
      l == multiexp(Zip(mul(a_1, y_n_inv), Right(s.h_bold)) \o Zip(b_2, Left(s.g_bold))
                      \o << <<wip(a_1, b_2, y), H>>, <<dl, G>> >>)
      r == multiexp(Zip(mul(a_2, y_n), Left(s.h_bold)) \o Zip(b_1, Right(s.g_bold))
                      \o << <<wip(mul(a_2, y_n), b_1, y), H>>, <<dr, G>> >>)
  IN [a_l |-> add_all(mul(a_1, e), mul(a_2, y_n * e_inv)),
      a_r |-> add_all(mul(b_1, e_inv), mul(b_2, e)),
      alpha |-> (s.alpha + dl * e * e + dr * e_inv * e_inv) % Q,
      h_bold |-> NextGens(s.h_bold, e_inv, e * y_n_inv),
      g_bold |-> NextGens(s.g_bold, e, e_inv),
      l |-> Append(s.l, l), r |-> Append(s.r, r)]

WipStmt_generate(y, a_l, a_r, alpha, t, rnd) ==
  LET rounds == Len(t.e) - 1
      start == [a_l |-> a_l, a_r |-> a_r, alpha |-> alpha, h_bold |-> H_BOLD1, g_bold |-> G_BOLD1,
                l |-> <<>>, r |-> <<>>]
      state[k \in 0 .. rounds] ==
        IF k = 0 THEN start ELSE GenerateRound(state[k - 1], y, t.e[k], rnd.dl, rnd.dr)
      s == state[rounds]
      p == t.e[rounds + 1]
      cross == rnd.r * y[1] * s.a_r[1] + rnd.s * y[1] * s.a_l[1]
  IN [l |-> s.l, r |-> s.r,
      a |-> multiexp(<< <<rnd.r, s.h_bold[1]>>, <<rnd.s, s.g_bold[1]>>, <<cross, H>>, <<rnd.delta, G>> >>),
      b |-> multiexp(<< <<rnd.r * y[1] * rnd.s, H>>, <<rnd.n, G>> >>),
      r_rev |-> (rnd.r + s.a_l[1] * p) % Q,
      s_rev |-> (rnd.s + s.a_r[1] * p) % Q,
      delta_rev |-> (rnd.n + rnd.delta * p + s.alpha * p * p) % Q]

\* IndexedScalars after the rounds: in the round with n positions left, scalar i sits at (i - 1) % n.
IndexedScalars(e, first(_, _), second(_, _)) ==
  LET n(k) == N \div 2 ^ (k - 1)
      lower(i, k) == (i - 1) % n(k) < n(k) \div 2
      after[k \in 0 .. Len(e) - 1] ==
        [i \in 1 .. N |-> IF k = 0 THEN 1
                          ELSE (after[k - 1][i] * (IF lower(i, k) THEN first(e[k], n(k) \div 2)
                                                                  ELSE second(e[k], n(k) \div 2))) % Q]
  IN after[Len(e) - 1]

WipStmt_verify(a_hat, y, proof, t) ==
  LET rounds == Len(proof.l)
      a_b == t.e[rounds + 1]
      g_scalars == IndexedScalars(t.e, LAMBDA e, n : invert(e), LAMBDA e, n : e * invert(y[n]))
      h_scalars == IndexedScalars(t.e, LAMBDA e, n : e, LAMBDA e, n : invert(e))
      a_hat_terms == << <<1, a_hat>> >> \o [k \in 1 .. rounds |-> <<t.e[k] * t.e[k], proof.l[k]>>]
                       \o [k \in 1 .. rounds |-> <<invert(t.e[k]) * invert(t.e[k]), proof.r[k]>>]
      scaled(terms, s) == [i \in 1 .. Len(terms) |-> <<(terms[i][1] * s) % Q, terms[i][2]>>]
  IN multiexp(scaled(a_hat_terms, -(a_b * a_b))
                \o scaled(Zip(g_scalars, H_BOLD1), proof.r_rev * a_b)
                \o scaled(Zip(h_scalars, G_BOLD1), proof.s_rev * a_b)
                \o << <<-a_b, proof.a>>, <<proof.r_rev * y[1] * proof.s_rev, H>>,
                      <<proof.delta_rev, G>>, <<-1, proof.b>> >>) = IDENTITY

(***************************************************************************)
(* generate and verify.                                                    *)
(***************************************************************************)
generate(value, blinding, t, rnd) ==
  LET a_l == calculate_a_l(value)
      a_r == sub(a_l, 1)
      a == multiexp(calculate_a_terms(rnd.alpha, a_l, a_r))
      hat == calculate_a_hat(commit(value, blinding), a, t.y, t.z)
  IN [a |-> a,
      wip |-> WipStmt_generate(Powers(t.y), sub(a_l, t.z), add_all(a_r, add(hat.two_descending_y, t.z)),
                               (rnd.alpha + blinding * hat.y_n_plus_one) % Q, t, rnd)]

verify(commitment, proof, t) ==
  WipStmt_verify(calculate_a_hat(commitment, proof.a, t.y, t.z).a_hat, Powers(t.y), proof.wip, t)
=============================================================================
