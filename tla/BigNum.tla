------------------------------- MODULE BigNum -------------------------------
(***************************************************************************)
(* Multiple precision arithmetic: libtommath.h and the bignum and RSA       *)
(* functions on it (common/wpa_supplicant/src/tls), which carry the modular *)
(* exponentiations of the TLS engine.  The digits, words and bytes have     *)
(* fewer bits than in the code (28, 64 and 8), so that the limits at which  *)
(* the code changes algorithm lie within a few digits.                      *)
(*                                                                          *)
(* An mp_int keeps the digits it has allocated, also those above `used`: a  *)
(* number is written over what its variable held before, and one function   *)
(* leaves the digit above its result unset (`junk`).  Allocation does not   *)
(* fail.  A write outside the allocation gives the sign Overrun.            *)
(***************************************************************************)
EXTENDS Integers, Sequences, FiniteSets, SequencesExt

CONSTANTS
  DIGIT_BIT,   \* bits of a digit
  WORD_BIT,    \* bits of an mp_word
  BYTE_BIT,    \* bits of a byte of input and output
  MP_PREC,     \* digits are allocated in multiples of this
  Bytes,       \* the byte strings read at the start
  Exponents,   \* byte strings: the exponents and moduli of modular exponentiation
  RsaKeys,     \* RSA keys: [n, e, p, q, dmp1, dmq1, iqmp], as byte strings
  MaxOps       \* bound: operations on the registers

VARIABLES
  fast,   \* built with LTM_FAST?
  junk,   \* what W[pa] of fast_s_mp_mul_digs holds
  reg,    \* three mp_ints
  val,    \* the integers they stand for
  ret,    \* what the last operation returned: a value, and the value it should be
  ops

vars == <<fast, junk, reg, val, ret, ops>>

B == 2 ^ DIGIT_BIT
MP_WARRAY == 2 ^ (WORD_BIT - 2 * DIGIT_BIT + 1)
Comba == 2 ^ (WORD_BIT - 2 * DIGIT_BIT)
MP_ZPOS == 0
MP_NEG == 1
Overrun == 2

\* F of the value of e, which is computed once.
With(e, F(_)) == CHOOSE z \in {F(y) : y \in {e}} : z = z

Fold(Op(_, _), base, seq) == FoldLeft(LAMBDA a, x : With(a, LAMBDA b : Op(b, x)), base, seq)

Minimum(i, j) == IF i < j THEN i ELSE j
Zeros(n) == [i \in 1 .. n |-> 0]

mp_init == [sign |-> MP_ZPOS, used |-> 0, dp |-> Zeros(MP_PREC)]

\* Digit i of a, counted from 1; 0 above the used ones.
D(a, i) == IF i <= a.used THEN a.dp[i] ELSE 0

mp_grow(a, size) ==
  IF Len(a.dp) >= size THEN a
  ELSE [a EXCEPT !.dp = @ \o Zeros(size + 2 * MP_PREC - (size % MP_PREC) - Len(a.dp))]

mp_clamp(a) ==
  LET top == CHOOSE n \in 0 .. a.used : /\ n = 0 \/ a.dp[n] # 0
                                        /\ \A i \in n + 1 .. a.used : a.dp[i] = 0
  IN  [a EXCEPT !.used = top, !.sign = IF top = 0 /\ @ # Overrun THEN MP_ZPOS ELSE @]

\* The digits w are written to c from its bottom, `used` of them count, and the
\* digits c had above them are cleared.
Write(c, w, used) ==
  IF Len(w) > Len(c.dp) \/ used > Len(c.dp) THEN [c EXCEPT !.sign = Overrun]
  ELSE [c EXCEPT !.used = used,
          !.dp = [i \in 1 .. Len(c.dp) |-> IF i <= Len(w) THEN w[i] ELSE IF i <= c.used THEN 0 ELSE @[i]]]

mp_zero(a) == [a EXCEPT !.sign = MP_ZPOS, !.used = 0, !.dp = Zeros(Len(a.dp))]
mp_set(a, b) == [mp_zero(a) EXCEPT !.dp[1] = b % B, !.used = IF b % B = 0 THEN 0 ELSE 1]
mp_copy(a, b) == [Write(mp_grow(b, a.used), SubSeq(a.dp, 1, a.used), a.used) EXCEPT !.sign = IF @ = Overrun THEN @ ELSE a.sign]
mp_abs(a) == [a EXCEPT !.sign = MP_ZPOS]

mp_cmp_mag(a, b) ==
  LET differ == {i \in 1 .. a.used : a.dp[i] # b.dp[i]}
      top == CHOOSE i \in differ : \A j \in differ : j <= i
  IN  IF a.used # b.used THEN IF a.used > b.used THEN 1 ELSE -1
      ELSE IF differ = {} THEN 0 ELSE IF a.dp[top] > b.dp[top] THEN 1 ELSE -1

mp_cmp(a, b) ==
  IF a.sign # b.sign THEN IF a.sign = MP_NEG THEN -1 ELSE 1
  ELSE IF a.sign = MP_NEG THEN mp_cmp_mag(b, a) ELSE mp_cmp_mag(a, b)

\* The lowest digit is read also of a number that has none.
mp_cmp_d(a, b) ==
  IF a.sign = MP_NEG THEN -1 ELSE IF a.used > 1 THEN 1
  ELSE IF a.dp[1] > b THEN 1 ELSE IF a.dp[1] < b THEN -1 ELSE 0

-----------------------------------------------------------------------------
\* Columns are added up from the bottom with a carry, in words.
Carry(cols) ==
  LET u[i \in 0 .. Len(cols)] == IF i = 0 THEN 0 ELSE ((cols[i] + u[i - 1]) % 2 ^ WORD_BIT) \div B
  IN  [digits |-> [i \in 1 .. Len(cols) |-> (cols[i] + u[i - 1]) % B], carry |-> u[Len(cols)]]

\* Mutant: the carry out of the shorter number is lost.
s_mp_add_DropCarry(a, b, c) ==
  LET n == IF a.used > b.used THEN a.used ELSE b.used
      m == Minimum(a.used, b.used)
      r == Carry([i \in 1 .. m |-> a.dp[i] + b.dp[i]])
      x == IF a.used > b.used THEN a ELSE b
  IN  mp_clamp(Write(mp_grow(c, n + 1),
                     IF m = n THEN Append(r.digits, r.carry) ELSE r.digits \o SubSeq(x.dp, m + 1, n), n))

s_mp_add(a, b, c) ==
  LET n == IF a.used > b.used THEN a.used ELSE b.used
      r == Carry([i \in 1 .. n |-> D(a, i) + D(b, i)])
  IN  mp_clamp(Write(mp_grow(c, n + 1), Append(r.digits, r.carry), n + 1))

\* |a| - |b| for |a| >= |b|: the borrow is the top bit of the digit's type.
s_mp_sub(a, b, c) ==
  LET w == 2 ^ (DIGIT_BIT + 4)
      u[i \in 0 .. a.used] == IF i = 0 THEN 0 ELSE ((D(a, i) - D(b, i) - u[i - 1]) % w) \div (w \div 2)
  IN  mp_clamp(Write(mp_grow(c, a.used), [i \in 1 .. a.used |-> (D(a, i) - D(b, i) - u[i - 1]) % B], a.used))

mp_add(a, b, c) ==
  IF a.sign = b.sign THEN s_mp_add(a, b, [c EXCEPT !.sign = a.sign])
  ELSE IF mp_cmp_mag(a, b) = -1 THEN s_mp_sub(b, a, [c EXCEPT !.sign = b.sign])
  ELSE s_mp_sub(a, b, [c EXCEPT !.sign = a.sign])

mp_sub(a, b, c) ==
  IF a.sign # b.sign THEN s_mp_add(a, b, [c EXCEPT !.sign = a.sign])
  ELSE IF mp_cmp_mag(a, b) # -1 THEN s_mp_sub(a, b, [c EXCEPT !.sign = a.sign])
  ELSE s_mp_sub(b, a, [c EXCEPT !.sign = 1 - a.sign])

-----------------------------------------------------------------------------
\* Shifts by whole digits and by bits.
mp_rshd(a, b) ==
  IF b <= 0 THEN a ELSE IF a.used <= b THEN mp_zero(a)
  ELSE Write(a, SubSeq(a.dp, b + 1, a.used), a.used - b)

mp_lshd(a, b) ==
  IF b <= 0 THEN a ELSE Write(mp_grow(a, a.used + b), Zeros(b) \o SubSeq(a.dp, 1, a.used), a.used + b)

mp_mul_2d(a, b) ==
  LET d == 2 ^ (b % DIGIT_BIT)
      bits(s, r) == IF r.carry = 0 THEN Write(s, r.digits, s.used) ELSE Write(s, Append(r.digits, r.carry), s.used + 1)
  IN  With(mp_lshd(mp_grow(a, a.used + b \div DIGIT_BIT + 1), b \div DIGIT_BIT),
           LAMBDA s : mp_clamp(bits(s, Carry([i \in 1 .. s.used |-> s.dp[i] * d]))))

mp_mod_2d(a, b, c) ==
  LET q == b \div DIGIT_BIT
      cut(e) == [e EXCEPT !.dp = [i \in DOMAIN @ |->
                   IF i <= q THEN @[i] ELSE IF i = q + 1 THEN @[i] % 2 ^ (b % DIGIT_BIT)
                   ELSE IF i <= e.used THEN 0 ELSE @[i]]]
  IN  IF b <= 0 THEN mp_zero(c) ELSE IF b >= a.used * DIGIT_BIT THEN mp_copy(a, c)
      ELSE With(mp_copy(a, c), LAMBDA e : mp_clamp(cut(e)))

\* The quotient, written to c.
mp_div_2d(a, b, c) ==
  LET d == 2 ^ (b % DIGIT_BIT)
      bits(s) == [i \in 1 .. s.used |-> (s.dp[i] \div d) + ((D(s, i + 1) * (B \div d)) % B)]
  IN  IF b <= 0 THEN mp_copy(a, c)
      ELSE With(mp_rshd(mp_copy(a, c), b \div DIGIT_BIT), LAMBDA s : mp_clamp(Write(s, bits(s), s.used)))

mp_count_bits(a) ==
  IF a.used = 0 THEN 0
  ELSE (a.used - 1) * DIGIT_BIT + (CHOOSE n \in 0 .. DIGIT_BIT : a.dp[a.used] < 2 ^ n /\ (n = 0 \/ a.dp[a.used] >= 2 ^ (n - 1)))

mp_2expt(a, b) ==
  LET g == mp_grow(mp_zero(a), b \div DIGIT_BIT + 1)
  IN  [g EXCEPT !.used = b \div DIGIT_BIT + 1, !.dp[b \div DIGIT_BIT + 1] = 2 ^ (b % DIGIT_BIT)]

-----------------------------------------------------------------------------
\* Column i of the product of a and b.
Column(a, b, i) ==
  LET p[j \in 0 .. i] == IF j = 0 THEN 0 ELSE D(a, j) * D(b, i + 1 - j) + p[j - 1] IN p[i] % 2 ^ WORD_BIT

\* The lowest digs digits of the product, in columns.  The digit above is copied from
\* an element of W that has not been set.
fast_s_mp_mul_digs(a, b, c, digs) ==
  LET pa == Minimum(digs, a.used + b.used)
      r == Carry([i \in 1 .. pa |-> Column(a, b, i)])
  IN  mp_clamp(Write(mp_grow(c, digs), Append(r.digits, junk), pa))

\* Row by row, into a fresh number: each partial product is added up with its carry.
Rows(a, b, low, top, t0) ==
  LET row[i \in 0 .. a.used] ==
        IF i = 0 THEN t0
        ELSE LET from == IF low >= i THEN low + 1 ELSE i
                 to == Minimum(b.used + i - 1, top)
                 new(t, r) == [j \in 1 .. Len(t) |-> IF j >= from /\ j <= to THEN r.digits[j - from + 1]
                                ELSE IF j = (IF to < from THEN from ELSE to + 1) /\ j <= top THEN r.carry ELSE t[j]]
             IN  With(row[i - 1], LAMBDA t :
                   new(t, Carry([j \in 1 .. (IF to < from THEN 0 ELSE to - from + 1) |->
                                  t[from + j - 1] + a.dp[i] * D(b, from + j - i)])))
  IN  row[a.used]

s_mp_mul_digs(a, b, c, digs) ==
  IF digs < MP_WARRAY /\ Minimum(a.used, b.used) < Comba THEN fast_s_mp_mul_digs(a, b, c, digs)
  ELSE LET t == mp_grow(mp_init, digs)
       IN  mp_clamp([t EXCEPT !.used = digs, !.dp = Rows(a, b, 0, digs, t.dp)])

\* The digits of the product above the lowest digs, without the carry out of those.
s_mp_mul_high_digs(a, b, digs) ==
  LET n == a.used + b.used + 1
      t == mp_grow(mp_init, n)
  IN  mp_clamp([t EXCEPT !.used = n, !.dp = Rows(a, b, digs, n, t.dp)])

mp_mul(a, b, c) ==
  With(s_mp_mul_digs(a, b, c, a.used + b.used + 1), LAMBDA r :
       IF r.sign = Overrun THEN r
       ELSE [r EXCEPT !.sign = IF r.used > 0 /\ a.sign # b.sign THEN MP_NEG ELSE MP_ZPOS])

\* Row i adds the square of digit i and twice its products with the digits above.
s_mp_sqr(a) ==
  LET n == 2 * a.used + 1
      t0 == mp_grow(mp_init, n)
      row[i \in 0 .. a.used] ==
        IF i = 0 THEN t0.dp
        ELSE LET new(t, r) == [j \in 1 .. Len(t) |-> IF j > 2 * i - 2 /\ j <= n THEN r.digits[j - 2 * i + 2] ELSE t[j]]
             IN  With(row[i - 1], LAMBDA t :
                   new(t, Carry([j \in 1 .. n - 2 * i + 2 |-> t[2 * i - 2 + j] +
                                  IF j = 1 THEN a.dp[i] ^ 2 ELSE 2 * a.dp[i] * D(a, i + j - 1)])))
  IN  mp_clamp([t0 EXCEPT !.used = n, !.dp = row[a.used]])

fast_s_mp_sqr(a, b) ==
  LET half(i) == LET p[j \in 0 .. i] == IF j = 0 THEN 0
                       ELSE (IF j < i + 1 - j THEN D(a, j) * D(a, i + 1 - j) ELSE 0) + p[j - 1] IN p[i]
      col(i) == 2 * half(i) + IF i % 2 = 1 THEN D(a, (i + 1) \div 2) ^ 2 ELSE 0
      r == Carry([i \in 1 .. 2 * a.used |-> col(i)])
  IN  mp_clamp(Write(mp_grow(b, 2 * a.used), r.digits, 2 * a.used))

mp_sqr(a, b) ==
  [(IF fast /\ 2 * a.used + 1 < MP_WARRAY /\ a.used < Comba \div 2 THEN fast_s_mp_sqr(a, b) ELSE s_mp_sqr(a))
     EXCEPT !.sign = IF @ = Overrun THEN @ ELSE MP_ZPOS]

mp_mul_d(a, b, c) ==
  LET r == Carry([i \in 1 .. a.used |-> a.dp[i] * b])
  IN  mp_clamp([Write(mp_grow(c, a.used + 1), Append(r.digits, r.carry), a.used + 1) EXCEPT !.sign = IF @ = Overrun THEN @ ELSE a.sign])

-----------------------------------------------------------------------------
(***************************************************************************)
(* Division: [err, q, r].  Without LTM_FAST the divisor is shifted up and   *)
(* subtracted on its way down; with it digits of the quotient are guessed   *)
(* from the top digits and corrected.                                       *)
(***************************************************************************)
DivSmall(a, b) ==
  LET n == mp_count_bits(a) - mp_count_bits(b)
      next(t, sub) == [ta |-> IF sub THEN mp_sub(t.ta, t.tb, t.ta) ELSE t.ta,
                       q  |-> IF sub THEN mp_add(t.q, t.tq, t.q) ELSE t.q,
                       tb |-> mp_div_2d(t.tb, 1, t.tb), tq |-> mp_div_2d(t.tq, 1, t.tq)]
      step[k \in 0 .. n + 1] ==
        IF k = 0 THEN [ta |-> mp_abs(a), tb |-> mp_mul_2d(mp_abs(b), n), tq |-> mp_mul_2d(mp_set(mp_init, 1), n), q |-> mp_init]
        ELSE With(step[k - 1], LAMBDA t : next(t, mp_cmp(t.tb, t.ta) # 1))
  IN  With(step[n + 1], LAMBDA e :
        [err |-> FALSE,
         q |-> [e.q EXCEPT !.sign = IF e.q.used = 0 THEN MP_ZPOS ELSE IF a.sign = b.sign THEN MP_ZPOS ELSE MP_NEG],
         r |-> [e.ta EXCEPT !.sign = IF e.ta.used = 0 THEN MP_ZPOS ELSE a.sign]])

\* A number made of the digits w, not clamped.
Raw(w) == [sign |-> MP_ZPOS, used |-> Len(w), dp |-> w]

\* Digit i - t - 1 of the quotient (x, y and the indices as in the code, counted from 0).
GuessDigit(x, y, i, t) ==
  LET X(k) == IF k < 0 THEN 0 ELSE x.dp[k + 1]
      Y(k) == IF k < 0 THEN 0 ELSE y.dp[k + 1]
      first == IF X(i) = Y(t) THEN B - 1 ELSE Minimum((X(i) * B + X(i - 1)) \div Y(t), B - 1)
      fits(q) == mp_cmp_mag(mp_mul_d(Raw(<<Y(t - 1), Y(t)>>), q, mp_init), Raw(<<X(i - 2), X(i - 1), X(i)>>)) # 1
  IN  CHOOSE q \in 0 .. first : fits(q) /\ \A p \in q + 1 .. first : ~fits(p)

\* The normalised numbers x and y: the top digit by subtraction, then a digit at a time.
DivDigits(x0, y) ==
  LET n == x0.used - 1
      t == y.used - 1
      ys == mp_lshd(y, n - t)
      top == CHOOSE k \in 0 .. B : /\ mp_cmp(x0, mp_mul_d(ys, k, mp_init)) # -1
                                    /\ mp_cmp(x0, mp_mul_d(ys, k + 1, mp_init)) = -1
      \* The guess g for digit i - t - 1 may still be one too large.
      fix(s, x, g, i) == IF x.sign = MP_NEG
        THEN [x |-> mp_add(x, mp_lshd(y, i - t - 1), x), q |-> [s.q EXCEPT ![i - t - 1] = (g - 1) % B]]
        ELSE [x |-> x, q |-> [s.q EXCEPT ![i - t - 1] = g]]
      digit(s, i) == IF i > s.x.used THEN s
        ELSE With(GuessDigit(s.x, y, i, t), LAMBDA g :
               With(mp_sub(s.x, mp_lshd(mp_mul_d(y, g, mp_init), i - t - 1), s.x), LAMBDA x : fix(s, x, g, i)))
      step[k \in 0 .. n - t] ==
        IF k = 0 THEN [x |-> mp_sub(x0, mp_mul_d(ys, top, mp_init), x0), q |-> [j \in 0 .. n - t |-> IF j = n - t THEN top ELSE 0]]
        ELSE With(step[k - 1], LAMBDA s : digit(s, n + 1 - k))
  IN  step[n - t]

DivFast(a, b) ==
  LET bits == mp_count_bits(b) % DIGIT_BIT
      norm == IF bits < DIGIT_BIT - 1 THEN DIGIT_BIT - 1 - bits ELSE 0
      up(v) == mp_mul_2d(mp_abs(mp_copy(v, mp_init)), norm)
      quotient(f) == mp_clamp(Raw([j \in 1 .. Cardinality(DOMAIN f) |-> f[j - 1]]))
  IN  With(up(a), LAMBDA x : With(up(b), LAMBDA y : With(DivDigits(x, y), LAMBDA e :
        [err |-> FALSE, q |-> [quotient(e.q) EXCEPT !.sign = IF a.sign = b.sign THEN MP_ZPOS ELSE MP_NEG],
         r |-> mp_div_2d([e.x EXCEPT !.sign = IF e.x.used = 0 THEN MP_ZPOS ELSE a.sign], norm, e.x)])))

mp_div(a, b) ==
  IF b.used = 0 THEN [err |-> TRUE, q |-> mp_init, r |-> mp_init]
  ELSE IF mp_cmp_mag(a, b) = -1 THEN [err |-> FALSE, q |-> mp_init, r |-> mp_copy(a, mp_init)]
  ELSE IF fast THEN DivFast(a, b) ELSE DivSmall(a, b)

mp_mod(a, b, c) ==
  With(mp_div(a, b), LAMBDA d :
       [err |-> d.err, v |-> IF d.err THEN c ELSE IF d.r.sign # b.sign THEN mp_add(b, d.r, c) ELSE d.r])

mp_mulmod(a, b, m, d) == With(mp_mul(a, b, mp_init), LAMBDA t : mp_mod(t, m, d))

-----------------------------------------------------------------------------
\* Barrett reduction: mu is B^2k / m, and the quotient is off by a few at most.
mp_reduce_setup(m) == mp_div(mp_2expt(mp_init, m.used * 2 * DIGIT_BIT), m)

mp_reduce(x, m, mu) ==
  LET um == m.used
      Times(q) == IF um > B \div 2 THEN mp_mul(q, mu, q) ELSE s_mp_mul_high_digs(q, mu, um)
      Positive(y, q) == IF mp_cmp_d(y, 0) = -1 THEN mp_add(y, mp_lshd(mp_set(q, 1), um + 1), y) ELSE y
      Down(y) == LET f[k \in 0 .. 3] == IF k = 0 THEN y
                       ELSE With(f[k - 1], LAMBDA p : IF mp_cmp(p, m) # -1 THEN s_mp_sub(p, m, p) ELSE p)
                 IN  f[3]
  IN  With(mp_rshd(mp_copy(x, mp_init), um - 1), LAMBDA q0 :
      With(mp_rshd(Times(q0), um + 1), LAMBDA q1 :
      With(mp_mod_2d(x, DIGIT_BIT * (um + 1), x), LAMBDA x1 :
      With(s_mp_mul_digs(q1, m, q1, um + 1), LAMBDA q2 :
      With(mp_sub(x1, q2, x1), LAMBDA x2 : With(Positive(x2, q2), LAMBDA x3 : Down(x3)))))))

\* Montgomery reduction by one digit of the modulus at a time.
mp_montgomery_setup(m) ==
  LET w == 2 ^ (DIGIT_BIT + 4)
      b == m.dp[1]
      x0 == 2 * (IF (b + 2) % 8 >= 4 THEN 4 ELSE 0) + b
      next(x) == (x * ((2 - ((b * x) % w)) % w)) % w
  IN  (B - (next(next(next(x0))) % B)) % B

fast_mp_montgomery_reduce(x, m, rho) ==
  LET n == m.used
      w0 == [i \in 1 .. 2 * n + 2 |-> D(x, i)]
      add(w, i, mu) == [j \in DOMAIN w |-> (w[j] + (IF j >= i /\ j < i + n THEN mu * m.dp[j - i + 1] ELSE 0)) % 2 ^ WORD_BIT]
      step[i \in 0 .. n] ==
        IF i = 0 THEN w0
        ELSE With(step[i - 1], LAMBDA w : With(add(w, i, ((w[i] % B) * rho) % B), LAMBDA v :
               [v EXCEPT ![i + 1] = (@ + v[i] \div B) % 2 ^ WORD_BIT]))
  IN  With(Carry(SubSeq(step[n], n + 1, 2 * n + 1)), LAMBDA r :
      With(mp_clamp(Write(mp_grow(x, n + 1), r.digits, n + 1)), LAMBDA y :
           IF mp_cmp_mag(y, m) # -1 THEN s_mp_sub(y, m, y) ELSE y))

mp_mul_2(a) ==
  LET r == Carry([i \in 1 .. a.used |-> 2 * a.dp[i]])
      g == mp_grow(a, a.used + 1)
  IN  IF r.carry = 0 THEN Write(g, r.digits, a.used) ELSE Write(g, Append(r.digits, r.carry), a.used + 1)

\* B^used modulo m, by doubling.
mp_montgomery_calc_normalization(m) ==
  LET bits == mp_count_bits(m) % DIGIT_BIT
      n == IF m.used > 1 THEN DIGIT_BIT - bits + 1 ELSE DIGIT_BIT
      a0 == IF m.used > 1 THEN mp_2expt(mp_init, (m.used - 1) * DIGIT_BIT + bits - 1) ELSE mp_set(mp_init, 1)
      a[k \in 0 .. n] == IF k = 0 THEN a0
                         ELSE With(a[k - 1], LAMBDA h : With(mp_mul_2(h), LAMBDA d :
                                IF mp_cmp_mag(d, m) # -1 THEN s_mp_sub(d, m, d) ELSE d))
  IN  a[n]
-----------------------------------------------------------------------------
(***************************************************************************)
(* Modular exponentiation with a sliding window over the bits of X, from    *)
(* the top; zeros between windows are squared away.                         *)
(***************************************************************************)
WindowSize(x) ==
  LET n == mp_count_bits(x) IN IF n <= 7 THEN 2 ELSE IF n <= 36 THEN 3 ELSE IF n <= 140 THEN 4 ELSE 5

BitsOf(x) ==
  [k \in 1 .. x.used * DIGIT_BIT |->
     LET dig == x.used - (k - 1) \div DIGIT_BIT
     IN  (x.dp[dig] \div 2 ^ (DIGIT_BIT - 1 - ((k - 1) % DIGIT_BIT))) % 2]

\* What is done to the result for the bits of x: 0 is a squaring, k > 0 a multiplication
\* with M[k].  The bits left in the window go one at a time.
Schedule(x, w) ==
  LET Squares == [k \in 1 .. w |-> 0]
      Next1(s, y) ==
        LET buf == s.buf + y * 2 ^ (w - s.cpy - 1)
        IN  IF y = 0 /\ s.mode = 0 THEN s
            ELSE IF y = 0 /\ s.mode = 1 THEN [s EXCEPT !.todo = Append(@, 0)]
            ELSE IF s.cpy + 1 < w THEN [s EXCEPT !.mode = 2, !.cpy = @ + 1, !.buf = buf]
            ELSE [todo |-> Append(s.todo \o Squares, buf), mode |-> 1, cpy |-> 0, buf |-> 0]
      Rest(e, k) == IF (e.buf \div 2 ^ (w - k)) % 2 = 1 THEN <<0, 1>> ELSE <<0>>
      End(e) == IF e.mode # 2 THEN e.todo
                ELSE e.todo \o FlattenSeq([k \in 1 .. e.cpy |-> Rest(e, k)])
  IN  With(Fold(Next1, [todo |-> <<>>, mode |-> 0, cpy |-> 0, buf |-> 0], BitsOf(x)), End)

\* M[k] is g to the power k, for k = 1 and the upper half of the window; one is 1 and g
\* the base in the representation that Red(_) reduces.
SlidingWindow(x, one, g, Red(_)) ==
  LET w == WindowSize(x)
      half == 2 ^ (w - 1)
      Run(M, from, todo) ==
        Fold(LAMBDA r, k : With(IF k = 0 THEN mp_sqr(r, r)
                                    ELSE mp_mul(r, IF k = 1 THEN g ELSE M[k - half + 1], r), Red), from, todo)
      Table(m) == Fold(LAMBDA M, k : With(With(mp_mul(Last(M), g, mp_init), Red), LAMBDA y : Append(M, y)),
                           <<m>>, [k \in 1 .. half - 1 |-> k])
  IN  With(Run(<<>>, mp_copy(g, mp_init), [k \in 1 .. w - 1 |-> 0]), LAMBDA m :
      With(Table(m), LAMBDA M : Run(M, one, Schedule(x, w))))

s_mp_exptmod(g, x, m) ==
  LET one == mp_set(mp_init, 1)
  IN  With(mp_reduce_setup(m), LAMBDA mu :
        IF mu.err THEN [err |-> TRUE, v |-> mp_init]
        ELSE With(mp_mod(g, m, mp_init), LAMBDA b :
               [err |-> FALSE, v |-> SlidingWindow(x, one, b.v, LAMBDA r : mp_reduce(r, m, mu.q))]))

mp_exptmod_fast(g, x, m) ==
  IF 2 * m.used + 1 < MP_WARRAY /\ m.used < Comba
  THEN With(mp_montgomery_setup(m), LAMBDA rho : With(mp_montgomery_calc_normalization(m), LAMBDA one :
       With(mp_mulmod(g, one, m, mp_init), LAMBDA b :
       With(SlidingWindow(x, one, b.v, LAMBDA r : fast_mp_montgomery_reduce(r, m, rho)), LAMBDA y :
            [err |-> FALSE, v |-> fast_mp_montgomery_reduce(y, m, rho)]))))
  ELSE [err |-> TRUE, v |-> mp_init]

mp_exptmod(g, x, m) ==
  IF m.sign = MP_NEG \/ x.sign = MP_NEG THEN [err |-> TRUE, v |-> mp_init]
  ELSE IF fast /\ m.used > 0 /\ m.dp[1] % 2 = 1 THEN mp_exptmod_fast(g, x, m) ELSE s_mp_exptmod(g, x, m)

-----------------------------------------------------------------------------
\* Bytes, the most significant first.
mp_read_unsigned_bin(a, bytes) ==
  LET z == mp_zero(mp_grow(a, 2))
      f[k \in 0 .. Len(bytes)] ==
        IF k = 0 THEN z
        ELSE With(f[k - 1], LAMBDA p : With(mp_mul_2d(p, BYTE_BIT), LAMBDA t :
               [t EXCEPT !.dp[1] = ((@ \div 2 ^ BYTE_BIT) * 2 ^ BYTE_BIT) + bytes[k], !.used = @ + 1]))
  IN  With(f[Len(bytes)], LAMBDA t : mp_clamp(t))

mp_unsigned_bin_size(a) == (mp_count_bits(a) + BYTE_BIT - 1) \div BYTE_BIT

mp_to_unsigned_bin(a) ==
  LET n == mp_unsigned_bin_size(a)
      t[k \in 0 .. n] == IF k = 0 THEN a ELSE With(t[k - 1], LAMBDA p : mp_div_2d(p, BYTE_BIT, p))
  IN  Reverse([k \in 1 .. n |-> D(t[k - 1], 1) % 2 ^ BYTE_BIT])

\* The bytes of a padded to the length of the modulus; <<>> is a refusal.
crypto_rsa_exptmod(in, key, use_private) ==
  LET R(b) == mp_read_unsigned_bin(mp_init, b)
      Crt(tmp, y) ==
        With(mp_sub(y[1], y[2], tmp), LAMBDA d :
        With(mp_mulmod(d, R(key.iqmp), R(key.p), tmp), LAMBDA h :
        With(mp_mul(h.v, R(key.q), h.v), LAMBDA m : mp_add(m, y[2], m))))
      todo == IF use_private THEN <<<<key.dmp1, key.p>>, <<key.dmq1, key.q>>>> ELSE <<<<key.e, key.n>>>>
      len == mp_unsigned_bin_size(R(key.n))
      Pad(bytes) == IF Len(bytes) > len THEN <<>> ELSE Zeros(len - Len(bytes)) \o bytes
  IN  With(R(in), LAMBDA tmp :
        IF mp_cmp(R(key.n), tmp) = -1 THEN <<>>
        ELSE With(Fold(LAMBDA ys, t : Append(ys, mp_exptmod(tmp, R(t[1]), R(t[2])).v), <<>>, todo), LAMBDA y :
             Pad(mp_to_unsigned_bin(IF use_private THEN Crt(tmp, y) ELSE y[1]))))

-----------------------------------------------------------------------------
(***************************************************************************)
(* A user of bignum.c with three numbers: any of the functions, with any    *)
(* numbers as operands and as destination.                                  *)
(***************************************************************************)
Number(bytes) ==
  LET f[k \in 0 .. Len(bytes)] == IF k = 0 THEN 0 ELSE f[k - 1] * 2 ^ BYTE_BIT + bytes[k] IN f[Len(bytes)]

Power(g, x, m) ==
  LET f[k \in 0 .. x] == IF k = 0 THEN 1 % m
                         ELSE LET h == f[k \div 2] IN (h * h * (IF k % 2 = 1 THEN g ELSE 1)) % m
  IN  f[x]

Set(c, num, value) ==
  /\ reg' = [reg EXCEPT ![c] = num]
  /\ val' = [val EXCEPT ![c] = value]
  /\ ops' = ops + 1
  /\ UNCHANGED <<fast, junk, ret>>

bignum_add(a, b, c) == ops < MaxOps /\ \E r \in {mp_add(reg[a], reg[b], reg[c])} : Set(c, r, val[a] + val[b])
bignum_sub(a, b, c) == ops < MaxOps /\ \E r \in {mp_sub(reg[a], reg[b], reg[c])} : Set(c, r, val[a] - val[b])
bignum_mul(a, b, c) == ops < MaxOps /\ \E r \in {mp_mul(reg[a], reg[b], reg[c])} : Set(c, r, val[a] * val[b])

\* A modulus is positive: no caller has another.
bignum_mulmod(a, b, m, d) ==
  /\ ops < MaxOps /\ val[m] >= 0
  /\ \E r \in {mp_mulmod(reg[a], reg[b], reg[m], reg[d])} :
       IF r.err THEN ret' = <<0, val[m]>> /\ ops' = ops + 1 /\ UNCHANGED <<fast, junk, reg, val>>
       ELSE Set(d, r.v, (val[a] * val[b]) % val[m])

\* Only LTM_FAST refuses, a modulus too long for its columns.
bignum_exptmod(a, b, m, d) ==
  /\ ops < MaxOps /\ val[m] > 1 /\ val[b] >= 0
  /\ \E r \in {mp_exptmod(reg[a], reg[b], reg[m])} :
       IF r.err THEN ret' = <<1, IF fast THEN 1 ELSE 0>> /\ ops' = ops + 1 /\ UNCHANGED <<fast, junk, reg, val>>
       ELSE Set(d, r.v, Power(val[a], val[b], val[m]))

bignum_cmp(a, b) ==
  /\ ops < MaxOps
  /\ ret' = <<mp_cmp(reg[a], reg[b]), IF val[a] < val[b] THEN -1 ELSE IF val[a] > val[b] THEN 1 ELSE 0>>
  /\ ops' = ops + 1
  /\ UNCHANGED <<fast, junk, reg, val>>

bignum_get_unsigned_bin(a) ==
  /\ ops < MaxOps /\ val[a] >= 0
  /\ ret' = <<Number(mp_to_unsigned_bin(reg[a])), val[a]>>
  /\ ops' = ops + 1
  /\ UNCHANGED <<fast, junk, reg, val>>

\* What was encrypted with the public key comes back with the private one.  The other two
\* numbers play no part.
RsaRoundTrip(key) ==
  /\ ops = 0 /\ val[2] = 0 /\ val[3] = 0
  /\ \E m \in {mp_to_unsigned_bin(reg[1])} :
       /\ Number(m) < Number(key.n)
       /\ \E p \in {Fold(LAMBDA x, use_private : crypto_rsa_exptmod(x, key, use_private), m, <<FALSE, TRUE>>)} :
            ret' = <<Number(p), val[1]>>
  /\ ops' = MaxOps
  /\ UNCHANGED <<fast, junk, reg, val>>

Init ==
  /\ fast \in BOOLEAN /\ junk \in {0, B - 1}
  /\ \E x, y \in Bytes, z \in Exponents, neg \in BOOLEAN :
       /\ reg = <<mp_read_unsigned_bin(mp_init, x),
                  IF neg THEN mp_sub(mp_init, mp_read_unsigned_bin(mp_init, y), mp_init) ELSE mp_read_unsigned_bin(mp_init, y),
                  mp_read_unsigned_bin(mp_init, z)>>
       /\ val = <<Number(x), IF neg THEN -Number(y) ELSE Number(y), Number(z)>>
  /\ ret = <<0, 0>> /\ ops = 0

Regs == 1 .. 3

Next ==
  \/ \E a, b, c \in Regs : bignum_add(a, b, c) \/ bignum_sub(a, b, c) \/ bignum_mul(a, b, c)
  \/ \E a, b, d \in Regs : bignum_mulmod(a, b, 3, d)
  \/ \E a, b \in Regs : bignum_exptmod(a, b, 3, 1)    \* mp_exch replaces the destination whole
  \/ \E a, b \in Regs : bignum_cmp(a, b)
  \/ \E a \in Regs : bignum_get_unsigned_bin(a)
  \/ \E key \in RsaKeys : RsaRoundTrip(key)

Spec == Init /\ [][Next]_vars

Value(a) ==
  LET f[k \in 0 .. a.used] == IF k = 0 THEN 0 ELSE f[k - 1] + a.dp[k] * B ^ (k - 1)
  IN  IF a.sign = MP_NEG THEN -f[a.used] ELSE f[a.used]

\* Whatever numbers a function is given and whichever variable its result overwrites,
\* operands included, the result is that of integer arithmetic, in canonical form (no
\* zero on top, no negative zero) and within its allocation; comparisons, conversions
\* and RSA with the CRT parameters return what they should.
Arithmetic ==
  /\ \A i \in Regs : /\ reg[i].sign \in {MP_ZPOS, MP_NEG} /\ Value(reg[i]) = val[i]
                      /\ IF reg[i].used = 0 THEN reg[i].sign = MP_ZPOS ELSE reg[i].dp[reg[i].used] # 0
  /\ ret[1] = ret[2]
=============================================================================
