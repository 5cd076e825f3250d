--------------------------------- MODULE Floats ---------------------------------
(***************************************************************************)
(* Conversions between integers and binary floats, done on their bits      *)
(* (primitives/src/lib.rs).  The code has f32 and f64; here a format is any *)
(* width of fraction and any bias, so that every value of a small format    *)
(* can be tried.                                                            *)
(***************************************************************************)
EXTENDS Outcome, FiniteSets, FiniteSetsExt

CONSTANTS WordBits      \* 64

\* A float is its three fields; the top exponent is that of infinity and NaN.
TopExponent(format) == 2 * format.bias + 1
Zero(sign) == [sign |-> sign, exponent |-> 0, fraction |-> 0]
Infinity(format, sign) == [sign |-> sign, exponent |-> TopExponent(format), fraction |-> 0]
IsFinite(format, x) == x.exponent # TopExponent(format)
IsZero(x) == x.exponent = 0 /\ x.fraction = 0

Log2(v) == Max({e \in 0..WordBits : 2^e <= v})

\* round_shift_right: to the nearest, a half to the even one.
RoundShiftRight(value, shift) ==
    LET truncated == value \div 2^shift
        remainder == value % 2^shift
        halfway   == 2^(shift - 1)
    IN  IF shift = 0 THEN value ELSE IF shift >= WordBits THEN 0
        ELSE truncated + (IF \/ remainder > halfway
                             \/ remainder = halfway /\ truncated % 2 = 1
                            THEN 1 ELSE 0)

\* u64_to_f64, u64_to_f32 and those built on them: a significand that rounds up
\* to the next power of two raises the exponent.
FromUnsigned(format, value) ==
    LET e == Log2(value)
        significand == IF e > format.fraction
                         THEN RoundShiftRight(value, e - format.fraction)
                         ELSE value * 2^(format.fraction - e)
        carry == significand = 2^(format.fraction + 1)
    IN  IF value = 0 THEN Zero(0)
        ELSE [sign |-> 0, exponent |-> e + format.bias + (IF carry THEN 1 ELSE 0),
              fraction |-> IF carry THEN 0 ELSE significand % 2^format.fraction]

\* i32_to_f32.
FromSigned(format, value) ==
    IF value < 0 THEN [FromUnsigned(format, -value) EXCEPT !.sign = 1]
    ELSE FromUnsigned(format, value)

\* f64_to_f32: NaN stays a quiet NaN, what is too large becomes infinite, what
\* is below the smallest normal number a subnormal one or zero.
Narrowed(wide, narrow, x) ==
    LET dropped  == wide.fraction - narrow.fraction
        quiet    == 2^(narrow.fraction - 1)
        payload  == Max({x.fraction \div 2^dropped, 1})
        unbiased == x.exponent - wide.bias
        significand == x.fraction + 2^wide.fraction
        rounded  == RoundShiftRight(significand, dropped)
        carry    == rounded = 2^(narrow.fraction + 1)
        exponent == unbiased + narrow.bias + (IF carry THEN 1 ELSE 0)
        low      == RoundShiftRight(significand, dropped - unbiased - (narrow.bias - 1))
    IN  CASE ~IsFinite(wide, x) /\ x.fraction = 0 -> Infinity(narrow, x.sign)
          [] ~IsFinite(wide, x) /\ x.fraction # 0 ->
               [Infinity(narrow, x.sign) EXCEPT !.fraction = quiet + (payload % quiet)]
          [] x.exponent = 0 -> Zero(x.sign)
          [] x.exponent # 0 /\ IsFinite(wide, x) /\ unbiased > narrow.bias ->
               Infinity(narrow, x.sign)
          [] x.exponent # 0 /\ unbiased \in (1 - narrow.bias)..narrow.bias ->
               IF exponent >= TopExponent(narrow) THEN Infinity(narrow, x.sign)
               ELSE [sign |-> x.sign, exponent |-> exponent,
                     fraction |-> IF carry THEN 0 ELSE rounded % 2^narrow.fraction]
          [] x.exponent # 0 /\ unbiased < 1 - narrow.bias ->
               IF low >= 2^narrow.fraction THEN [Zero(x.sign) EXCEPT !.exponent = 1]
               ELSE [Zero(x.sign) EXCEPT !.fraction = low]

\* The integer part of a finite number, its sign aside.
Magnitude(format, x) ==
    LET e == x.exponent - format.bias
        significand == x.fraction + 2^format.fraction
    IN  IF x.exponent = 0 \/ e < 0 THEN 0
        ELSE IF e >= format.fraction THEN significand * 2^(e - format.fraction)
        ELSE significand \div 2^(format.fraction - e)

\* trunc_f32_to_usize: minus zero is zero, all below it is refused.
TruncUnsigned(format, maximum, x) ==
    IF \/ ~IsFinite(format, x) \/ (x.sign = 1 /\ ~IsZero(x))
       \/ Magnitude(format, x) > maximum
      THEN Refused ELSE Ok(Magnitude(format, x))

\* trunc_f32_to_isize: the least integer has no positive counterpart.
TruncSigned(format, maximum, x) ==
    IF ~IsFinite(format, x) THEN Refused
    ELSE LET m == Magnitude(format, x)
         IN  IF x.sign = 1 /\ m <= maximum + 1 THEN Ok(-m)
             ELSE IF x.sign = 0 /\ m <= maximum THEN Ok(m)
             ELSE Refused

\* integral_f64_to_i64: as above, but a fraction is refused.
IntegralToSigned(format, maximum, x) ==
    LET e == x.exponent - format.bias
        whole == \/ IsZero(x)
                 \/ /\ x.exponent # 0 /\ e >= 0
                    /\ e < format.fraction =>
                         x.fraction % 2^(format.fraction - e) = 0
    IN  IF whole THEN TruncSigned(format, maximum, x) ELSE Refused

\* The checked conversions between integer types.
Fits(value, least, greatest) == IF value \in least..greatest THEN Ok(value) ELSE Refused

----------------------------------------------------------------------------
(* What a conversion should give: all there is to choose from, and the       *)
(* nearest of it.  Numbers are counted in units of 2^-units.                  *)

Counted(format, x, units) ==
    LET significand == x.fraction + (IF x.exponent = 0 THEN 0 ELSE 2^format.fraction)
        power == Max({x.exponent, 1}) - format.bias - format.fraction + units
    IN  (IF x.sign = 1 THEN -1 ELSE 1) * significand * 2^power

\* The finite numbers of a format, and the one that would follow the largest.
Numbers(format) ==
    [sign : {0, 1}, exponent : 0..TopExponent(format) - 1, fraction : 0..2^format.fraction - 1]
       \union {Infinity(format, 0), Infinity(format, 1)}

\* y is a number of the format nearest to "counted" units, even if two are.
IsNearest(format, counted, y, units) ==
    LET Off(z) == LET d == Counted(format, z, units) - counted IN IF d < 0 THEN -d ELSE d
    IN  \A z \in Numbers(format) :
          \/ Off(y) < Off(z)
          \/ Off(y) = Off(z) /\ (y.fraction % 2 = 0 \/ Counted(format, y, units) = Counted(format, z, units))
================================================================================
