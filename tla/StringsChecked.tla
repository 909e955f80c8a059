--------------------------- MODULE StringsChecked ---------------------------
(* strings_checked (lib/strings_checked.sv0): addition, subtraction and       *)
(* multiplication of sizes that report a wrap instead of returning the small  *)
(* value it leaves.  usize arithmetic wraps on both backends.                 *)
EXTENDS Integers

CONSTANT MaxUsize    \* the largest usize

ASSUME WidthAssumption == MaxUsize \in Nat

Usize == 0 .. MaxUsize

\* What the machine keeps of a sum or a product.
Wrap(x) == x % (MaxUsize + 1)

\* enum CheckedUsize.
Ok(v)    == [tag |-> "Ok", val |-> v]
Overflow == [tag |-> "Overflow", val |-> 0]

CheckedAdd(a, b) ==
  LET s == Wrap(a + b) IN IF s < a THEN Overflow ELSE Ok(s)

CheckedSub(a, b) == IF b > a THEN Overflow ELSE Ok(a - b)

CheckedMul(a, b) ==
  LET p == Wrap(a * b) IN
  CASE a = 0                  -> Ok(0)
    [] a # 0 /\ p \div a # b  -> Overflow
    [] a # 0 /\ p \div a = b  -> Ok(p)

\* The match every caller writes: the value, or a stand-in when it wrapped.
OkOr(r, otherwise) == IF r.tag = "Ok" THEN r.val ELSE otherwise

-----------------------------------------------------------------------------
\* What the three operations are for: the true result when a usize can hold
\* it, and the overflow otherwise.
Exact(x) == IF x \in Usize THEN Ok(x) ELSE Overflow

\* SEC-002: the sum of two sizes is never a wrapped value.
AddExact(a, b) == CheckedAdd(a, b) = Exact(a + b)

\* SEC-002: the difference of two sizes is never a wrapped value.
SubExact(a, b) == CheckedSub(a, b) = Exact(a - b)

\* SEC-002: the product of two sizes is never a wrapped value; a product can
\* wrap past its factors many times, which a comparison would not notice.
MulExact(a, b) == CheckedMul(a, b) = Exact(a * b)
=============================================================================
