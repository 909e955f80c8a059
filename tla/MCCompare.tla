------------------------------ MODULE MCCompare ------------------------------
(* Compare on five bytes: NUL, a capital, a byte between the cases (as '_' is),*)
(* the small letter, and one above it. All operands of up to two of them, and  *)
(* of three of NUL and the two letters.                                        *)
EXTENDS Compare

CONSTANTS MaxCount

Texts ==
  UNION {[1 .. l -> Byte] : l \in 0 .. 2}
  \cup [1 .. 3 -> {0, UpperA, UpperA + CaseGap}]

Payloads == {s \in Texts : ~HasNul(s)}

Pairs(ops, texts, counts, locs) ==
  [op : ops, a : texts, b : texts, n : counts, loc : locs]

MCCalls ==
  Pairs({"compare", "equal", "ignore_case", "equal_ignore_case"}, Texts, {0},
        {"Posix"})
  \cup Pairs({"memcmp", "strncmp", "strncasecmp", "prefix_ignore_case"}, Texts,
             0 .. MaxCount, {"Posix"})
  \cup Pairs(OnCStrs, Payloads, {0}, {"Posix", "HostNamed"})
  \cup Pairs({"strncasecmp_l"}, Texts, {2}, {"Posix", "HostNamed"})
=============================================================================
