---------------------------- MODULE StringsTypes ----------------------------
(* The result carriers of the library (lib/strings_types.sv0): the answers a  *)
(* call on a mutable storage can give.  A payload travels with its tag.       *)

\* CopyResult.
Copied(k)                   == <<"Copied", k>>
TooSmall(need, have)        == <<"DestinationTooSmall", need, have>>

\* CopyReport: copy_into and copy_prefix never fail, they report.
Report(written, req, cut)   == <<"CopyReport", written, req, cut>>

\* AppendResult.
Reported(written, req, cut) == <<"Reported", written, req, cut>>
LengthOverflow              == <<"LengthOverflow">>

\* EndOffsetResult shares DestinationTooSmall with CopyResult.
EndAt(k)                    == <<"EndAt", k>>

\* MemccpyReport; next_offset is written when the stop byte was copied, else 0.
Memccpy(written, hit)       == <<"MemccpyReport", written, hit>>

\* TransformWrite.
Written(k)                  == <<"Written", k>>
KeyTooBig(need)             == <<"TransformTooSmall", need>>

\* LocaleTransformWrite, beside those two.
LocaleUnsupported           == <<"Unsupported">>

\* CStrResult.
View(s)                     == <<"View", s>>
NoTerminator                == <<"NoTerminator">>

\* A usize and a unit result.
Length(k)                   == <<"Length", k>>
Unit                        == <<"Unit">>

\* The answers that say the storage was refused.
Refused(res) ==
  res[1] \in {"DestinationTooSmall", "TransformTooSmall", "LengthOverflow",
              "Unsupported"}
=============================================================================
