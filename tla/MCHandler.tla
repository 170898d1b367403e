----------------------------- MODULE MCHandler ------------------------------
EXTENDS Handler

\* Three chunks let a finish reason or usage come first, in the middle or last,
\* and the stream break before, between and after them.
Encodable == {"text", "empty"}
AnyText == {"text", "empty", "odd"}

\* A backend that reports everything, one without a total, and one with the
\* total only: two that report may have nothing in common.
SomeUsages == {Fields, {"prompt", "completion"}, {"total"}}
=============================================================================
