----------------------------- MODULE MCSession -----------------------------
EXTENDS Session

\* A tick without advisors, and one with all three.
Policies == {<<TRUE, FALSE, FALSE>>, <<FALSE, TRUE, TRUE>>}
=============================================================================
