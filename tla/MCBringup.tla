----------------------------- MODULE MCBringup -----------------------------
EXTENDS Bringup

\* One sentence and the rate stand for the nine messages.
MCConfiguration == <<"msg", "rate">>
=============================================================================
