----------------------------- MODULE MCCtSampler -----------------------------
\* Ticks of 50 ms would make Debounce 2 and a pulse 20 of them; a pulse is
\* shortened to keep the remainders few.
EXTENDS CtSampler
=============================================================================
