------------------------------ MODULE MCMainLoop ------------------------------
\* The periods in the order of config.h, on a small scale.
EXTENDS MainLoop
=============================================================================
