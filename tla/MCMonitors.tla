------------------------------ MODULE MCMonitors ------------------------------
\* The monitors with a clock that wraps every 16 ticks.
EXTENDS Monitors
=============================================================================
