---------------------------- MODULE MCWifiProvision ----------------------------
\* One configuration whose credentials work and one whose do not, or two networks.
EXTENDS WifiProvision
=============================================================================
