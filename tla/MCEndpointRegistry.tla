-------------------------- MODULE MCEndpointRegistry --------------------------
\* EndpointRegistry for TLC: the constants are given in the configuration.
EXTENDS EndpointRegistry, TLC
=============================================================================
