----------------------------- MODULE MCCommandLine -----------------------------
(* Three signals and three events, so that both buffers overflow.          *)
EXTENDS CommandLineProperties
=============================================================================
