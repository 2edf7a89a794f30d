----------------------- MODULE MC_AttributeCertificate -----------------------
(* Loads of chunks whose directoryNames hold up to two generalNames, so   *)
(* that parse_directoryName drops a second name.                          *)
EXTENDS AttributeCertificate
=============================================================================
