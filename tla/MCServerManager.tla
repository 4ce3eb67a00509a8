--------------------------- MODULE MCServerManager ---------------------------
(* The two servers main asks for.                                          *)
EXTENDS ServerManager

MainConfigs == <<"HTTP", "HTTPS">>
=============================================================================
