--------------------------- MODULE MCClientStream ---------------------------
(* A five byte file in chunks of two through a socket that buffers three     *)
(* units, so that frames are sent in parts, the last chunk is short, and a   *)
(* response may exceed MaxResponse.                                          *)
EXTENDS ClientStream
=============================================================================
