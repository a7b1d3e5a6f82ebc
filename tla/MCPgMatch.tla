------------------------------ MODULE MCPgMatch ------------------------------
(***************************************************************************)
(* The strict matcher on every input made of a length header declaring a  *)
(* length below, at and above each bound the code tests (7, 8, 9 ... 13    *)
(* bracket the frames the inputs can complete; 16388 declares the largest *)
(* payload the bound accepts and 16389 one byte more; 1195725856 is "GET " *)
(* read as a length), a code word                                          *)
(* (SSLRequest, protocol 3.0, protocol 2.0) and up to five bytes of        *)
(* parameter list, ending in io.EOF or a transport error; plus every input *)
(* too short to hold a header.                                              *)
(***************************************************************************)
EXTENDS PgMatch, PgInputs

MCHeaderLens == {0, 4, 7, 8, 9, 10, 11, 12, 13, 16388, 16389, 1195725856}

MCStreams ==
  FramedStreams(MCHeaderLens, {SSLRequestWord, Version3Word, Version2Word}, 5)
    \cup ShortStreams

=============================================================================
