------------------------------- MODULE MCKeyScan ------------------------------
(***************************************************************************)
(* Files of up to eight lines, room for two tests, two kinds of scans.     *)
(***************************************************************************)
EXTENDS KeyScan

AllTexts == {<<>>, <<"a">>, <<"a", "b">>}
=============================================================================
