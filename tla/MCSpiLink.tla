------------------------------- MODULE MCSpiLink -------------------------------
(* SpiLink with blocks of three bytes, so that two rounds of the loop follow  *)
(* each other.  No rotation of one of the bytes is another of them.           *)
EXTENDS SpiLink

MCSendByte == <<0, 1, 0, 1, 0, 0, 0, 1>>
MCCardBytes == {<<1, 0, 0, 1, 0, 1, 1, 0>>, <<0, 0, 0, 0, 0, 1, 0, 1>>}
MCKeys == {<<0, 0, 0, 1, 1, 1, 0, 0>>}
=============================================================================
