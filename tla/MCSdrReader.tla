----------------------------- MODULE MCSdrReader -----------------------------
(* Small instances of SdrReader: rates of one and two samples per ms, and a  *)
(* device that rounds a requested rate up or down.                           *)
EXTENDS SdrReader

MCCoercion == {<<1, 1>>, <<2, 2>>, <<1, 2>>, <<2, 1>>}

MCExact == {<<2, 2>>}
=============================================================================
