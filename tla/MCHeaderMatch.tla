----------------------------- MODULE MCHeaderMatch -----------------------------
(***************************************************************************)
(* Every string of the length of a two-byte header with two bits a byte,   *)
(* the well-formed ones with a character too many, and every short string  *)
(* of three characters.                                                    *)
(***************************************************************************)
EXTENDS HeaderMatch

MCFull == [1..5 -> Chars]
MCLong == {m \in [1..6 -> Chars] : WellFormed(m)}
MCShort == [1..3 -> Chars]
MCStrings == MCFull \cup MCLong \cup MCShort
=============================================================================
