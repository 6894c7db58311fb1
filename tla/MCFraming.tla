------------------------------ MODULE MCFraming ------------------------------
(* Small instances of Framing: Width 3 instead of 2^16 and messages of up to  *)
(* three bytes, so that the largest message and a length field that wraps are *)
(* among them.                                                                *)
EXTENDS Framing

Bytes(set, n) == UNION {[1..k -> set] : k \in 0..n}

(* Every payload of up to three bytes. *)
AllMessages == {Message(1, p) : p \in Bytes({"|", "\n", "\r", "1"}, 3)}

(* A few that fit the framing, with delimiters and digits in the payload.      *)
FramableMessages == {Message(t, p) : t \in {0, 1}, p \in {<< >>, <<"|", "1">>, <<"\r", "|">>}}
=============================================================================
