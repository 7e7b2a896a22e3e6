------------------------------ MODULE MCObdCodec ------------------------------
(* The texts of ObdCodec that TLC checks. *)
EXTENDS ObdCodec

\* Every text of up to 6 of these characters: "1", "A" (two of them are an
\* escape), and those of the markers "BB" and "EE".
AllTexts == UNION {[1 .. n -> {49, 65, 66, 69}] : n \in 0 .. 6}

\* Texts of every length up to a full buffer: "BB" and "EE" anywhere, so that a
\* frame may begin late enough to be read out of data, "AA" anywhere or nowhere,
\* "1" in the other places.
Framed(n, b, e, a) ==
  [k \in 1 .. n |-> IF k \in {b, b + 1} THEN 66
                    ELSE IF k \in {e, e + 1} THEN 69
                    ELSE IF k \in {a, a + 1} THEN 65 ELSE 49]

FramedTexts ==
  UNION {{Framed(n, b, e, a) : b, e, a \in 1 .. n} : n \in 0 .. BufSize}

CheckedTexts == AllTexts \cup FramedTexts
===============================================================================
