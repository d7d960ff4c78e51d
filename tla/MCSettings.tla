----------------------------- MODULE MCSettings -----------------------------
(* Sizes end at 31: the digits alone, the last digit of them, or the unit may *)
(* be what overflows, and each boundary is met from both sides.               *)
EXTENDS Settings

MCUnits == [u \in {"KB", "KiB"} |-> IF u = "KB" THEN 2 ELSE 3]
MCDigits == {<<>>, <<0>>, <<1>>, <<0, 9>>, <<1, 0>>, <<1, 1>>, <<1, 5>>, <<1, 6>>,
             <<3, 1>>, <<3, 2>>, <<3, 3>>, <<4, 0>>, <<3, 1, 0>>}
MCTexts == [signed : {FALSE}, digits : MCDigits, suffix : {NoSuffix, "KB", "KiB", "XB"}]
             \cup [signed : {TRUE}, digits : {<<1>>}, suffix : {NoSuffix}]
=============================================================================
