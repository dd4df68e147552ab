---------------------------- MODULE MCRunners ----------------------------
(* Every sequence of three requests out of eleven, for each program: good *)
(* ones, ones Flags rejects, ones a check after it rejects, ones that      *)
(* throw, and ones for a service the program does not have.                *)
EXTENDS Runners, TLC

MCPrograms == {"ocr", "face", "common", "faceMatcher"}

MCNumberOf == ("1" :> 1) @@ ("2" :> 2) @@ ("3" :> 3) @@ ("9" :> 9)
MCImages == {"a.png"}

ID(n) == "reqID" :> <<ToString(n)>>
OCR(image) == "ocr" :> <<image>>
Face(image) == "detect_face" :> <<image>>

Kinds(n) ==
    {ID(n) @@ OCR("a.png") @@ ("mode" :> <<"2">>),
     ID(n) @@ OCR("a.png") @@ ("mode" :> <<"9">>),
     ID(n) @@ OCR("a.png") @@ ("lang" :> <<"eng">>),
     ID(n) @@ OCR("none.png"),
     ID(n) @@ ("ocr" :> <<"a.png", "a.png">>),
     OCR("a.png") @@ ("words" :> <<>>),
     ID(n) @@ Face("a.png"),
     ID(n) @@ Face("none.png") @@ ("original_width" :> <<"9">>),
     ID(n) @@ Face("a.png") @@ ("original_width" :> <<"9", "9">>),
     ID(n) @@ Face("a.png") @@ OCR("a.png"),
     Face("a.png")}

MCQueues == {<<r1, r2, r3>> : r1 \in Kinds(1), r2 \in Kinds(2), r3 \in Kinds(3)}

MCPairs == {<<r1, r2>> : r1 \in Kinds(1), r2 \in Kinds(2)}

MCSymmetry == Permutations(Workers)

(* The usage of HelpOCR.cpp.                                               *)
MCUsage == {<<ID(1) @@ OCR("a.png") @@ ("lang" :> <<"eng">>)>>, <<OCR("a.png")>>}
=============================================================================
