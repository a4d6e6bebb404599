----------------------------- MODULE MCOrderForm -----------------------------
(***************************************************************************)
(* OrderForm with small limits.  Some customers get one field wrong, in    *)
(* every way a short text can be wrong; some get any of the fields wrong.  *)
(***************************************************************************)
EXTENDS Correspondence, TLC

\* A field's texts of up to n characters, from those that matter to it.
Short(chars, n) == BoundedSeq(chars, n)

Alphabet ==
  [f \in TextFields |->
     CASE f \in {"company", "city"} -> Short({"letter", "space", "newline"}, 4)
       [] f = "phone"    -> Short({"digit", "dash", "letter", "space", "newline"}, 4)
       [] f = "email"    -> Short({"letter", "at", "dot", "space"}, 6)
       [] f = "services" -> Short({"letter", "space", "newline"}, 7)]

Good ==
  [f \in Field |->
     CASE f \in {"company", "city"} -> <<"letter">>
       [] f = "phone"    -> <<"digit", "dash", "digit">>
       [] f = "email"    -> <<"letter", "at", "letter", "dot", "letter">>
       [] f = "services" -> <<"letter", "newline", "letter">>
       [] f = "style"    -> Label("klassisk")
       [] f = "package"  -> Priced("start")]

Other ==
  [Good EXCEPT !["company"] = <<"letter", "letter">>, !["style"] = Label("djarv"),
               !["package"] = Priced("pro"), !["phone"] = <<"digit", "digit">>]

Blank == [f \in Field |-> IF f \in TextFields THEN <<"space">> ELSE Tampered]

OneFieldAnyhow ==
  UNION {{[Good EXCEPT ![f] = t] : t \in Alphabet[f]} : f \in TextFields}
    \cup {[Good EXCEPT !["style"] = p] : p \in Picks}
    \cup {[Good EXCEPT !["package"] = p] : p \in Picks}

AnyFieldsBlank ==
  {[f \in Field |-> IF f \in S THEN Blank[f] ELSE Other[f]] : S \in SUBSET Field}

Forms == OneFieldAnyhow \cup AnyFieldsBlank

GoodForms == {Good, Other}

ListPrices == [start |-> 2490, pro |-> 4490]

GoodOrOther == [f \in Field |-> {Good[f], Other[f]}]
=============================================================================
