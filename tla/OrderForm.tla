------------------------------ MODULE OrderForm ------------------------------
(***************************************************************************)
(* What a customer fills in, what OrderForm::validate makes of it          *)
(* (crates/hemsidor24-core/src), the form that comes back when it does not *)
(* pass, and the row it becomes when it does.  A text is a sequence of     *)
(* kinds of characters: validation counts, trims and splits, and looks at  *)
(* nothing else.                                                           *)
(***************************************************************************)
EXTENDS Naturals, FiniteSets, SequencesExt

CONSTANTS
  COMPANY_MAX, CITY_MAX, PHONE_MAX, PHONE_MIN_DIGITS, EMAIL_MAX, SERVICE_MAX,
  MAX_SERVICES,
  FirstForms,      \* forms as customers of this instance post them first
  Corrections,     \* what a customer may put in a field that was refused
  MaxPosts         \* bound on how often the form is posted

\* "letter" stands for everything without a meaning of its own, "dash" for the
\* signs a phone number may have, "space" for ' ' itself: other white space within a
\* line, which a phone number may not have, is left out.
Chars == {"letter", "digit", "at", "dot", "dash", "space", "newline"}
White == {"space", "newline"}
Text == Seq(Chars)

TextFields == {"company", "city", "phone", "email", "services"}
Field == TextFields \cup {"style", "package"}

Styles == {"klassisk", "modern", "djarv", "student", "forening", "overraska-mig"}
Packages == {"start", "pro"}

\* What a radio button posts: a choice, spelled as its slug, as its label or as
\* the label with the price; or something else altogether.
Tampered == [of |-> "other", spelled |-> "label"]
Picks == [of : Styles \cup Packages \cup {"other"}, spelled : {"slug", "label", "price"}]

\* What a field of a form may hold.
Raw(f) == IF f \in TextFields THEN Text ELSE Picks

ASSUME OrderFormAssumption ==
  /\ {COMPANY_MAX, CITY_MAX, PHONE_MAX, PHONE_MIN_DIGITS, EMAIL_MAX, SERVICE_MAX,
      MAX_SERVICES, MaxPosts} \subseteq Nat
  /\ \A form \in FirstForms : DOMAIN form = Field /\ \A f \in Field : form[f] \in Raw(f)
  /\ DOMAIN Corrections = Field
  /\ \A f \in Field : Corrections[f] \subseteq Raw(f)

Fine == "fine"
FieldErrors == {"Missing", "TooLong", "InvalidEmail", "InvalidPhone",
                "TooManyServices", "UnknownChoice"}

-----------------------------------------------------------------------------
(* Validation *)

Inked(t) == {i \in DOMAIN t : t[i] \notin White}

Trim(t) == IF Inked(t) = {} THEN <<>> ELSE SubSeq(t, Min(Inked(t)), Max(Inked(t)))

\* Mutant: the text is only trimmed once it has passed.
RequiredText_Untrimmed(raw, max) ==
  IF raw = <<>> THEN "Missing" ELSE IF Len(raw) > max THEN "TooLong" ELSE Fine

RequiredText(raw, max) ==
  LET t == Trim(raw)
  IN  IF t = <<>> THEN "Missing" ELSE IF Len(t) > max THEN "TooLong" ELSE Fine

\* Deliberately loose: enough digits and nothing alarming.
ShapedLikeANumber(t) ==
  /\ Cardinality({i \in DOMAIN t : t[i] = "digit"}) >= PHONE_MIN_DIGITS
  /\ ToSet(t) \subseteq {"digit", "dash", "dot", "space"}

\* Mutant: the dots at the ends of the domain are forgotten.
ShapedLikeAnAddress_AnyDots(t) ==
  \E a \in DOMAIN t :
    LET domain == SubSeq(t, a + 1, Len(t))
    IN  /\ {i \in DOMAIN t : t[i] = "at"} = {a}
        /\ a > 1
        /\ "dot" \in ToSet(domain)
        /\ \A i \in 2 .. Len(domain) : ~(domain[i - 1] = "dot" /\ domain[i] = "dot")
        /\ ToSet(t) \cap White = {}

\* One @, something before it, and after it labels between single dots.
ShapedLikeAnAddress(t) ==
  \E a \in DOMAIN t :
    LET domain == SubSeq(t, a + 1, Len(t))
    IN  /\ {i \in DOMAIN t : t[i] = "at"} = {a}
        /\ a > 1
        /\ "dot" \in ToSet(domain)
        /\ domain[1] # "dot" /\ domain[Len(domain)] # "dot"
        /\ \A i \in 2 .. Len(domain) : ~(domain[i - 1] = "dot" /\ domain[i] = "dot")
        /\ ToSet(t) \cap White = {}

\* str::lines, a character at a time: a newline begins a line, anything else goes
\* on with the last one.
NextLines(lines, c) ==
  IF c = "newline" THEN Append(lines, <<>>) ELSE [lines EXCEPT ![Len(lines)] = Append(@, c)]

\* That a \r before the newline goes with it, and that an empty last line is
\* none, is lost in the trimming and filtering that follow.
Lines(t) ==
  LET upTo[n \in 0 .. Len(t)] ==
        IF n = 0 THEN << <<>> >> ELSE NextLines(upTo[n - 1], t[n])
  IN  upTo[Len(t)]

\* Each line trimmed; blank lines are dropped rather than refused.
Trimmed(lines) ==
  LET upTo[n \in 0 .. Len(lines)] ==
        IF n = 0 THEN <<>>
        ELSE IF Trim(lines[n]) = <<>> THEN upTo[n - 1]
        ELSE Append(upTo[n - 1], Trim(lines[n]))
  IN  upTo[Len(lines)]

\* One service per line.
ServiceLines(raw) == Trimmed(Lines(raw))

ServicesError(raw) ==
  LET lines == ServiceLines(raw)
  IN  IF lines = <<>> THEN "Missing"
      ELSE IF Len(lines) > MAX_SERVICES THEN "TooManyServices"
      ELSE IF \E k \in DOMAIN lines : Len(lines[k]) > SERVICE_MAX THEN "TooLong"
      ELSE Fine

\* Style and Package::from_str: both accept slug and label, a package also any
\* text that begins with its label, since its radio posts the price too.
Parses(f, pick) ==
  CASE f = "style"   -> pick.of \in Styles /\ pick.spelled \in {"slug", "label"}
    [] f = "package" -> pick.of \in Packages

FieldError(f, raw) ==
  LET Unless(problem, shaped, otherwise) ==
        IF problem # Fine \/ shaped THEN problem ELSE otherwise
  IN  CASE f = "company"  -> RequiredText(raw, COMPANY_MAX)
        [] f = "city"     -> RequiredText(raw, CITY_MAX)
        [] f = "phone"    -> Unless(RequiredText(raw, PHONE_MAX),
                                    ShapedLikeANumber(Trim(raw)), "InvalidPhone")
        [] f = "email"    -> Unless(RequiredText(raw, EMAIL_MAX),
                                    ShapedLikeAnAddress(Trim(raw)), "InvalidEmail")
        [] f = "services" -> ServicesError(raw)
        [] OTHER          -> IF Parses(f, raw) THEN Fine ELSE "UnknownChoice"

\* Mutant: the first problem found is the only one reported.
Validate_StopsAtTheFirst(form) ==
  LET order == <<"company", "city", "phone", "email", "services", "style", "package">>
      wrong == {k \in DOMAIN order : FieldError(order[k], form[order[k]]) # Fine}
  IN  [f \in Field |-> IF wrong # {} /\ f = order[Min(wrong)]
                       THEN FieldError(f, form[f]) ELSE Fine]

\* Every problem, collected rather than short-circuited; an order if there is none.
Validate(form) == [f \in Field |-> FieldError(f, form[f])]

Refused(form) == {f \in Field : Validate(form)[f] # Fine}

\* A customer corrects a field so that its message goes away.
ASSUME CorrectionsAreFine ==
  \A f \in Field : \A text \in Corrections[f] : FieldError(f, text) = Fine

-----------------------------------------------------------------------------
(* The form that comes back, and the row *)

Label(choice) == [of |-> choice, spelled |-> "label"]
Priced(choice) == [of |-> choice, spelled |-> "price"]

\* Mutant: the radios of a form that comes back are those of a blank one.
FromRejected_FirstChoice(form) ==
  [form EXCEPT !["style"] = Label("klassisk"), !["package"] = Priced("start")]

\* What was typed stays; of each radio group the choice that was made is checked
\* again, or the first one if it made no sense.
FromRejected(form) ==
  [form EXCEPT
     !["style"]   = IF Parses("style", @) THEN Label(@.of) ELSE Label("klassisk"),
     !["package"] = IF Parses("package", @) THEN Priced(@.of) ELSE Priced("start")]

\* Mutant: the services become one line of running text.
Joined_Running(lines) ==
  FlattenSeq([k \in DOMAIN lines |-> IF k = 1 THEN lines[k] ELSE <<"space">> \o lines[k]])

\* The services column: the lines, with a newline between each two.
Joined(lines) ==
  FlattenSeq([k \in DOMAIN lines |-> IF k = 1 THEN lines[k] ELSE <<"newline">> \o lines[k]])

\* Mutant: the choices are stored as they were posted.
Column_AsPosted(f, raw) ==
  CASE f = "services" -> Joined(ServiceLines(raw))
    [] f \in {"style", "package"} -> raw.spelled
    [] OTHER -> Trim(raw)

\* What a field becomes in the table: trimmed text, and the slugs of the choices.
Column(f, raw) ==
  CASE f = "services" -> Joined(ServiceLines(raw))
    [] f \in {"style", "package"} -> raw.of
    [] OTHER -> Trim(raw)

\* The values the INSERT binds.
RowOf(form) == [f \in Field |-> Column(f, form[f])]

VARIABLES
  form,      \* what the browser's form holds
  typed,     \* history: what the customer last put in each field
  shown,     \* the message next to each field
  left,      \* history: fields with a message the customer has not acted on
  orders,    \* the table: the order, once there is one
  posts

vars == <<form, typed, shown, left, orders, posts>>

Init ==
  /\ form \in FirstForms
  /\ typed = form
  /\ shown = [f \in Field |-> Fine]
  /\ left = {}
  /\ orders = {}
  /\ posts = 0

\* POST /bestall, as far as the form goes: a stored order is answered with a blank
\* form and no messages, and the exchange is over.
Post ==
  /\ orders = {} /\ posts < MaxPosts
  /\ posts' = posts + 1
  /\ IF Refused(form) = {}
     THEN orders' = {RowOf(form)} /\ UNCHANGED form
     ELSE form' = FromRejected(form) /\ UNCHANGED orders
  /\ shown' = Validate(form)
  /\ left' = Refused(form)
  /\ UNCHANGED typed

Correct(f, text) ==
  /\ f \in left /\ orders = {}
  /\ form' = [form EXCEPT ![f] = text]
  /\ typed' = [typed EXCEPT ![f] = text]
  /\ left' = left \ {f}
  /\ UNCHANGED <<shown, orders, posts>>

Next == Post \/ \E f \in Field : \E text \in Corrections[f] : Correct(f, text)

Spec == Init /\ [][Next]_vars

-----------------------------------------------------------------------------
(* Properties *)

TypeOK ==
  /\ DOMAIN form = Field /\ DOMAIN typed = Field
  /\ \A f \in Field : form[f] \in Raw(f) /\ typed[f] \in Raw(f)
  /\ shown \in [Field -> FieldErrors \cup {Fine}]
  /\ left \subseteq Field
  /\ \A row \in orders : /\ \A f \in TextFields : row[f] \in Text
                         /\ row["style"] \in Styles /\ row["package"] \in Packages
  /\ posts \in 0 .. MaxPosts

\* The table's CHECKs are "a second lock on the same door"
\* (0001_create_orders.sql:9-10): they never refuse what validate let through.
\* The services "round-trip exactly through Services::parse" (orders.rs:43-45),
\* the slugs through from_str: what the table holds passes validation again and
\* would be stored as the same row.
StoredReadsBack ==
  \A row \in orders :
    LET again == [f \in Field |-> IF f \in TextFields THEN row[f]
                                  ELSE [of |-> row[f], spelled |-> "slug"]]
    IN  /\ Len(row["company"]) \in 1 .. COMPANY_MAX /\ Len(row["city"]) \in 1 .. CITY_MAX
        /\ Len(row["phone"]) \in 1 .. PHONE_MAX /\ Len(row["email"]) \in 1 .. EMAIL_MAX
        /\ Refused(again) = {} /\ RowOf(again) = row

\* However often the form came back, the order is what the customer last typed
\* and picked; only a pick that made no sense is replaced.
TypedIsStored ==
  \A row \in orders :
    \A f \in Field : Validate(typed)[f] = Fine => row[f] = RowOf(typed)[f]

\* Every mistake is reported at once: a form that came back and had just the
\* fields with a message corrected is accepted.
MendedIsAccepted ==
  posts > 0 /\ left = {} /\ orders = {} => Refused(form) = {}

\* An independent reading of the rules, by position instead of by trimming and
\* splitting, of what a message next to a field means.
Visible(t, i) == t[i] \notin White
\* How many positions have a visible one at or before them and one at or after.
Extent(t) == Cardinality({i \in DOMAIN t : /\ \E j \in 1 .. i : Visible(t, j)
                                           /\ \E j \in i .. Len(t) : Visible(t, j)})
\* Line k of t, as the positions between newlines k - 1 and k.
OnLine(t, k) == {i \in DOMAIN t : /\ t[i] # "newline"
                                  /\ Cardinality({j \in 1 .. i : t[j] = "newline"}) = k - 1}
Listed(t) == {k \in 1 .. Len(t) + 1 : \E i \in OnLine(t, k) : Visible(t, i)}

\* A message is shown exactly where the reading above finds a fault, and none
\* next to a field of an order that was stored.
MessagesAreFaults ==
  posts > 0 /\ left = {f \in Field : shown[f] # Fine} =>
    /\ \A f \in TextFields : shown[f] = "Missing" <=> Extent(form[f]) = 0
    /\ shown["company"] = "TooLong" <=> Extent(form["company"]) > COMPANY_MAX
    /\ shown["city"] = "TooLong" <=> Extent(form["city"]) > CITY_MAX
    /\ LET t == form["services"]
       IN  /\ shown["services"] = "TooManyServices" <=> Cardinality(Listed(t)) > MAX_SERVICES
           /\ shown["services"] = "TooLong" <=>
                /\ Cardinality(Listed(t)) <= MAX_SERVICES
                /\ \E i, j \in DOMAIN t :
                     /\ j - i >= SERVICE_MAX /\ Visible(t, i) /\ Visible(t, j)
                     /\ \A k \in i .. j : t[k] # "newline"
    /\ shown["email"] = Fine <=>
         LET t == form["email"]
             Near(i) == {t[j] : j \in {i - 1, i + 1} \cap DOMAIN t}
         IN  /\ Extent(t) \in 1 .. EMAIL_MAX
             /\ Extent(t) = Cardinality({i \in DOMAIN t : Visible(t, i)})
             /\ \E a \in DOMAIN t :
                  /\ t[a] = "at" /\ \A j \in DOMAIN t : t[j] = "at" => j = a
                  /\ a > 1 /\ Visible(t, a - 1)
                  /\ \E d \in a + 1 .. Len(t) : t[d] = "dot"
                  /\ \A d \in a + 1 .. Len(t) : t[d] = "dot" =>
                       d < Len(t) /\ Near(d) \cap (White \cup {"dot", "at"}) = {}
    /\ shown["phone"] = Fine <=>
         LET t == form["phone"]
         IN  /\ Extent(t) \in 1 .. PHONE_MAX
             /\ \A i \in DOMAIN t : t[i] \in White \cup {"digit", "dash", "dot"}
             /\ \A i \in DOMAIN t : t[i] = "newline" =>
                  \/ \A j \in 1 .. i : ~Visible(t, j)
                  \/ \A j \in i .. Len(t) : ~Visible(t, j)
             /\ Cardinality({i \in DOMAIN t : t[i] = "digit"}) >= PHONE_MIN_DIGITS
=============================================================================
