----------------------------- MODULE FormFields -----------------------------
(***************************************************************************)
(* The fields of an order form, src/src/utils/adaptiveCards.ts: how a      *)
(* variable of a ServiceNow catalog item is read (its type, its choices,   *)
(* the table it refers to) and which input of the Adaptive Card it becomes. *)
(*                                                                         *)
(* A text is a sequence of words.  Words have neither case, markup nor     *)
(* punctuation: what toAdaptiveText, tokenize and toLowerCase take away.   *)
(* An optional result is a set with at most one element.                   *)
(***************************************************************************)
EXTENDS Naturals, SequencesExt

CONSTANTS
  Numerals,     \* the words that are numbers, as String writes them, with their values
  Variables,    \* the variables of all forms
  MaxVariables  \* bound: the variables of a form

ASSUME VariablesAssumption == \A v \in Variables : v.children \in Seq(Variables)
ASSUME MaxVariablesAssumption == MaxVariables \in Nat

\* The first element of a sequence with a property.
Find(seq, P(_)) ==
  LET found == {i \in DOMAIN seq : P(seq[i])}
  IN {seq[i] : i \in {i \in found : \A j \in found : i <= j}}

\* The elements of a sequence that are in a set, in its order (SelectSeq, which the
\* prover does not know).
Among(seq, S) ==
  LET among[i \in 0..Len(seq)] ==
        IF i = 0 THEN <<>>
        ELSE IF seq[i] \in S THEN Append(among[i - 1], seq[i]) ELSE among[i - 1]
  IN among[Len(seq)]

\* The first of a sequence of optional results that is there.
FirstOf(results) == UNION Find(results, LAMBDA result : result # {})

\* The element of a set that has one.
Only(result) == CHOOSE x \in result : TRUE

\* The text as one string, in which includes() looks.
Joined(text) == FoldLeft(LAMBDA s, w : IF s = "" THEN w ELSE s \o " " \o w, "", text)

\* Is the needle part of the text?  It may begin and end within a word.
Includes(text, needle) ==
  LET s == Joined(text)
      n == Joined(needle)
  IN \E i \in 0..(Len(s) - Len(n)) : SubSeq(s, i + 1, i + Len(n)) = n

-----------------------------------------------------------------------------
(* Variables.  A variable is a record; a text or a string it lacks is empty. *)

\* The visit of a tree of variables, parents before children: those that have been
\* visited after a number of steps, and those that are next.
Visit(variables) ==
  LET visited[k \in 0..MaxVariables] ==
        IF k = 0 THEN [result |-> <<>>, todo |-> variables]
        ELSE LET s == visited[k - 1]
             IN IF s.todo = <<>> THEN s
                ELSE [result |-> Append(s.result, Head(s.todo)),
                      todo |-> Head(s.todo).children \o Tail(s.todo)]
  IN visited[MaxVariables]

collectVariables(variables) == Visit(variables).result

getVariableLabel(v) == Only(Find(<<v.label, v.question_text, v.name>>, LAMBDA t : t # <<>>))

\* A script that ServiceNow did not evaluate is no default.
getVariableDefaultValue(v) ==
  IF v.default_value # <<>> /\ Head(v.default_value) = "javascript" THEN <<>> ELSE v.default_value

\* The entries that have a value, and their values for titles that are missing.
normalizeChoices(v) ==
  LET usable == SelectSeq(v.choices, LAMBDA c : "value" \in DOMAIN c)
  IN [i \in DOMAIN usable |->
        [title |-> IF "title" \in DOMAIN usable[i] THEN usable[i].title ELSE usable[i].value,
         value |-> usable[i].value]]

\* The friendly type precedes the numeric one.
normalizeVariableType(v) == Only(Find(<<v.friendly_type, v.type, "1">>, LAMBDA s : s # ""))

DateLabels == {"date", "deadline", "when", "schedule", "due", "expire", "expires", "expiry"}

\* A date that ServiceNow calls a line of text.
isLikelyDateField(v) ==
  IF v.type \in {"6", "8"} /\ Range(getVariableLabel(v)) \cap DateLabels # {}
  THEN {IF v.type = "6" THEN "datetime" ELSE "date"}
  ELSE {}

StaticTextTypes ==
  {"11", "label", "label_only", "formatted_text", "html", "rich_text_label", "container_start",
   "checkbox_container", "begin_split", "split"}
ContainerEndTypes == {"container_end", "end_split", "split_end"}
UnsupportedRendererTypes == {"macro", "ui_macro", "macro_with_label", "custom", "break"}
MultilineTypes == {"2", "textarea", "multi_line", "multiline", "multi_line_text"}

isReferenceVariable(v) ==
  v.reference # "" \/ normalizeVariableType(v) \in {"reference", "lookup_unique_value"}

-----------------------------------------------------------------------------
(* The card *)

\* The types of the inputs other than a line of text.
ChoiceTypes == {"14", "18", "21", "select", "lookup", "choice"}
ToggleTypes == {"5", "7", "boolean", "checkbox", "check_box"}
DateTypes == {"8", "date"}
DateTimeTypes == {"6", "datetime"}
NumberTypes == {"3", "4"}

TrueWords == {<<"true">>, <<"1">>, <<"yes">>, <<"y">>, <<"on">>}
IsNumeric(text) == Len(text) = 1 /\ Head(text) \in DOMAIN Numerals

\* A rule says something, if it applies.
Rule(applies, kind) == IF applies THEN {kind} ELSE {}

\* The kind of element a variable becomes: the first rule that applies.
InputKind(v, type, offered) ==
  Only(FirstOf(<<
    Rule(~v.visible \/ type \in ContainerEndTypes \cup UnsupportedRendererTypes, "none"),
    Rule(isReferenceVariable(v) /\ offered # <<>>, "ReferenceSet"),
    Rule(type \in StaticTextTypes, "TextBlock"),
    Rule(normalizeChoices(v) # <<>> \/ type \in ChoiceTypes, "ChoiceSet"),
    Rule(type \in ToggleTypes, "Toggle"),
    Rule(type \in DateTypes, "Date"),
    Rule(type \in DateTimeTypes, "DateOfTime"),
    Rule(type \in MultilineTypes \/ v.is_multiline, "Text"),
    Rule(type \in NumberTypes, "Number"),
    {"Text"}>>))

\* What an input of the kind makes of a value.
Shown(kind, value) ==
  CASE kind = "Toggle" -> IF value \in TrueWords THEN <<"true">> ELSE <<"false">>
    [] kind = "DateOfTime" -> IF value = <<>> THEN <<>> ELSE <<Head(value)>>
    [] kind = "Number" -> IF IsNumeric(value) THEN value ELSE <<>>
    [] OTHER -> value

\* The type in force.
inputType(v) == Only(FirstOf(<<isLikelyDateField(v), {normalizeVariableType(v)}>>))

\* prefilled: the values by the names of variables; offered: the records that were
\* found for a reference.
buildVariableInput(v, prefilled, offered) ==
  LET kind == InputKind(v, inputType(v), offered)
      value == IF v.name \in DOMAIN prefilled /\ prefilled[v.name] # <<>>
               THEN prefilled[v.name] ELSE getVariableDefaultValue(v)
  IN IF kind = "none" THEN {}
     ELSE {[kind |-> kind, id |-> v.name, value |-> Shown(kind, value), required |-> v.mandatory,
            choices |-> IF kind = "ReferenceSet" THEN offered
                        ELSE IF kind = "ChoiceSet" THEN normalizeChoices(v) ELSE <<>>]}
=============================================================================
