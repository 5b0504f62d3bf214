--------------------------- MODULE CatalogItemForm ---------------------------
(***************************************************************************)
(* The tool get_catalog_item_form, src/src/tools/getCatalogItemForm.ts: it *)
(* finds the item, prefills its form (Prefill), looks up the records that  *)
(* its references may refer to, all at once, and builds the card           *)
(* (FormFields).                                                           *)
(*                                                                         *)
(* ServiceNow is external: each call is answered or fails, the lookups in  *)
(* any order.  A table that cannot be read has no records to offer.        *)
(***************************************************************************)
EXTENDS Prefill

CONSTANTS
  Catalog,   \* items: their sys_id, name and variables
  Requests,  \* what the tool may be called with: byId and item, hints, context
  Tables,    \* the tables whose names are well formed
  Rows,      \* per table and qualifier: the rows ServiceNow answers with
  Nothing    \* no item

\* The item is asked for by a sys_id (32 hexadecimal digits) or by a name.
ASSUME RequestsAssumption == \A r \in Requests : r.byId \in BOOLEAN
ASSUME NothingAssumption == Nothing \notin Catalog
ASSUME NamesAssumption ==
  \A item \in Catalog :
    /\ \A other \in Catalog : other.sys_id = item.sys_id => other = item
    /\ LET flat == collectVariables(item.variables)
       IN \A i, j \in DOMAIN flat : flat[i].name = flat[j].name => i = j
ASSUME CatalogAssumption ==
  \A item \in Catalog :
    /\ item.variables \in Seq(Variables)
    /\ Visit(item.variables).todo = <<>>

VARIABLES
  request,    \* the arguments of the call
  stage,      \* what the handler awaits
  item,       \* the item, once it is known
  lookup      \* per reference of the form: the state of its lookup

formVars == <<request, stage, item, lookup>>

Stages == {"called", "search", "item", "lookups", "failed", "done"}
Awaiting == {"called", "search", "item", "lookups"}
LookupStates == {"asked", "answered", "failed"}

Flat == collectVariables(item.variables)

\* The references that have a table, in the order of the form.
References ==
  IF item = Nothing THEN <<>>
  ELSE Among(Flat, {v \in Variables : isReferenceVariable(v) /\ v.visible /\ v.reference # ""})

FormTypeOK ==
  /\ request \in Requests /\ stage \in Stages /\ item \in Catalog \cup {Nothing}
  /\ DOMAIN lookup \in {{}, DOMAIN References} /\ Range(lookup) \subseteq LookupStates

FormInit ==
  /\ request \in Requests
  /\ stage = "called"
  /\ item = Nothing
  /\ lookup = <<>>

-----------------------------------------------------------------------------
(* The item *)

\* By its sys_id at once, by a name after a search.
Call ==
  /\ stage = "called"
  /\ stage' = IF request.byId THEN "item" ELSE "search"
  /\ item' = Only(FirstOf(<<{i \in Catalog : request.byId /\ i.sys_id = request.item}, {Nothing}>>))
  /\ UNCHANGED <<request, lookup>>

\* The search finds some items, in its own order: the first of the very name is taken.
SearchReturns(found) ==
  /\ stage = "search"
  /\ LET match == Find(found, LAMBDA i : i.name = request.item)
     IN IF match = {} THEN stage' = "failed" /\ item' = Nothing
        ELSE stage' = "item" /\ item' \in match
  /\ UNCHANGED <<request, lookup>>

\* Mutant: what fails is tried again, without an end.
CallFails_Retried ==
  /\ stage \in {"search", "item"}
  /\ stage' = "called" /\ item' = Nothing
  /\ UNCHANGED <<request, lookup>>

\* The search fails, or ServiceNow has no such item or does not answer.
CallFails ==
  /\ stage \in {"search", "item"}
  /\ stage' = "failed"
  /\ UNCHANGED <<request, item, lookup>>

\* What is filled in follows from the item and the arguments alone.
prefilledValues == computePrefillValues(item.variables, request.hints, request.context)

\* Every lookup begins; one of a malformed table name fails before it is sent.
ItemReturns ==
  /\ stage = "item" /\ item # Nothing
  /\ stage' = "lookups"
  /\ lookup' = [i \in DOMAIN References |->
                  IF References[i].reference \in Tables THEN "asked" ELSE "failed"]
  /\ UNCHANGED <<request, item>>

-----------------------------------------------------------------------------
(* The references *)

\* The rows that have a sys_id; the value of a choice is the sys_id.
searchReferenceRecords(v) ==
  LET usable == SelectSeq(Rows[v.reference, v.ref_qualifier], LAMBDA r : r.sys_id # <<>>)
  IN [i \in DOMAIN usable |->
        [title |-> IF usable[i].name # <<>> THEN usable[i].name ELSE usable[i].sys_id,
         value |-> usable[i].sys_id]]

ReferenceReturns(i) ==
  /\ stage = "lookups" /\ lookup[i] = "asked"
  /\ lookup' = [lookup EXCEPT ![i] = "answered"]
  /\ UNCHANGED <<request, stage, item>>

\* Mutant: the failure of one lookup is that of Promise.all.
ReferenceFails_Thrown(i) ==
  /\ stage = "lookups" /\ lookup[i] = "asked"
  /\ lookup' = [lookup EXCEPT ![i] = "failed"]
  /\ stage' = "failed"
  /\ UNCHANGED <<request, item>>

\* It is caught, twice over.
ReferenceFails(i) ==
  /\ stage = "lookups" /\ lookup[i] = "asked"
  /\ lookup' = [lookup EXCEPT ![i] = "failed"]
  /\ UNCHANGED <<request, stage, item>>

\* What has been found for a variable.
referenceChoices(v) ==
  UNION {IF References[i] = v /\ lookup[i] = "answered" THEN {searchReferenceRecords(v)} ELSE {} :
           i \in DOMAIN References}

\* The elements of the card in the order of the variables.
buildOrderFormAdaptiveCard(prefilled) ==
  LET input(v) == buildVariableInput(v, prefilled, Only(FirstOf(<<referenceChoices(v), {<<>>}>>)))
      shown == Among(Flat, {v \in Variables : input(v) # {}})
  IN [i \in DOMAIN shown |-> Only(input(shown[i]))]

\* All lookups have settled: the card is built, from what is prefilled and found.
Build ==
  /\ stage = "lookups" /\ \A i \in DOMAIN lookup : lookup[i] # "asked"
  /\ stage' = "done"
  /\ UNCHANGED <<request, item, lookup>>

-----------------------------------------------------------------------------
\* What a search may find: any of the items, in any order.
Findings == UNION {SetToSeqs(found) : found \in SUBSET Catalog}

Step ==
  \/ Call \/ CallFails \/ ItemReturns \/ Build
  \/ \E found \in Findings : SearchReturns(found)
  \/ \E i \in DOMAIN lookup : ReferenceReturns(i) \/ ReferenceFails(i)

\* The tool has answered.
Answered == stage \in {"failed", "done"} /\ UNCHANGED formVars

FormNext == Step \/ Answered

\* The timeout of the REST client settles every call, once its token is there: the
\* exchange of a caller token has no timeout, and is taken to settle as well.
Fairness == WF_formVars(Step)

FormSpec == FormInit /\ [][FormNext]_formVars /\ Fairness

-----------------------------------------------------------------------------
\* The types that the card leaves out or shows as text, whatever is prefilled.
NotInputTypes == StaticTextTypes \cup ContainerEndTypes \cup UnsupportedRendererTypes
IsAsked(v) == v.visible /\ normalizeVariableType(v) \notin NotInputTypes

\* A text refers to no table, and a line of text that is a date has no other type.
ASSUME TypesAssumption ==
  \A v \in Variables :
    /\ v.reference # "" => normalizeVariableType(v) \notin StaticTextTypes
    /\ isLikelyDateField(v) # {} => normalizeVariableType(v) \notin NotInputTypes

Card == IF stage = "done" THEN buildOrderFormAdaptiveCard(prefilledValues) ELSE <<>>

Inputs(card) == Among(card, {input \in Range(card) : input.kind # "TextBlock"})

IsList(input) == input.kind \in {"ReferenceSet", "ChoiceSet"}

\* The records that the lookup of the variable itself has found.
RecordsFor(v) ==
  IF \E i \in DOMAIN lookup : References[i] = v /\ lookup[i] = "answered"
  THEN searchReferenceRecords(v) ELSE <<>>

\* The records, or else the catalog's own choices.
ChoicesFor(v) == IF RecordsFor(v) # <<>> THEN RecordsFor(v) ELSE normalizeChoices(v)

\* Is the variable a line of text, when there is nothing to choose from?
IsText(v) ==
  /\ inputType(v) \notin ChoiceTypes \cup ToggleTypes \cup DateTypes \cup DateTimeTypes
  /\ inputType(v) \in NumberTypes => v.is_multiline

\* Is the input the one that a variable and its choices call for?
Puts(input, v, choices) ==
  /\ input.choices = choices
  /\ IsList(input) <=> choices # <<>> \/ inputType(v) \in ChoiceTypes
  /\ input.kind = "Text" <=> choices = <<>> /\ IsText(v)

\* Do the inputs put the questions of the form, in their order?
PutTheQuestions(inputs) ==
  LET asked == Among(Flat, {v \in Variables : IsAsked(v)})
  IN /\ [i \in DOMAIN inputs |-> inputs[i].id] = [i \in DOMAIN asked |-> asked[i].name]
     /\ \A i \in DOMAIN asked : Puts(inputs[i], asked[i], ChoicesFor(asked[i]))

\* A lookup that fails, is slow or is overtaken costs its own variable a list of records,
\* and nothing else: the form is built all the same, every question is asked exactly once
\* and in the order of the catalog, and the records that are offered are those of the
\* variable's own table.  A reference for which nothing was found becomes the line of text
\* that the comments promise only if its type is that of no other input; it becomes a list
\* with nothing to choose from if, and only if, its type is that of a list (such as 18)
\* and the catalog has no choices for it.
FlakyLookupsAreLocal ==
  /\ stage = "failed" => lookup = <<>>
  /\ stage = "done" => PutTheQuestions(Inputs(Card))

\* Does the form show the value: whole, in an input of the variable, and as one of the
\* choices where the input is a list?
Visible(card, v, value) ==
  \E input \in Range(card) :
    /\ input.kind # "TextBlock" /\ input.id = v.name /\ input.value = value
    /\ IsList(input) => \E c \in Range(input.choices) : c.value = value

\* A variable without an input, a value that is not on the list of the input, and more
\* than one word where the input takes the first.
LosesPrefill(v, value, choices) ==
  \/ normalizeVariableType(v) \in UnsupportedRendererTypes \cup {"begin_split", "split"}
  \/ /\ choices # <<>> \/ inputType(v) \in ChoiceTypes
     /\ ~\E c \in Range(choices) : c.value = value
  \/ choices = <<>> /\ inputType(v) \in DateTimeTypes /\ value # <<Head(value)>>

Accounts(card, prefilled) ==
  \A v \in Range(Flat) :
    v.name \in DOMAIN prefilled /\ prefilled[v.name] # <<>> =>
      (Visible(card, v, prefilled[v.name]) <=> ~LosesPrefill(v, prefilled[v.name], ChoicesFor(v)))

\* What is reported as prefilled, and counted in the notice of the card, is what the user
\* will find in the form, except in three cases, and in those never: the card has no input
\* for a macro, a custom variable, a break or a split; what is filled into a reference, or
\* into a list to which the catalog gives no choices, may be on no list; and a date with
\* time keeps the first word only.
PrefillIsAccountedFor == stage = "done" => Accounts(Card, prefilledValues)

\* Where the catalog lists choices, the form proposes one of them or the catalog's own
\* default, however hints and context are worded.
ChoicesAreReal ==
  \A input \in Range(Card) :
    input.kind = "ChoiceSet" /\ input.choices # <<>> =>
      \/ \E c \in Range(input.choices) : input.value = c.value
      \/ \E v \in Range(Flat) : v.name = input.id /\ input.value = getVariableDefaultValue(v)

\* Is the choice spelled out by the text?
Spells(c, text) == text \in {c.title, c.value}
HintsFor(v) == {h \in Range(request.hints) : h.value # <<>> /\ hintKeyMatchesVariable(h.key, v)}

\* Is the choice of a variable the one that a hint spells out, and otherwise none that is
\* only a part of another one the context mentions?
FollowsTheNamed(prefilled) ==
  LET text == Whole(request.context)
  IN \A v \in {v \in Range(Flat) : normalizeChoices(v) # <<>> /\ ~IsSkipped(v)} :
       LET choices == Range(normalizeChoices(v))
           filled == {c \in choices : v.name \in DOMAIN prefilled /\ c.value = prefilled[v.name]}
       IN IF HintsFor(v) # {}
          THEN (\A h \in HintsFor(v) : \E c \in choices : Spells(c, h.value))
                 => \E c \in filled, h \in HintsFor(v) : Spells(c, h.value)
          ELSE IsReplacementYesNo(v) \/
                 ~\E c \in filled, d \in choices \ filled :
                    /\ Includes(text, d.title) /\ Includes(d.title, c.title)
                    /\ Len(Joined(d.title)) > Len(Joined(c.title))

\* When choices resemble one another ("15", "15 Pro", "15 Pro Max"), the one that was
\* named is taken, in whatever order the catalog lists them.
NamedChoiceWins == stage = "done" => FollowsTheNamed(prefilledValues)

\* The tool answers, with a form or an error, whatever becomes of its calls.
FormIsAnswered == stage \in Awaiting ~> stage \in {"failed", "done"}
=============================================================================
