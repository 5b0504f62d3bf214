-------------------------- MODULE MCCatalogItemForm --------------------------
(***************************************************************************)
(* The instance of CatalogItemForm that TLC checks: two items with the     *)
(* same name, a phone whose choices resemble one another and a loan with   *)
(* references and with variables of every kind the code tells apart; and   *)
(* what an agent may send along.                                           *)
(***************************************************************************)
EXTENDS CatalogItemForm

Words ==
  "0" :> 0 @@ "1" :> 1 @@ "2" :> 2 @@ "7" :> 7 @@ "14" :> 14 @@ "25" :> 25 @@ "30" :> 30
    @@ "256" :> 256 @@ "2026" :> 2026
Iso == {"2026-06-01"}
Slashes == "5/25/2026" :> <<5, 25, 2026>> @@ "30/2/2026" :> <<30, 2, 2026>>

Choice(title, value) == [title |-> title, value |-> value]
Line(text) == [value |-> text]

Variable(name, label, type) ==
  [name |-> <<name>>, label |-> label, question_text |-> <<>>, friendly_type |-> "", type |-> type,
   choices |-> <<>>, default_value |-> <<>>, mandatory |-> FALSE, visible |-> TRUE,
   readonly |-> FALSE, is_multiline |-> FALSE, reference |-> "", ref_qualifier |-> "",
   children |-> <<>>]

Select(name, label, choices) == [Variable(name, label, "14") EXCEPT !.choices = choices]
Reference(name, label, table) == [Variable(name, label, "18") EXCEPT !.reference = table]

YesNoChoices == <<Choice(<<"none">>, <<>>), Line(<<"yes">>), Line(<<"no">>)>>
Group(children) == [Variable("group", <<"color", "model">>, "container_start") EXCEPT !.children = children]

Phone ==
  [sys_id |-> <<"id1">>, name |-> <<"phone">>, variables |-> <<
     Group(<<
       Select("edition", <<"model">>, <<Line(<<"15", "pro">>), Line(<<"15", "pro", "max">>), Line(<<"15">>)>>),
       Select("shade", <<"phone", "color">>,
         <<Choice(<<"space", "gray">>, <<"c1">>), Choice(<<"midnight">>, <<"c2">>), [title |-> <<"black">>]>>)>>),
     Select("disk", <<"storage">>, <<Line(<<"64gb">>), Line(<<"256gb">>)>>),
     Select("broken", <<"is", "this", "a", "replacement">>, YesNoChoices),
     Variable("care", <<"include", "care">>, "5"),
     [Variable("amount", <<"quantity">>, "3") EXCEPT !.default_value = <<"1">>],
     [Variable("by", <<"need", "by", "date">>, "6") EXCEPT !.friendly_type = "single_line_text"],
     [Variable("why", <<"business", "justification">>, "2") EXCEPT !.mandatory = TRUE],
     Variable("end", <<"end">>, "container_end")>>]

Loan ==
  [sys_id |-> <<"id2">>, name |-> <<"loan">>, variables |-> <<
     Reference("person", <<"requested", "for">>, "sys_user"),
     [Reference("place", <<"location">>, "cmn_location") EXCEPT
        !.ref_qualifier = "retired", !.friendly_type = "reference"],
     [Reference("odd", <<"model">>, "no table") EXCEPT !.type = "8"],
     Variable("halves", <<"model">>, "begin_split"),
     Select("span", <<"how", "long">>, <<Line(<<"7", "days">>), Line(<<"1", "month">>)>>),
     Variable("plan", <<"carrier">>, "1"),
     Variable("tick", <<"phone", "color">>, "toggle"),
     [Variable("widget", <<"model">>, "14") EXCEPT !.friendly_type = "macro"],
     [Variable("fixed", <<"carrier">>, "1") EXCEPT !.readonly = TRUE, !.default_value = <<"bell">>],
     [Variable("hidden", <<"carrier">>, "1") EXCEPT !.visible = FALSE],
     [Variable("script", <<"duration">>, "1") EXCEPT !.default_value = <<"javascript", "gs">>]>>]

OtherLoan == [sys_id |-> <<"id3">>, name |-> <<"loan">>, variables |-> <<>>]

Items == {Phone, Loan, OtherLoan}
AllVariables ==
  LET listed == Range(Phone.variables) \cup Range(Loan.variables)
  IN listed \cup UNION {Range(v.children) : v \in listed}
KnownTables == {"sys_user", "cmn_location"}
Answers ==
  <<"sys_user", "">> :> <<[sys_id |-> <<"u1">>, name |-> <<"ann">>], [sys_id |-> <<>>, name |-> <<"ghost">>]>>
    @@ <<"cmn_location", "retired">> :> <<[sys_id |-> <<"l1">>, name |-> <<>>]>>

Hint(key, value) == [key |-> key, value |-> value]
HintLists == {
  <<>>,
  <<Hint(<<"color">>, <<"black">>), Hint(<<"storage">>, <<"256">>), Hint(<<"model">>, <<"15">>)>>,
  <<Hint(<<"model">>, <<"pro", "max">>), Hint(<<"replacement">>, <<"broken">>),
    Hint(<<"care">>, <<"on">>), Hint(<<"quantity">>, <<"1-2">>), Hint(<<"quantity">>, <<"2", "phones">>),
    Hint(<<"date">>, <<"may", "25", "2026">>), Hint(<<"requested">>, <<"u1">>)>>,
  <<Hint(<<"color">>, <<"fuchsia">>), Hint(<<"replacement">>, <<"no">>), Hint(<<"care">>, <<"no">>),
    Hint(<<"date">>, <<"soon">>), Hint(<<"quantity">>, <<"7pcs">>), Hint(<<"location">>, <<"here">>)>>}

\* Colors and models; durations; dates; a yes and a no; carriers; nothing.
Contexts == {
  <<>>,
  <<<<"i", "want", "the", "15", "pro", "max", "in", "midnight">>, <<"mine", "is", "broken">>>>,
  <<<<"a", "gray", "15", "with", "256", "gb">>, <<"no", "care">>, <<"need", "by", "30/2/2026", "or", "tomorrow">>>>,
  <<<<"2", "phones", "of", "256gb">>, <<"please", "include", "care">>, <<"may", "25", "2026">>>>,
  <<<<"for", "a", "week", "from", "5/25/2026">>, <<"my", "first", "phone", "on", "bell">>>>,
  <<<<"a", "couple", "of", "days">>, <<"2026-06-01", "or", "today">>, <<"i", "need", "it">>>>,
  <<<<"30", "business", "days">>, <<"in", "2", "weeks">>>>,
  <<<<"14", "days">>, <<"next", "monday">>, <<"yesterday">>>>,
  <<<<"one", "month">>, <<"30", "february", "2026">>>>}

Calls ==
  {[byId |-> r.byId, item |-> r.item, hints |-> hints, context |-> context] :
     r \in {[byId |-> TRUE, item |-> <<"id1">>], [byId |-> FALSE, item |-> <<"phone">>],
            [byId |-> TRUE, item |-> <<"id2">>], [byId |-> FALSE, item |-> <<"loan">>],
            [byId |-> TRUE, item |-> <<"no such id">>], [byId |-> FALSE, item |-> <<"no such name">>]},
     hints \in HintLists, context \in Contexts}
=============================================================================
