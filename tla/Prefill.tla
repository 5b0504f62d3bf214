------------------------------- MODULE Prefill -------------------------------
(***************************************************************************)
(* What is filled into an order form before the user sees it,              *)
(* src/src/utils/prefillCatalogForm.ts: the hints of the agent come first,  *)
(* then what the context of the conversation says.  Values are matched     *)
(* against the choices of the variable.                                    *)
(*                                                                         *)
(* The context is a sequence of sentences; as one text, a full stop stands *)
(* between them, so that no phrase reaches over two.  A hint is a key and  *)
(* a value, in the order in which the agent gave them.  A result is an     *)
(* optional text: true and false are words, too.                           *)
(***************************************************************************)
EXTENDS FormFields

CONSTANTS
  IsoDates,    \* the words that are dates of the form yyyy-mm-dd
  SlashDates,  \* the words that are dates of the form 5/25/2026, with their numbers
  Weekday      \* today's day of the week, 0 for Sunday

Counted(n, word) == <<ToString(n), word>>

Whole(context) ==
  FoldLeft(LAMBDA text, s : IF text = <<>> THEN s ELSE text \o <<".">> \o s, <<>>, context)

\* A pattern is a sequence of sets of words: does the text have it at position i?
HasAt(text, pattern, i) ==
  /\ i + Len(pattern) - 1 <= Len(text)
  /\ \A j \in DOMAIN pattern : text[i + j - 1] \in pattern[j]

\* The leftmost position at which one of the patterns is found.
Leftmost(text, patterns) ==
  Find([i \in 1..Len(text) |-> i], LAMBDA i : \E p \in patterns : HasAt(text, p, i))

Mentions(text, phrase) == Leftmost(text, {[i \in DOMAIN phrase |-> {phrase[i]}]}) # {}

-----------------------------------------------------------------------------
(* Choices *)

\* Exactly the candidate, a choice it is part of, a choice whose words it has.
matchChoice(candidate, choices) ==
  IF candidate = <<>> THEN {}
  ELSE FirstOf(<<
    Find(choices, LAMBDA c : candidate \in {c.value, c.title}),
    Find(choices, LAMBDA c : Includes(c.title \o c.value, candidate)),
    Find(choices, LAMBDA c : LET words == Range(c.title \o c.value)
                             IN words # {} /\ words \subseteq Range(candidate))>>)

Grays == <<<<"graphite">>, <<"space", "gray">>, <<"space", "grey">>, <<"silver">>>>

COLOR_SYNONYMS ==
  [black  |-> <<<<"midnight">>, <<"graphite">>, <<"space", "gray">>, <<"space", "grey">>,
                <<"jet", "black">>, <<"obsidian">>, <<"phantom", "black">>>>,
   white  |-> <<<<"starlight">>, <<"silver">>, <<"natural">>, <<"pearl">>, <<"phantom", "white">>>>,
   gray   |-> Grays,
   grey   |-> Grays,
   gold   |-> <<<<"rose", "gold">>, <<"natural">>, <<"champagne">>>>,
   silver |-> <<<<"starlight">>, <<"natural">>, <<"platinum">>>>]

matchChoiceWithColorSynonyms(candidate, choices) ==
  LET synonyms == IF Len(candidate) = 1 /\ Head(candidate) \in DOMAIN COLOR_SYNONYMS
                  THEN COLOR_SYNONYMS[Head(candidate)] ELSE <<>>
  IN FirstOf(<<matchChoice(candidate, choices),
               FirstOf([i \in DOMAIN synonyms |-> matchChoice(synonyms[i], choices)])>>)

isYesNoChoiceSet(choices) ==
  Len(choices) \in 2..4 /\ {<<"yes">>, <<"no">>} \subseteq {c.title : c \in Range(choices)}

pickYesNoChoice(answer, choices) ==
  LET wanted == IF answer THEN <<"yes">> ELSE <<"no">>
  IN Find(choices, LAMBDA c : wanted \in {c.title, c.value})

-----------------------------------------------------------------------------
(* Labels *)

KindWords ==
  [color       |-> {"color", "colour"},
   storage     |-> {"storage", "capacity", "memory", "size", "gb", "tb"},
   carrier     |-> {"carrier", "network", "operator"},
   model       |-> {"model", "variant", "version"},
   justification |-> {"justification", "reason", "business", "why", "purpose"},
   quantity    |-> {"quantity", "qty", "count"},
   duration    |-> {"duration", "period", "length"},
   date        |-> {"date", "deadline", "needed", "need", "required", "when", "schedule", "due"},
   replacement |-> {"replacement", "replace", "lost", "broken", "damaged", "stolen"}]

\* What the label asks for; the kind "location" has no extractor.
classifyLabel(label) ==
  {kind \in DOMAIN KindWords : KindWords[kind] \cap Range(label) # {}}
    \cup (IF {"how", "long"} \subseteq Range(label) THEN {"duration"} ELSE {})

\* Does the key of a hint name the variable, or use words of its label?
hintKeyMatchesVariable(key, v) ==
  key # <<>> /\ (key = v.name \/ Range(key) \subseteq Range(getVariableLabel(v)))

-----------------------------------------------------------------------------
(* What the context says *)

COLOR_WORDS ==
  <<<<"black">>, <<"white">>, <<"silver">>, <<"gold">>, <<"blue">>, <<"red">>, <<"green">>,
    <<"purple">>, <<"pink">>, <<"yellow">>, <<"graphite">>, <<"midnight">>, <<"starlight">>,
    <<"titanium">>, <<"natural">>, <<"desert">>, <<"space", "gray">>, <<"space", "grey">>,
    <<"rose", "gold">>>>

\* The names with punctuation (at&t, t-mobile) are left out.
CARRIER_WORDS ==
  <<<<"verizon">>, <<"att">>, <<"tmobile">>, <<"sprint">>, <<"vodafone">>, <<"o2">>, <<"ee">>,
    <<"three">>, <<"orange">>, <<"telefonica">>, <<"telekom">>, <<"rogers">>, <<"bell">>,
    <<"telus">>, <<"unlocked">>>>

VARIANTS ==
  <<<<"pro", "max">>, <<"pro">>, <<"plus">>, <<"mini">>, <<"ultra">>, <<"se">>, <<"air">>>>

extractColor(text) == Find(COLOR_WORDS, LAMBDA w : Mentions(text, w))
extractCarrier(text) == Find(CARRIER_WORDS, LAMBDA w : Includes(text, w))
extractModelVariant(text) == Find(VARIANTS, LAMBDA w : Mentions(text, w))

NumbersIn(range) == {w \in DOMAIN Numerals : Numerals[w] \in range}

\* "256 gb" or "256gb", of which the result is the latter.
extractStorage(text) ==
  LET size == NumbersIn(10..9999)
      joined == {n \o u : n \in size, u \in {"gb", "tb"}}
  IN {IF text[i] \in joined THEN <<text[i]>> ELSE <<text[i] \o text[i + 1]>> :
        i \in Leftmost(text, {<<size, {"gb", "tb"}>>, <<joined>>})}

CountedThings ==
  {"unit", "units", "pc", "pcs", "piece", "pieces", "item", "items", "phone", "phones",
   "device", "devices"}

\* Of the leftmost match only; 0 is not a quantity.
extractQuantity(text) ==
  {<<text[i]>> : i \in {i \in Leftmost(text, {<<NumbersIn(0..999), CountedThings>>}) :
                          Numerals[text[i]] > 0}}

Units ==
  [day |-> "day", days |-> "day", week |-> "week", weeks |-> "week", month |-> "month",
   months |-> "month"]

NUMBER_WORDS ==
  [a |-> 1, an |-> 1, one |-> 1, two |-> 2, three |-> 3, four |-> 4, five |-> 5, six |-> 6,
   seven |-> 7, eight |-> 8, nine |-> 9, ten |-> 10, eleven |-> 11, twelve |-> 12]

\* The ways to say it, the canonical one first.
buildDurationResult(n, unit) ==
  <<Counted(n, IF n = 1 THEN unit ELSE unit \o "s"), Counted(n, unit \o "s"), Counted(n, unit)>>
    \o (CASE unit = "week" -> <<Counted(n * 7, "days"), Counted(n * 7, "day")>>
          [] unit = "day" /\ n % 7 = 0 -> <<Counted(n \div 7, "weeks"), Counted(n \div 7, "week")>>
          [] OTHER -> <<>>)

\* A couple of days, or a counted number of (business) days.
extractDuration(text) ==
  LET unit == DOMAIN Units
      counts == DOMAIN NUMBER_WORDS \cup NumbersIn(0..999)
      number(w) == IF w \in DOMAIN NUMBER_WORDS THEN NUMBER_WORDS[w] ELSE Numerals[w]
      unitFrom(i) == Units[IF text[i + 1] \in unit THEN text[i + 1] ELSE text[i + 2]]
      couple == Leftmost(text, {<<{"couple"}, unit>>, <<{"couple"}, {"of"}, unit>>})
      counted == Leftmost(text, {<<counts, unit>>,
                                 <<counts, {"business", "working", "calendar"}, unit>>})
  IN IF couple # {} THEN {buildDurationResult(2, unitFrom(i)) : i \in couple}
     ELSE {buildDurationResult(number(text[i]), unitFrom(i)) :
             i \in {i \in counted : number(text[i]) \in 1..365}}

MONTHS ==
  <<"january", "february", "march", "april", "may", "june", "july", "august", "september",
    "october", "november", "december">>
WEEKDAYS == <<"sunday", "monday", "tuesday", "wednesday", "thursday", "friday", "saturday">>
IndexIn(seq, w) == CHOOSE i \in DOMAIN seq : seq[i] = w

DaysOf(year, month) ==
  CASE month \in {4, 6, 9, 11} -> 30
    [] month = 2 -> IF year % 4 = 0 /\ (year % 100 # 0 \/ year % 400 = 0) THEN 29 ELSE 28
    [] OTHER -> 31

\* A date that the calendar has, as one word.
buildIsoDate(year, month, day) ==
  IF month \in 1..12 /\ day \in 1..DaysOf(year, month)
  THEN {<<ToString(year) \o "-" \o ToString(month) \o "-" \o ToString(day)>>} ELSE {}

\* A date counted from today is left at its distance from today.
FromToday(n, unit) == {<<"today+" \o ToString(n) \o unit>>}

\* An explicit date precedes a relative one, wherever they stand.
extractDate(text) ==
  LET months == Range(MONTHS)
      day == NumbersIn(0..99)
      year == NumbersIn(1000..9999)
      ahead == Leftmost(text, {<<{"in"}, NumbersIn(0..999), DOMAIN Units>>})
  IN FirstOf(<<
    {<<text[i]>> : i \in Leftmost(text, {<<IsoDates>>})},
    UNION {buildIsoDate(Numerals[text[i + 2]], IndexIn(MONTHS, text[i]), Numerals[text[i + 1]]) :
             i \in Leftmost(text, {<<months, day, year>>})},
    UNION {buildIsoDate(Numerals[text[i + 2]], IndexIn(MONTHS, text[i + 1]), Numerals[text[i]]) :
             i \in Leftmost(text, {<<day, months, year>>})},
    UNION {LET d == SlashDates[text[i]]
           IN IF d[1] \in 1..12 /\ d[2] \in 1..31 THEN buildIsoDate(d[3], d[1], d[2])
              ELSE buildIsoDate(d[3], d[2], d[1]) :
             i \in Leftmost(text, {<<DOMAIN SlashDates>>})},
    IF Mentions(text, <<"today">>) THEN FromToday(0, "day") ELSE {},
    IF Mentions(text, <<"tomorrow">>) THEN FromToday(1, "day") ELSE {},
    IF Mentions(text, <<"yesterday">>) THEN {<<"today-1day">>} ELSE {},
    UNION {LET n == Numerals[text[i + 1]]
               unit == Units[text[i + 2]]
           IN IF n >= 365 THEN {}
              ELSE IF unit = "week" THEN FromToday(7 * n, "day") ELSE FromToday(n, unit) :
             i \in ahead},
    UNION {LET offset == (IndexIn(WEEKDAYS, text[i + 1]) - 1 + 7 - Weekday) % 7
           IN FromToday(IF offset = 0 THEN 7 ELSE offset, "day") :
             i \in Leftmost(text, {<<{"next"}, Range(WEEKDAYS)>>})}>>)

\* Damage and loss speak for a replacement, a first device against it.
extractReplacementSignal(text) ==
  LET says(phrases) == \E p \in phrases : Mentions(text, p)
  IN IF says({<<w>> : w \in {"damaged", "damage", "broken", "broke", "cracked", "lost", "stolen",
                             "replacement", "replace", "defective"}}
               \cup {<<"not", "working">>, <<"stopped", "working">>}) THEN {TRUE}
     ELSE IF says({<<"new", "hire">>, <<"first", "phone">>, <<"first", "time">>,
                   <<"never", "had">>, <<"brand", "new", "account">>}) THEN {FALSE}
     ELSE {}

\* The first sentence that has a word of the label decides; an affirmative word in it
\* outweighs a negative one.
extractBoolean(label, context) ==
  LET hit == Find(label, LAMBDA w : Includes(Whole(context), <<w>>))
      sentence == UNION {Find(context, LAMBDA s : Includes(s, <<w>>)) : w \in hit}
      answer(s) ==
        IF Range(s) \cap {"yes", "yeah", "yep", "sure", "please", "need", "want", "require",
                          "include", "add"} # {} THEN {<<"true">>}
        ELSE IF Range(s) \cap {"no", "nope", "dont", "without", "skip", "exclude"} # {}
                  \/ Mentions(s, <<"do", "not">>) THEN {<<"false">>}
        ELSE {}
  IN UNION {answer(s) : s \in sentence}
-----------------------------------------------------------------------------
(* computePrefillValues *)

BooleanTypes == {"5", "7", "boolean", "checkbox", "check_box", "toggle"}
NumericTypes == {"3", "4", "integer", "decimal", "number"}
FalseWords == {<<"false">>, <<"no">>, <<"n">>, <<"0">>, <<"off">>}

\* Mutant: headings are filled as well.
IsSkipped_AllButEnds(v) ==
  ~v.visible \/ v.readonly \/ normalizeVariableType(v) \in ContainerEndTypes

\* Variables that are not for the user to fill, and texts.
IsSkipped(v) ==
  \/ ~v.visible \/ v.readonly
  \/ normalizeVariableType(v) \in ContainerEndTypes \cup (StaticTextTypes \ {"begin_split", "split"})

IsReplacementYesNo(v) ==
  "replacement" \in classifyLabel(getVariableLabel(v)) /\ isYesNoChoiceSet(normalizeChoices(v))

\* The choice that a text stands for.
ChoiceFor(v, text) ==
  IF "color" \in classifyLabel(getVariableLabel(v))
  THEN matchChoiceWithColorSynonyms(text, normalizeChoices(v))
  ELSE matchChoice(text, normalizeChoices(v))

NumberCharacters == {"0", "1", "2", "3", "4", "5", "6", "7", "8", "9", ".", "-"}

\* What a number is read from: the digits, points and dashes of a text in a row, inside
\* words, too; nothing is read as 0.
Digits(text) ==
  LET s == Joined(text)
      kept(i) == IF SubSeq(s, i, i) \in NumberCharacters THEN SubSeq(s, i, i) ELSE ""
      digits == FoldLeft(LAMBDA d, i : d \o kept(i), "", [i \in 1..Len(s) |-> i])
  IN IF digits = "" THEN <<"0">> ELSE <<digits>>

\* What a yes or no to the question of a replacement is: damage is a yes.
YesNo(text) ==
  IF text \in TrueWords
       \/ Range(text) \cap {"damaged", "broken", "lost", "stolen", "replacement", "replace"} # {}
  THEN {TRUE} ELSE IF text \in FalseWords THEN {FALSE} ELSE {}

\* Mutant: a hint that stands for no choice is filled in as it is.
HintedChoice_Raw(v, text) ==
  FirstOf(<<{c.value : c \in ChoiceFor(v, text)}, {text}>>)

\* Nothing that the user could not have chosen is filled in.
HintedChoice(v, text) ==
  LET yesNo == IF IsReplacementYesNo(v)
               THEN UNION {pickYesNoChoice(a, normalizeChoices(v)) : a \in YesNo(text)} ELSE {}
  IN {c.value : c \in FirstOf(<<yesNo, ChoiceFor(v, text)>>)}

\* What a hint says of a variable, if it does.
HintValue(v, hint) ==
  LET type == normalizeVariableType(v)
  IN IF hint.value = <<>> \/ ~hintKeyMatchesVariable(hint.key, v) THEN {}
     ELSE IF normalizeChoices(v) # <<>> THEN HintedChoice(v, hint.value)
     ELSE IF type \in BooleanTypes
       THEN IF hint.value \in TrueWords THEN {<<"true">>}
            ELSE IF hint.value \in FalseWords THEN {<<"false">>} ELSE {}
     ELSE IF type \in NumericTypes THEN {number \in {Digits(hint.value)} : IsNumeric(number)}
     ELSE {hint.value}

\* The first hint that says something.
FromHints(v, hints) == FirstOf([i \in DOMAIN hints |-> HintValue(v, hints[i])])

\* Mutant: the first choice that is mentioned, though another says more.
MentionedChoice_First(text, choices) ==
  Find(choices, LAMBDA c : \E t \in {c.title, c.value} : Len(Joined(t)) >= 2 /\ Includes(text, t))

\* The choice with the longest title or value that the text includes.
MentionedChoice(text, choices) ==
  LET found(c) == {Len(Joined(t)) : t \in {t \in {c.title, c.value} :
                                              Len(Joined(t)) >= 2 /\ Includes(text, t)}}
      longest == Max({0} \cup UNION {found(c) : c \in Range(choices)})
  IN Find(choices, LAMBDA c : longest \in found(c))

\* The text that the kind of the label looks for, in the order of the extractors.
Extracted(text, kinds) ==
  IF "color" \in kinds THEN extractColor(text)
  ELSE IF "storage" \in kinds THEN extractStorage(text)
  ELSE IF "carrier" \in kinds THEN extractCarrier(text)
  ELSE IF "model" \in kinds THEN extractModelVariant(text)
  ELSE {}

ContextChoice(v, text, kinds) ==
  LET choices == normalizeChoices(v)
      signal == IF IsReplacementYesNo(v) THEN extractReplacementSignal(text) ELSE {}
      durations == IF "duration" \in kinds THEN extractDuration(text) ELSE {}
      ofDuration(d) == FirstOf([i \in DOMAIN d |-> matchChoice(d[i], choices)])
  IN FirstOf(<<
       UNION {pickYesNoChoice(a, choices) : a \in signal},
       MentionedChoice(text, choices),
       UNION {ChoiceFor(v, t) : t \in Extracted(text, kinds)},
       UNION {ofDuration(d) : d \in durations}>>)

\* For a line of text; the context itself is a justification (up to 500 characters).
ContextText(v, text, kinds) ==
  IF kinds \cap {"color", "storage", "carrier", "model"} # {} THEN Extracted(text, kinds)
  ELSE IF "duration" \in kinds THEN {Head(d) : d \in extractDuration(text)}
  ELSE IF "date" \in kinds THEN extractDate(text)
  ELSE IF "justification" \in kinds
            /\ (normalizeVariableType(v) \in MultilineTypes \/ v.is_multiline) THEN {text}
  ELSE {}

FromContext(v, context) ==
  LET text == Whole(context)
      type == normalizeVariableType(v)
      kinds == classifyLabel(getVariableLabel(v))
  IN IF text = <<>> THEN {}
     ELSE IF normalizeChoices(v) # <<>> THEN {c.value : c \in ContextChoice(v, text, kinds)}
     ELSE IF type \in BooleanTypes THEN extractBoolean(getVariableLabel(v), context)
     ELSE IF type \in NumericTypes
       THEN IF "quantity" \in kinds THEN extractQuantity(text) ELSE {}
     ELSE ContextText(v, text, kinds)

PrefilledValue(v, hints, context) ==
  IF IsSkipped(v) THEN {} ELSE FirstOf(<<FromHints(v, hints), FromContext(v, context)>>)

\* The values by the names of the variables; no two variables have the same name.
computePrefillValues(variables, hints, context) ==
  LET flat == Range(collectVariables(variables))
      filled == {v \in flat : PrefilledValue(v, hints, context) # {}}
      named(name) == CHOOSE v \in filled : v.name = name
  IN [name \in {v.name : v \in filled} |-> Only(PrefilledValue(named(name), hints, context))]
=============================================================================
