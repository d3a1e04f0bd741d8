-------------------------- MODULE DesignGenerator --------------------------
(***************************************************************************)
(* How a design system is put together: the product category found by a    *)
(* search picks a reasoning rule, the conditions of the rule that the      *)
(* query meets change its style, pattern and mode, and one style and one   *)
(* palette are chosen among what the searches returned, so that the colour *)
(* mode, the palette and the advice agree.                                 *)
(*                                                                         *)
(* The five searches are inputs here: whatever rows they may return.       *)
(***************************************************************************)
EXTENDS PythonLists

CONSTANTS
    Conditions,    \* the conditions of a rule, in the order they are listed
    Rules,         \* the reasoning rules: per condition, its actions
    Styles,        \* the styles by name: [status, first] or the redirect None
    Palettes,      \* the palettes by product: is the background dark
    Dials          \* variance dial values

ASSUME PalettesAssumption == \A p \in DOMAIN Palettes : Palettes[p] \in BOOLEAN

VARIABLES
    request,       \* the query, its signals and the dial
    design         \* the recommendation made for it

generateVars == <<request, design>>

NoRule == [category |-> None, priority |-> <<"Minimalism">>, mode |-> None, avoidsDark |-> FALSE]

\* The tiers of a dial from 1 to 10, values outside being brought back in.
Tier(value) ==
    LET v == IF value < 1 THEN 1 ELSE IF value > 10 THEN 10 ELSE value
    IN IF v <= 3 THEN "low" ELSE IF v <= 7 THEN "mid" ELSE "high"

DialKeywords(dial) ==
    IF dial = None THEN <<>>
    ELSE CASE Tier(dial) = "low" -> <<"Minimalism">>
           [] Tier(dial) = "mid" -> <<"modern">>
           [] Tier(dial) = "high" -> <<"Brutalism", "Bento Grids">>

\* A condition holds always, or when the query carries one of its signals.
Active(condition, query) == condition = "must_have" \/ condition \in query.signals

\* Actions are applied in the order of the rule: styles accumulate without
\* repeats, the last mode wins.
ApplyDecisionRules(rule, query) ==
    LET active == SelectSeq(Conditions, LAMBDA c : c \in DOMAIN rule.actions
                                                   /\ Active(c, query))
        actions == FlattenSeq([i \in 1..Len(active) |-> rule.actions[active[i]]])
        modes == SelectSeq(actions, LAMBDA a : a[1] = "mode")
        styles == SelectSeq(actions, LAMBDA a : a[1] = "style")
    IN  [activated |-> ToSet(active),
         styles |-> [i \in 1..Len(styles) |-> styles[i][2]],
         mode |-> IF modes = <<>> THEN None ELSE Last(modes)[2]]

\* The rule of the category, or the built-in default.
ApplyReasoning(category, query) ==
    IF category \notin DOMAIN Rules THEN NoRule
    ELSE LET rule == Rules[category]
             applied == ApplyDecisionRules(rule, query)
         IN  [category |-> category, priority |-> applied.styles \o rule.priority,
              mode |-> applied.mode, avoidsDark |-> rule.avoidsDark]

\* A name the catalogue resolves to a style in use.
Resolves(name) == name \in DOMAIN Styles /\ Styles[name] # None

\* The first name of the priority that resolves is the style; otherwise the
\* best lexical match, or nothing when the search was empty.
SelectBestMatch(results, priority) ==
    LET resolved == {i \in DOMAIN priority : Resolves(priority[i])}
    IN  IF results = {} THEN {None}
        ELSE IF resolved # {} THEN {FirstOf(priority, resolved)}
        ELSE results

\* Dark when the query asks for it or the style is made for it.
ColorMode(query, style, reasoning) ==
    IF reasoning.mode # None THEN reasoning.mode
    ELSE IF query.wantsDark \/ (style # None /\ Styles[style].first = "dark")
         THEN "dark" ELSE "light"

TopHit(palettes, mode, category) ==
    IF palettes = <<>> THEN None
    ELSE [product |-> Head(palettes), dark |-> Palettes[Head(palettes)], derived |-> FALSE]

\* The palette of the category, darkened when the mode is dark and it is not;
\* without one, in dark mode, the first dark palette, else the top hit.
SelectPalette(palettes, mode, category) ==
    LET own == {i \in DOMAIN palettes : palettes[i] = category}
        dark == {i \in DOMAIN palettes : Palettes[palettes[i]]}
        Row(p) == [product |-> p, dark |-> Palettes[p], derived |-> FALSE]
    IN  IF palettes = <<>> THEN None
        ELSE IF own # {} /\ mode = "dark" /\ ~Palettes[category]
          THEN [product |-> category, dark |-> TRUE, derived |-> TRUE]
        ELSE IF own # {} THEN Row(category)
        ELSE IF mode = "dark" /\ dark # {} THEN Row(FirstOf(palettes, dark))
        ELSE Row(Head(palettes))

\* Advice against dark mode is dropped once the design is dark.
Advice(reasoning, mode) == reasoning.avoidsDark /\ mode # "dark"

-----------------------------------------------------------------------------
Briefs == [wantsDark : BOOLEAN, signals : SUBSET ToSet(Conditions)]

GeneratorInit == request = None /\ design = None

\* DesignSystemGenerator.generate, given what the searches return.
Generate(query, dial, category, found, palettes) ==
    LET reasoning == ApplyReasoning(category, query)
        priority == DialKeywords(dial) \o reasoning.priority
    IN  /\ request = None
        /\ request' = [query |-> query, dial |-> dial, category |-> category,
                       palettes |-> palettes, priority |-> priority]
        /\ \E style \in SelectBestMatch(found, priority) :
              LET mode == ColorMode(query, style, reasoning)
              IN  design' = [mode |-> mode, style |-> style,
                             palette |-> SelectPalette(palettes, mode, category),
                             avoidsDark |-> Advice(reasoning, mode)]

GeneratorNext ==
    \E query \in Briefs, dial \in Dials \union {None},
       category \in DOMAIN Palettes \union {"General"},
       found \in SUBSET {n \in DOMAIN Styles : Styles[n] # None},
       palettes \in UNION {[1..n -> DOMAIN Palettes] : n \in 0..2} :
          Generate(query, dial, category, found, palettes)

-----------------------------------------------------------------------------
(***************************************************************************)
(* A dark design is dark throughout: it never comes with a light palette   *)
(* when its category has a palette or a dark one was offered, nor with     *)
(* advice against dark mode; and a palette is derived only for a dark      *)
(* design from the palette of its own category.  design_system.py:490-492: *)
(* ranking colours independently is what let a dark-primary style ship     *)
(* with a light background.                                                *)
(***************************************************************************)
DesignIsOneMode ==
    design # None =>
        /\ design.mode = "dark" =>
              /\ ~design.avoidsDark
              /\ design.palette # None /\ ~design.palette.dark =>
                    \A p \in ToSet(request.palettes) :
                        p # request.category /\ ~Palettes[p]
        /\ design.palette # None /\ design.palette.derived =>
              design.mode = "dark" /\ design.palette.product = request.category
=============================================================================
