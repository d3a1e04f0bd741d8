----------------------------- MODULE MCSkills ------------------------------
(***************************************************************************)
(* The design skills' scripts on small instances.                          *)
(***************************************************************************)
EXTENDS Skills

(***************************************************************************)
(* The catalogue: A is in use, B takes every shape of a retired or         *)
(* supplemental row, among them those only the guardrail keeps out, and C  *)
(* every shape but those that name a successor by its domain.              *)
(***************************************************************************)
Row(id, status, parent, domain, target, about) ==
    [id |-> id, names |-> {id \o "-alias"}, status |-> status, parent |-> parent,
     domain |-> domain, target |-> target, about |-> about,
     bases |-> IF about = "charts" THEN {"aria"} ELSE {}, successor |-> status = "deprecated"]

Shapes(id, other) ==
    {Row(id, "active", None, None, None, "forms"),
     Row(id, "supplemental", "A", None, None, "forms"),
     Row(id, "deprecated", "A", None, None, "charts"),
     Row(id, "deprecated", other, None, None, "charts"),
     Row(id, "deprecated", None, "style", other, "charts"),
     Row(id, "deprecated", None, "landing", "hero", "charts")}

A == Row("A", "active", None, None, None, "charts")
Whole == {<<A, b, c>> : b \in Shapes("B", "C"), c \in {s \in Shapes("C", "B") : s.domain = None}}
Stack == <<Row("A", "deprecated", None, None, None, "charts"),
           Row("B", "active", None, None, None, "forms"),
           Row("C", "active", None, None, None, "charts")>>
Moved == <<Row("C", "active", None, None, None, "forms"), A>>

MCContents == Whole \union {Stack}
MCRewrites == {Moved, Gone}
MCRecommended == {"A", "A-alias"}
Query(kind, name, mentions, legacy, current, base, fresh) ==
    [kind |-> kind, name |-> name, mentions |-> mentions, topic |-> "charts",
     legacy |-> legacy, current |-> current, base |-> base, fresh |-> fresh]

MCQueries ==
    {Query("style", n, {}, FALSE, FALSE, "any", FALSE) : n \in {"B-alias", "other"}}
    \union {Query("style", "other", {"B", "C"}, FALSE, FALSE, "any", FALSE)}
    \union {Query("stack", "B-alias", {}, FALSE, TRUE, "any", FALSE),
            Query("stack", "other", {}, TRUE, TRUE, "any", FALSE),
            Query("stack", "other", {}, TRUE, FALSE, "any", TRUE),
            Query("stack", "other", {}, FALSE, TRUE, "aria", FALSE)}
MCWeight == [n \in {"A", "B", "C", "A-alias", "B-alias", "C-alias"} |->
                IF n = "C" THEN 1 ELSE 2]

(***************************************************************************)
(* A rule whose conditions set one mode and then the other, and names a    *)
(* style in use and one the catalogue redirects.                           *)
(***************************************************************************)
MCConditions == <<"must_have", "if_luxury", "if_light_mode_needed">>
MCRules ==
    ("bank" :> [actions |-> ("must_have" :> <<<<"style", "Bento Grids">>>>)
                             @@ ("if_luxury" :> <<<<"mode", "dark">>, <<"style", "OLED">>>>)
                             @@ ("if_light_mode_needed" :> <<<<"mode", "light">>>>),
                priority |-> <<"Minimalism">>, avoidsDark |-> TRUE])
    @@ ("game" :> [actions |-> <<>>, priority |-> <<"Retro">>, avoidsDark |-> FALSE])
MCStyles == ("Minimalism" :> [first |-> "light"]) @@ ("OLED" :> [first |-> "dark"])
            @@ ("Brutalism" :> [first |-> "light"]) @@ ("Bento Grids" :> None)
MCPalettes == ("bank" :> FALSE) @@ ("game" :> TRUE) @@ ("shop" :> FALSE)

\* Two names of one page, as far as its file goes.
MCPageTypes == [p \in {"about", "About"} |-> None]
MCPageSlugOf == [p \in {"about", "About"} |-> "about"]
MCSlugOf == [p \in {"My App"} |-> "my-app"]
\* The searches find a style that says nothing of effects, and no more.
MCFound ==
    {[style |-> [dense |-> TRUE, effects |-> FALSE, bestFor |-> "Dashboard"],
      ux |-> FALSE, landing |-> FALSE]}

\* Two deliverables whose names resolve to the same entry, one that resolves
\* to another, and one that resolves to none.
MCEntries == <<"Business Card", "Letterhead">>
MCScore == ("card" :> <<2, 0>>) @@ ("name card" :> <<1, 1>>) @@ ("paper" :> <<0, 1>>)
           @@ ("mug" :> <<0, 0>>)

Command(t, p, b, z, l) ==
    [tool |-> t, provider |-> p, batch |-> b, sizes |-> z, subject |-> "card", logo |-> l]

MCCommands ==
    {Command("logo", p, b, <<>>, "none") :
        p \in {"atlas", "gemini"}, b \in {<<>>, <<"v1", "v2", "v3">>}}
    \union {Command("icon", "gemini", b, z, "none") :
        b \in {<<>>, <<"v1", "v2", "v3">>}, z \in {<<>>, <<"16", "24", "16">>}}
    \union {Command("cip", "gemini", b, <<>>, l) :
        b \in {<<>>, <<"card", "name card", "paper", "mug">>},
        l \in {"given", "none", "unreadable", "generate", "exit"}}

Symmetry == Permutations(Agents)
=============================================================================
