----------------------------- MODULE MCServices -----------------------------
EXTENDS Services

(* The tools a model may name, two of them offered, and policies of every  *)
(* shape: none, an empty list, one list, lists that meet, a denied tool.   *)
MCTools == {"a", "b", "x"}
MCOffered == {"a", "b"}
MCBudgets == {{}, {1}}
MCInputs ==
  {[allow |-> {}, deny |-> {}], [allow |-> {{}}, deny |-> {}], [allow |-> {{"a"}}, deny |-> {}],
   [allow |-> {{"b", "x"}}, deny |-> {}], [allow |-> {{"a", "b"}}, deny |-> {"b"}]}

(* Roles: restricted by provider, model and tokens; malformed and with a   *)
(* denied tool among the allowed ones; with an empty list; with limits;    *)
(* with a session budget that is not a number.                             *)
NoLimits ==
  [providers |-> {}, models |-> {}, tools |-> {}, denied |-> {}, tokens |-> {}, budget |-> {},
   rated |-> FALSE, malformed |-> {}, defaulted |-> "limited"]
MCPolicies ==
  {[NoLimits EXCEPT !.providers = {{"p"}}, !.models = {{{"m", "m2"}}}, !.tokens = {1},
                    !.defaulted = "unset"],
   [NoLimits EXCEPT !.tools = {{"t"}}, !.denied = {{"t"}}, !.malformed = {"models"}],
   [NoLimits EXCEPT !.tools = {{"t"}}, !.denied = {{"d"}}, !.providers = {{}},
                    !.defaulted = "elsewhere"],
   [NoLimits EXCEPT !.rated = TRUE, !.budget = {1}], [NoLimits EXCEPT !.malformed = {"budget"}]}

Wire(url, provider, model, tokens, tool) ==
  [url |-> url, body |-> [provider |-> provider, model |-> model, tokens |-> tokens, tool |-> tool]]
MCWire ==
  {Wire("", "", "", {}, ""), Wire("p", "", "", {}, ""), Wire("p", "q", "m", {2}, ""),
   Wire("", "", "x", {}, "d"), Wire("p", "", "m", {1}, "t"), Wire("", "", "m", {}, "u")}

(* Two providers that both offer a strong model, one that offers a plain   *)
(* one and one that offers a cheap one; a custom model of small window.    *)
Entry(provider, id, aliases, capabilities, window, cost) ==
  [provider |-> provider, id |-> id, aliases |-> aliases, capabilities |-> capabilities,
   window |-> window, cost |-> cost]
Every == {"streaming", "tools", "vision", "reasoning", "structuredOutput", "parallelTools"}
MCBuiltin ==
  <<Entry("p", "big", {"b"}, Every, 1000, 140), Entry("q", "big", {}, Every, 1000, 140),
    Entry("p", "plain", {}, {"streaming", "tools"}, 128, 10), Entry("q", "small", {}, Every, 200, 0)>>
MCCustoms == {Entry("q", "own", {}, {"streaming", "structuredOutput"}, 32, 0)}
MCRegistrations ==
  {[name |-> "p", models |-> {"big", "plain"}], [name |-> "q", models |-> {}],
   [name |-> "q", models |-> {"small"}]}

(* Calls with and without a preference, a budget, a cap, an exclusion by   *)
(* id and by alias, a waived need and a model named outright.              *)
Want(task, needs) ==
  [explicit |-> {}, waived |-> FALSE, task |-> task, needs |-> needs, maxCost |-> 0,
   budget |-> "none", exclude |-> {}, preferred |-> "none"]
MCWants ==
  {[Want("general", {}) EXCEPT !.exclude = {"small"}, !.preferred = "p"],
   [Want("coding", {"tools"}) EXCEPT !.preferred = "p", !.budget = "medium"],
   [Want("writing", {}) EXCEPT !.budget = "low", !.exclude = {"small"}],
   [Want("analysis", {}) EXCEPT !.maxCost = 100, !.preferred = "p"],
   [Want("general", {}) EXCEPT !.explicit = {[provider |-> "p", id |-> "own"]}],
   [Want("extraction", {}) EXCEPT !.waived = TRUE, !.exclude = {"b"}, !.preferred = "q"],
   [Want("reasoning", {"vision"}) EXCEPT !.explicit = {[provider |-> "q", id |-> "small"]}]}

(* Agreements on latency, availability and cost, of windows of one, two    *)
(* and no units of time, and one on errors that shares a name with the     *)
(* first but not its window.                                               *)
MCAgreements ==
  <<[name |-> "slow", metric |-> "latency_p95", threshold |-> 1, window |-> 1],
    [name |-> "up", metric |-> "availability", threshold |-> 60, window |-> 2],
    [name |-> "slow", metric |-> "error_rate", threshold |-> 0, window |-> 2],
    [name |-> "dear", metric |-> "cost_per_request", threshold |-> 1, window |-> 0]>>

(* The retry stage before the pace, after the cache, and a cache before    *)
(* the pace.                                                               *)
MCChains ==
  {<<"retry", "pace", "auth">>, <<"cache", "retry">>, <<"auth", "cache", "pace">>}

(* Texts of a letter, a line break and a sentence end, which is two        *)
(* symbols; ingests of one document again, of two, and of one without id.  *)
MCSymbols == {"a", "b", "\n", ".", " "}
MCLetters == {"a", "b"}
MCSeparators == <<<<"\n", "\n">>, <<"\n">>, <<".", " ">>, <<" ">>, <<>>>>
MCSentenceEnds == <<<<".", " ">>, <<"\n">>>>
MCDrafts == UNION {[1..n -> {"a", "\n", ".", " "}] : n \in 0..5}
Doc(id, text) == [id |-> id, text |-> text]
MCWritings ==
  {<<Doc("d", <<"a", "b", " ", "b", "a">>)>>, <<Doc("d", <<"b">>), Doc("", <<"a", "b">>)>>,
   <<Doc("", <<"a", " ", "a", "b">>)>>}
MCWeight == [s \in MCSymbols |-> IF s = "a" THEN 1 ELSE IF s = "b" THEN 2 ELSE 0]
============================================================================
