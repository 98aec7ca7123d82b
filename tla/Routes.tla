------------------------------- MODULE Routes -------------------------------
(***************************************************************************)
(* The start of a Crow application: run() adds the static directory and    *)
(* validates the router, which puts one declared rule after the other into *)
(* the tries (Router::validate) and compresses them.  From then on the     *)
(* router does not change.  A rule that is there already ends the program. *)
(***************************************************************************)
EXTENDS Routing

CONSTANTS Tables,   \* the sequences of rules a program may declare
          Urls      \* the URLs that rules are looked up for

IsSeq(s) == s \in Seq(ToSet(s))

ASSUME TablesAssumption ==
  \A table \in Tables : IsSeq(table) /\ \A i \in DOMAIN table : IsSeq(table[i].url)
ASSUME UrlsAssumption == \A url \in Urls : IsSeq(url)

VARIABLES rules,    \* all_rules_, in the order of their declaration
          added,    \* how many of them are in the tries
          router,   \* per_methods_
          phase     \* "adding", "serving", or "failed"

routeVars == <<rules, added, router, phase>>

RoutesInit ==
  /\ rules \in Tables
  /\ added = 0
  /\ router = EmptyRouter
  /\ phase = "adding"

AddRule ==
  /\ phase = "adding"
  /\ added < Len(rules)
  /\ ~Clashes(router, rules[added + 1])
  /\ router' = internal_add_rule_object(router, rules[added + 1])
  /\ added' = added + 1
  /\ UNCHANGED <<rules, phase>>

\* add() throws "handler already exists", out of run() and of main.
RuleClashes ==
  /\ phase = "adding"
  /\ added < Len(rules)
  /\ Clashes(router, rules[added + 1])
  /\ phase' = "failed"
  /\ UNCHANGED <<rules, added, router>>

Validate ==
  /\ phase = "adding"
  /\ added = Len(rules)
  /\ router' = Validated(router)
  /\ phase' = "serving"
  /\ UNCHANGED <<rules, added>>

Startup == AddRule \/ RuleClashes \/ Validate

-----------------------------------------------------------------------------
(* Properties *)

\* The parameters with which the rule from its i-th token on matches the URL from pos on, in a
\* set, or none: one token after the other takes its part.
Matching(pattern, url) ==
  LET from[i \in 1..(Len(pattern) + 1)] ==
        [pos \in 1..(Len(url) + 1) |->
           IF i > Len(pattern) \/ pos > Len(url)
           THEN IF i > Len(pattern) /\ pos > Len(url) THEN {<<>>} ELSE {}
           ELSE LET token == NodeOf(pattern[i])
                    rest  == From(url, pos)
                    taken == Takes(token, rest)
                IN IF taken = 0 THEN {}
                   ELSE {ParamOf(token, SubSeq(rest, 1, taken)) \o p : p \in from[i + 1][pos + taken]}]
  IN from

MatchesOf(pattern, url) == Matching(pattern, url)[1][1]

\* The index of the i-th rule among those of its method.
IndexOf(table, m, i) == Cardinality({j \in 1..i : m \in table[j].methods}) + 1

\* What a rule declares for its URL, and for the URL without its last slash.
Declared(table, m, i) ==
  {<<table[i].url, IndexOf(table, m, i)>>}
    \cup (IF WithoutSlash(table[i].url) = table[i].url THEN {}
          ELSE {<<WithoutSlash(table[i].url), RULE_SPECIAL_REDIRECT_SLASH>>})

\* A rule of the method matches, or would without its last slash.
Candidates(table, m, url) ==
  UNION {{[rule_index |-> d[2], params |-> p] : p \in MatchesOf(d[1], url)} :
           d \in UNION {Declared(table, m, i) : i \in {j \in DOMAIN table : m \in table[j].methods}}}

\* However the rules share prefixes and however the tries are compressed, a lookup finds what a
\* search through the declared rules finds: the first rule that matches, with its parameters, but
\* a redirect before any of them, and nothing where none matches (Trie::find, add and optimize).
FindsTheRule ==
  [][phase # "serving" /\ phase' = "serving" =>
       \A m \in Method, url \in Urls :
         LET found == Lookup(router', url)[m]
             all   == Candidates(rules, m, url)
         IN IF all = {} THEN found.rule_index = 0
            ELSE found \in {c \in all : \A d \in all : c.rule_index <= d.rule_index}]_routeVars
=============================================================================
