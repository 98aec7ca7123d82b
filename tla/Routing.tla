------------------------------ MODULE Routing -------------------------------
(***************************************************************************)
(* The router of routing.h: the trie of each method, filled from the       *)
(* declared rules, compressed, and searched with a URL.  A URL and a rule  *)
(* are sequences of characters; a rule may hold the name of a parameter    *)
(* where a character stands.  The application declares no blueprint, so    *)
(* every blueprint_index is INVALID_BP_ID and no list of them is kept.     *)
(***************************************************************************)
EXTENDS HttpResponse, FiniteSets, SequencesExt

CONSTANT MaxDigits   \* a number with more digits is out of range for strtoll and strtoull

ASSUME MaxDigitsAssumption == MaxDigits \in Nat \ {0}

Method == {"GET", "HEAD", "POST", "OPTIONS", "PUT", "DELETE"}
Param  == {"<int>", "<uint>", "<double>", "<string>", "<path>"}
Digit  == {"0", "1", "2"}
Sign   == {"+", "-"}

RULE_SPECIAL_REDIRECT_SLASH == 1

-----------------------------------------------------------------------------
(* The trie: a sequence of nodes, the first of them head_.  A node has the *)
(* places of its children, which are behind its own.                       *)

NewNode(key, param) == [rule_index |-> 0, key |-> key, param |-> param, children |-> <<>>]

\* The node add() makes for one character or parameter of a rule.
NodeOf(token) == IF token \in Param THEN NewNode(<<>>, token) ELSE NewNode(<<token>>, "none")

EmptyTrie == <<NewNode(<<>>, "none")>>

\* The child that add() follows for one character or parameter of a rule.
Follows(child, token) ==
  IF token \in Param THEN child.param = token
                     ELSE child.param = "none" /\ Head(child.key) = token

\* The node of an uncompressed trie that the first k tokens lead to; 0: there is none.
Walk(trie, url) ==
  LET at[k \in 0..Len(url)] ==
        IF k = 0 THEN 1
        ELSE LET node  == at[k - 1]
                 found == IF node = 0 THEN {}
                          ELSE {i \in Range(trie[node].children) : Follows(trie[i], url[k])}
             IN IF found = {} THEN 0 ELSE CHOOSE i \in found : TRUE
  IN at

\* Trie::add of an uncompressed trie, for a rule that is not there yet.
Add(trie, url, rule_index) ==
  LET at    == Walk(trie, url)
      known == Max({k \in 0..Len(url) : at[k] # 0})
      chain == [j \in 1..(Len(url) - known) |->
                  [NodeOf(url[known + j]) EXCEPT
                     !.children = IF known + j = Len(url) THEN <<>> ELSE <<Len(trie) + j + 1>>]]
      grown == trie \o chain
  IN IF known = Len(url) THEN [trie EXCEPT ![at[known]].rule_index = rule_index]
     ELSE [grown EXCEPT ![at[known]].children = Append(@, Len(trie) + 1),
                        ![Len(grown)].rule_index = rule_index]

\* The rule at exactly this place: add() throws "handler already exists" when there is one.
RuleAt(trie, url) == LET node == Walk(trie, url)[Len(url)]
                     IN IF node = 0 THEN 0 ELSE trie[node].rule_index

\* Mutant: a node that ends a rule is merged with its child.
IsSimpleNode_ofRule(trie, node) ==
  /\ Len(node.children) < 2
  /\ node.param = "none"
  /\ \A i \in Range(node.children) : trie[i].param = "none"

IsSimpleNode(trie, node) ==
  /\ node.rule_index = 0
  /\ Len(node.children) < 2
  /\ node.param = "none"
  /\ \A i \in Range(node.children) : trie[i].param = "none"

\* optimizeNode: a simple node is merged with its only child, and that one with its own.
optimize(trie) ==
  LET merged[i \in DOMAIN trie] ==
        IF trie[i].children = <<>> \/ ~IsSimpleNode(trie, trie[i]) THEN trie[i]
        ELSE LET child == merged[trie[i].children[1]]
             IN [child EXCEPT !.key = trie[i].key \o @]
  IN [i \in DOMAIN trie |-> IF i = 1 THEN trie[1] ELSE merged[i]]

From(url, n) == SubSeq(url, n, Len(url))

\* Length of the longest prefix of url within chars.
Span(url, chars) ==
  CHOOSE n \in 0..Len(url) : /\ \A i \in 1..n : url[i] \in chars
                             /\ n < Len(url) => url[n + 1] \notin chars

\* A sign and what follows it; nothing follows: there is no number.
Signed(sign, span) == IF span = 0 THEN 0 ELSE sign + span

SignOf(url, signs) == IF Head(url) \in signs THEN 1 ELSE 0

\* Digits are out of range, ERANGE, when there are too many.
InRange(digits) == IF digits > MaxDigits THEN 0 ELSE digits

\* What strtoll and strtoull consume: an optional sign and digits, nothing on ERANGE.
IntegerSpan(url, signs) ==
  LET sign == SignOf(url, signs) IN Signed(sign, InRange(Span(From(url, sign + 1), Digit)))

\* The whole digits, and the digits behind a point: there is a digit before or after the point.
Pointed(whole, part) == IF whole + part = 0 THEN 0 ELSE whole + 1 + part

\* What strtod consumes of digits, a point and digits.
UnsignedSpan(text, whole) ==
  IF whole < Len(text) /\ text[whole + 1] = "."
  THEN Pointed(whole, Span(From(text, whole + 2), Digit)) ELSE whole

DoubleSpan(url) ==
  LET sign     == SignOf(url, Sign)
      unsigned == From(url, sign + 1)
  IN Signed(sign, UnsignedSpan(unsigned, Span(unsigned, Digit)))

\* How much of a non-empty url a child takes; 0: the child does not match.
Takes(child, url) ==
  CASE child.param = "<int>"    -> IntegerSpan(url, Sign)
    [] child.param = "<uint>"   -> IntegerSpan(url, {"+"})
    [] child.param = "<double>" -> DoubleSpan(url)
    [] child.param = "<string>" -> Span(url, {url[i] : i \in DOMAIN url} \ {"/"})
    [] child.param = "<path>"   -> Len(url)
    [] child.param = "none"     -> IF IsPrefix(child.key, url) THEN Len(child.key) ELSE 0

NoRule == [rule_index |-> 0, params |-> <<>>]

update_found(found, ret) ==
  IF ret.rule_index # 0 /\ (found.rule_index = 0 \/ found.rule_index > ret.rule_index)
  THEN ret ELSE found

\* The best of what the children of a node found, one after the other.
BestOf(results) ==
  LET best[k \in 0..Len(results)] ==
        IF k = 0 THEN NoRule ELSE update_found(best[k - 1], results[k])
  IN best[Len(results)]

\* What a child adds to the parameters when it takes this text.
ParamOf(child, text) ==
  IF child.param = "none" THEN <<>> ELSE <<[param |-> child.param, value |-> text]>>

WithParam(found, child, text) == [found EXCEPT !.params = ParamOf(child, text) \o @]

\* What is found behind a child that takes so much of the rest; below: what is found from the child on.
Behind(child, below, pos, rest, taken) ==
  IF taken = 0 THEN NoRule ELSE WithParam(below[pos + taken], child, SubSeq(rest, 1, taken))

\* What is found by way of a child for url from pos on.
Through(child, below, url, pos) ==
  LET rest == From(url, pos) IN Behind(child, below, pos, rest, Takes(child, rest))

\* Trie::find from every node, for the URL from every position on.
find(trie, url) ==
  LET below[n \in DOMAIN trie] ==
        [pos \in 1..(Len(url) + 1) |->
           IF pos > Len(url) THEN [rule_index |-> trie[n].rule_index, params |-> <<>>]
           ELSE BestOf([i \in DOMAIN trie[n].children |->
                          LET child == trie[n].children[i]
                          IN Through(trie[child], below[child], url, pos)])]
  IN below[1][1]

-----------------------------------------------------------------------------
(* The router.  rules leaves out the two preallocated entries, so that the *)
(* rule with index i is rules[i - 1].                                      *)

PerMethod == [rules |-> <<>>, trie |-> EmptyTrie]

EmptyRouter == [m \in Method |-> PerMethod]

WithoutSlash(url) == IF Len(url) > 1 /\ Last(url) = "/" THEN Front(url) ELSE url

\* internal_add_rule_object throws out of add() for one of the rule's methods.
Clashes(router, rule) ==
  \E m \in rule.methods :
    \/ RuleAt(router[m].trie, rule.url) # 0
    \/ RuleAt(router[m].trie, WithoutSlash(rule.url)) # 0 /\ WithoutSlash(rule.url) # rule.url

internal_add_rule_object(router, rule) ==
  [m \in Method |->
    IF m \notin rule.methods THEN router[m]
    ELSE LET index == Len(router[m].rules) + 2
             added == Add(router[m].trie, rule.url, index)
         IN [rules |-> Append(router[m].rules, rule),
             trie  |-> IF WithoutSlash(rule.url) = rule.url THEN added
                       ELSE Add(added, WithoutSlash(rule.url), RULE_SPECIAL_REDIRECT_SLASH)]]

\* Router::validate once every rule is in: each trie is compressed.
Validated(router) == [m \in Method |-> [router[m] EXCEPT !.trie = optimize(@)]]

\* What a look into the trie of each method finds.
Lookup(router, url) == [m \in Method |-> find(router[m].trie, url)]

Somewhere(found) == {m \in Method : found[m].rule_index # 0}

\* routing_handle_result.
Found(result, m, catch_all) ==
  [rule_index |-> result.rule_index, params |-> result.params, method |-> m, catch_all |-> catch_all]

NotFound == Found(NoRule, "none", FALSE)

\* The answer that handle_initial ends by itself: res = response(code); res.end(), no handler set.
EndedWith(res, code) == Ended(Assign(res, code, ""))

Initial(found, res) == [found |-> found, res |-> res]

\* own and get are the rules found for HEAD and GET.
InitialHead(own, get, res) ==
  CASE own.rule_index # 0 -> Initial(Found(own, "HEAD", FALSE), [res EXCEPT !.skip_body = TRUE])
    [] own.rule_index = 0 /\ get.rule_index # 0 ->
         Initial(Found(get, "GET", FALSE), [res EXCEPT !.skip_body = TRUE])
    [] OTHER -> Initial(NotFound, EndedWith(res, 404))

Allowed(res, methods) == Ended(set_header(Assign(res, 204, ""), "allow", methods))

\* methods are those that have a rule for the URL; "*" asks for those that have any rule.
InitialOptions(methods, res) ==
  IF methods # {} THEN Initial(Found(NoRule, "OPTIONS", FALSE), Allowed(res, methods \ {"HEAD"}))
  ELSE Initial(NotFound, EndedWith(res, 404))

Anywhere(router) == {"HEAD"} \cup {m \in Method : router[m].trie[1].children # <<>>}

\* own is the rule found for the method.
InitialOther(own, m, methods, res) ==
  IF own.rule_index # 0 THEN Initial(Found(own, m, FALSE), res)
  ELSE Initial([NotFound EXCEPT !.catch_all = TRUE],
               [res EXCEPT !.code = IF methods # {} THEN 405 ELSE 404])

\* found are the rules of all methods, which are looked up one after the other as they are needed.
Initially(router, m, found, url, res) ==
  CASE m = "HEAD"    -> InitialHead(found["HEAD"], found["GET"], res)
    [] m = "OPTIONS" -> InitialOptions(IF url = <<"/", "*">> THEN Anywhere(router) ELSE Somewhere(found),
                                       res)
    [] OTHER         -> InitialOther(found[m], m, Somewhere(found), res)

\* Router::handle_initial: the rule for a URL, or the answer when there is none.
handle_initial(router, m, url, res) == Initially(router, m, Lookup(router, url), url, res)
=============================================================================
