---------------------------- MODULE RequestRouting ----------------------------
(***************************************************************************)
(* The router that every interception layer and the server ask about a      *)
(* request (packages/core/src/routing), and that every revision of the      *)
(* configuration replaces.                                                  *)
(*                                                                          *)
(* Texts are sequences of tokens: "/", "*", "?", "#" and words; a word of   *)
(* Dotted holds a dot, as the name of a service does.                       *)
(***************************************************************************)
EXTENDS Naturals, Sequences, FiniteSets, SequencesExt

CONSTANTS
  Settings,   \* configurations: [byok, hosts, rules], hosts a set, rules a sequence
              \* of [rest, text, comment]: rest for the "REST:" in front
  Spelled,    \* how hosts are written |-> the host that is meant, or NoHost
  Asked,      \* paths that are asked about, and NoPath
  NoPath,     \* what the socket layer knows of the path
  Tokens,     \* what texts are made of
  Dotted,     \* words with a dot in them
  CacheLimit  \* hosts the matcher remembers: 512 in the code

ASSUME RouteAssumption ==
  /\ \A s \in Settings : s.rules \in Seq([rest : BOOLEAN, text : Seq(Tokens), comment : BOOLEAN])
  /\ Asked \subseteq Seq(Tokens) /\ "/" \in Tokens

VARIABLES
  setting,    \* the configuration the router was compiled from
  remembered, \* host |-> the verdict on it
  resolved    \* the last query and the decision on it

routeVars == <<setting, remembered, resolved>>

NoHost == ""
NoRule == [kind |-> "none", value |-> <<>>, prefix |-> FALSE]
Unresolved == [spelling |-> NoHost, path |-> NoPath, action |-> "none", rule |-> NoRule]

-----------------------------------------------------------------------------
(* Rules.                                                                   *)

Slashed(text) == IF text # <<>> /\ Head(text) = "/" THEN text ELSE <<"/">> \o text
Bare(path) == IF path # <<>> /\ Head(path) = "/" THEN Tail(path) ELSE path
Slashes(text) == {k \in DOMAIN text : text[k] = "/"}
HasDot(text) == \E k \in DOMAIN text : text[k] \in Dotted

\* service/method and no other depth, neither of them empty.
IsCall(text) == \E k \in 2..(Len(text) - 1) : Slashes(text) = {k}
ServiceOf(text) == SubSeq(text, 1, Min(Slashes(text)) - 1)

ParseRest(text) ==
  LET path == Slashed(text)
      prefix == Last(path) = "*"
      value == IF prefix THEN Front(path) ELSE path
  IN IF Len(value) < 2 THEN NoRule ELSE [kind |-> "rest", value |-> value, prefix |-> prefix]

\* A service or a method of one; a line that is neither is no rule.
ParseCall(text) ==
  IF Slashes(text) = {} /\ HasDot(text) THEN [kind |-> "service", value |-> text, prefix |-> FALSE]
  ELSE IF IsCall(text) /\ HasDot(ServiceOf(text)) THEN [kind |-> "method", value |-> text, prefix |-> FALSE]
  ELSE NoRule

ParseRule(source) ==
  IF source.comment THEN NoRule
  ELSE IF source.rest THEN ParseRest(source.text) ELSE ParseCall(source.text)

Compile(rules) == [k \in DOMAIN rules |-> ParseRule(rules[k])]

\* Without the query and the fragment.
NormalisePath(path) ==
  LET cut == {k \in DOMAIN path : path[k] \in {"?", "#"}}
  IN IF cut = {} THEN path ELSE SubSeq(path, 1, Min(cut) - 1)

SplitRpcPath(path) ==
  IF IsCall(Bare(path)) THEN [service |-> ServiceOf(Bare(path)), both |-> Bare(path)]
  ELSE [service |-> <<>>, both |-> <<>>]

-----------------------------------------------------------------------------
(* The table: maps, in which the last of equal rules stays, and the prefixes, *)
(* longest first and otherwise in their order.  Lines that are no rule are    *)
(* left in it: nothing matches them.                                          *)

Same(table, kind, value) ==
  {k \in DOMAIN table : table[k].kind = kind /\ ~table[k].prefix /\ table[k].value = value}

LastOf(table, kind, value) ==
  IF Same(table, kind, value) = {} THEN NoRule ELSE table[Max(Same(table, kind, value))]

Fitting(table, path) == {k \in DOMAIN table : table[k].prefix /\ IsPrefix(table[k].value, path)}

\* Faulty: the first prefix that matches, in the order of the document.
FirstPrefix(table, path) ==
  IF Fitting(table, path) = {} THEN NoRule ELSE table[Min(Fitting(table, path))]

LongestPrefix(table, path) ==
  LET fitting == Fitting(table, path)
      longest == {k \in fitting : \A j \in fitting : Len(table[j].value) <= Len(table[k].value)}
  IN IF fitting = {} THEN NoRule ELSE table[Min(longest)]

\* What claims a path, the most specific first.
Candidates(table, path) ==
  LET rpc == SplitRpcPath(path)
  IN <<LastOf(table, "rest", path), LongestPrefix(table, path),
       LastOf(table, "method", rpc.both), LastOf(table, "service", rpc.service)>>

FirstRule(candidates) ==
  LET found == {k \in DOMAIN candidates : candidates[k] # NoRule}
  IN IF found = {} THEN NoRule ELSE candidates[Min(found)]

Match(table, raw) ==
  LET path == NormalisePath(raw)
  IN IF Len(path) < 2 THEN NoRule ELSE FirstRule(Candidates(table, path))

-----------------------------------------------------------------------------
RouteInit ==
  /\ setting \in Settings
  /\ remembered = <<>>
  /\ resolved = Unresolved

\* A revision compiles a router of its own, with nothing remembered.
Recompile(new) ==
  /\ setting' = new
  /\ remembered' = <<>>
  /\ resolved' = Unresolved

HostMatches(host) == IF host \in DOMAIN remembered THEN remembered[host] ELSE host \in setting.hosts

Remember(host) ==
  remembered' = IF host = NoHost \/ host \in DOMAIN remembered \/ Cardinality(DOMAIN remembered) >= CacheLimit
                THEN remembered
                ELSE [h \in DOMAIN remembered \cup {host} |-> HostMatches(h)]

Resolve(spelling, path) ==
  LET host == Spelled[spelling]
      rule == IF path = NoPath THEN NoRule ELSE Match(Compile(setting.rules), path)
      decided(action) == resolved' = [spelling |-> spelling, path |-> path, action |-> action, rule |-> rule]
  IN /\ \/ ~setting.byok /\ decided("passthrough") /\ UNCHANGED remembered
        \/ setting.byok /\ Remember(host)
           /\ decided(IF host = NoHost \/ ~HostMatches(host) THEN "passthrough"
                      ELSE IF path = NoPath THEN "capture"
                      ELSE IF rule = NoRule THEN "passthrough" ELSE "intercept")
     /\ UNCHANGED setting

RouteNext ==
  \/ \E new \in Settings : Recompile(new)
  \/ \E spelling \in DOMAIN Spelled, path \in Asked : Resolve(spelling, path)

RouteSpec == RouteInit /\ [][RouteNext]_routeVars

-----------------------------------------------------------------------------
\* What a line claims, by the words of its author and not by the table.
Claims(source, raw) ==
  LET path == NormalisePath(raw)
      bare == Bare(path)
      rule == ParseRule(source)
  IN \/ rule.kind = "rest" /\ IF rule.prefix THEN IsPrefix(rule.value, path) ELSE rule.value = path
     \/ rule.kind = "method" /\ rule.value = bare
     \/ /\ rule.kind = "service"
        /\ IsPrefix(rule.value \o <<"/">>, bare) /\ Len(bare) > Len(rule.value) + 1
        /\ \A k \in (Len(rule.value) + 2)..Len(bare) : bare[k] # "/"

Rank(rule) ==
  CASE rule.kind = "rest" /\ ~rule.prefix -> 4 [] rule.kind = "rest" /\ rule.prefix -> 3
    [] rule.kind = "method" -> 2 [] rule.kind = "service" -> 1 [] OTHER -> 0

NoLessSpecific(rule, other) ==
  \/ Rank(rule) > Rank(other)
  \/ Rank(rule) = Rank(other) /\ (rule.prefix => Len(rule.value) >= Len(other.value))

Claiming(rules, raw) == {k \in DOMAIN rules : Claims(rules[k], raw)}

\* A request is classified by the configuration in force, whatever was asked
\* before, under whatever spelling and at whatever layer: intercepted exactly
\* when the mode is on, the host is one of the configuration's and some line of
\* it claims the path, by the most specific of the lines that do; and a layer
\* that does not know the path captures exactly the hosts of which it might be.
RoutedByConfig ==
  LET host == Spelled[resolved.spelling]
      candidate == setting.byok /\ host # NoHost /\ host \in setting.hosts
      claiming == Claiming(setting.rules, resolved.path)
      ruleOf(k) == ParseRule(setting.rules[k])
  IN resolved.action # "none" =>
       /\ resolved.action = "capture" <=> candidate /\ resolved.path = NoPath
       /\ resolved.action = "intercept" <=> candidate /\ resolved.path # NoPath /\ claiming # {}
       /\ resolved.action = "intercept" =>
            /\ \E k \in claiming : resolved.rule = ruleOf(k)
            /\ \A k \in claiming : NoLessSpecific(resolved.rule, ruleOf(k))
=============================================================================
